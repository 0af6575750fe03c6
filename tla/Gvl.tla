-------------------------------- MODULE Gvl --------------------------------
(***************************************************************************)
(* The global VM lock of the pthread build (thread_pthread.c, gvl_xxx).    *)
(*                                                                         *)
(* All four fields of vm->gvl are read and written under the native mutex  *)
(* gvl.lock, so the code between two waits is one atomic step.  A thread   *)
(* that calls native_cond_wait is blocked on one of the three condition    *)
(* variables ("cond", "switch", "switch_wait"); a signal, a broadcast or a *)
(* spurious wakeup moves it to the matching "..._woken" place, where it    *)
(* contends for gvl.lock again and rechecks the predicate of its loop.     *)
(***************************************************************************)
EXTENDS Integers, FiniteSets

CONSTANTS
    Thread,     \* the native threads that run Ruby code
    NoThread    \* the value of vm->running_thread when no thread is running

ASSUME ThreadAssumption == IsFiniteSet(Thread) /\ NoThread \notin Thread

VARIABLES
    acquired,       \* vm->gvl.acquired
    waiting,        \* vm->gvl.waiting
    need_yield,     \* vm->gvl.need_yield
    wait_yield,     \* vm->gvl.wait_yield
    running_thread, \* vm->running_thread, set by rb_thread_set_current
    main_thread,    \* vm->main_thread
    pc              \* where each thread is with respect to the GVL

gvlVars == <<acquired, waiting, need_yield, wait_yield,
             running_thread, main_thread, pc>>

\* A thread that has the GVL is about to call rb_thread_set_current ("resume"),
\* runs Ruby code ("hold") or is past its last Ruby code ("exit").  "dead" stands
\* for a thread that has ended or was not created yet, "out" for one that runs
\* without the GVL (a blocking region, or the start of a new thread).
Place == {"dead", "out", "resume", "hold", "exit", "sched_yield",
          "cond", "switch", "switch_wait",
          "cond_woken", "switch_woken", "switch_wait_woken"}

\* The places of a thread that has the GVL, and of one in the need_yield loop.
Having == {"resume", "hold", "exit"}
Yielding == {"switch", "switch_woken"}

\* The threads vm->gvl.waiting counts: those in the loop of gvl_acquire_common.
Waiters == {t \in Thread : pc[t] \in {"cond", "cond_woken"}}

\* gvl_init and the main thread's first gvl_acquire (Init_Thread).
Init ==
    /\ acquired = TRUE
    /\ waiting = 0
    /\ need_yield = FALSE
    /\ wait_yield = FALSE
    /\ main_thread \in Thread
    /\ running_thread = main_thread
    /\ pc = [t \in Thread |-> IF t = main_thread THEN "hold" ELSE "dead"]

-----------------------------------------------------------------------------
(* Condition variables. *)

\* The places of all threads after native_cond_signal: one of the threads
\* blocked on the condition is woken; the signal is lost when there is none.
native_cond_signal(place, from, to) ==
    LET blocked == {t \in Thread : place[t] = from}
    IN  IF blocked = {} THEN {place}
        ELSE {[place EXCEPT ![t] = to] : t \in blocked}

native_cond_broadcast(place, from, to) ==
    [t \in Thread |-> IF place[t] = from THEN to ELSE place[t]]

\* pthread_cond_wait may return without a signal.
SpuriousWakeup(t) ==
    /\ \/ pc[t] = "cond" /\ pc' = [pc EXCEPT ![t] = "cond_woken"]
       \/ pc[t] = "switch" /\ pc' = [pc EXCEPT ![t] = "switch_woken"]
       \/ pc[t] = "switch_wait" /\ pc' = [pc EXCEPT ![t] = "switch_wait_woken"]
    /\ UNCHANGED <<acquired, waiting, need_yield, wait_yield,
                   running_thread, main_thread>>

-----------------------------------------------------------------------------
(* Acquiring and releasing. *)

\* Mutant: a waiter is not counted.
Mut_AcquireUncounted(t, place) ==
    /\ acquired' = TRUE
    /\ pc' = [place EXCEPT ![t] = IF acquired THEN "cond" ELSE "resume"]
    /\ UNCHANGED waiting

\* The first step of gvl_acquire_common by t, the other threads being at place:
\* take a free GVL at once, or join the waiters.
gvl_acquire_common(t, place) ==
    \/ /\ ~acquired
       /\ acquired' = TRUE
       /\ pc' = [place EXCEPT ![t] = "resume"]
       /\ UNCHANGED waiting
    \/ /\ acquired
       /\ waiting' = waiting + 1
       /\ pc' = [place EXCEPT ![t] = "cond"]
       /\ UNCHANGED acquired

gvl_acquire(t) ==
    /\ pc[t] = "out"
    /\ gvl_acquire_common(t, pc)
    /\ UNCHANGED <<need_yield, wait_yield, running_thread, main_thread>>

\* A woken waiter that finds the GVL taken waits again.
CondRecheck(t) ==
    /\ pc[t] = "cond_woken"
    /\ acquired
    /\ pc' = [pc EXCEPT ![t] = "cond"]
    /\ UNCHANGED <<acquired, waiting, need_yield, wait_yield,
                   running_thread, main_thread>>

\* Mutant: the GVL is not looked at again after the wait.
Mut_TakeWithoutRecheck(t) ==
    /\ pc[t] = "cond_woken"
    /\ acquired' = TRUE
    /\ waiting' = waiting - 1
    /\ need_yield' = FALSE
    /\ pc' \in native_cond_signal([pc EXCEPT ![t] = "resume"], "switch", "switch_woken")
    /\ UNCHANGED <<wait_yield, running_thread, main_thread>>

\* A woken waiter that finds the GVL free takes it, and tells the thread that
\* is waiting in gvl_yield for this to happen.
CondTake(t) ==
    /\ pc[t] = "cond_woken"
    /\ ~acquired
    /\ acquired' = TRUE
    /\ waiting' = waiting - 1
    /\ need_yield' = FALSE
    /\ LET taken == [pc EXCEPT ![t] = "resume"]
       IN  pc' \in IF need_yield
                   THEN native_cond_signal(taken, "switch", "switch_woken")
                   ELSE {taken}
    /\ UNCHANGED <<wait_yield, running_thread, main_thread>>

\* Mutant: vm->running_thread is set only if there is none.
Mut_SetCurrentOnce(t) ==
    /\ pc[t] = "resume"
    /\ running_thread' = IF running_thread = NoThread THEN t ELSE running_thread
    /\ pc' = [pc EXCEPT ![t] = "hold"]
    /\ UNCHANGED <<acquired, waiting, need_yield, wait_yield, main_thread>>

\* Every gvl_acquire and gvl_yield is followed by rb_thread_set_current, which
\* needs the GVL but not gvl.lock: until then vm->running_thread is stale.
rb_thread_set_current(t) ==
    /\ pc[t] = "resume"
    /\ running_thread' = t
    /\ pc' = [pc EXCEPT ![t] = "hold"]
    /\ UNCHANGED <<acquired, waiting, need_yield, wait_yield, main_thread>>

\* Mutant: nobody is told that the GVL is free.
Mut_ReleaseWithoutSignal(t, next) == {[pc EXCEPT ![t] = next]}

\* The places after gvl_release_common, for a caller that goes on to place next.
gvl_release_common(t, next) ==
    LET left == [pc EXCEPT ![t] = next]
    IN  IF waiting > 0 THEN native_cond_signal(left, "cond", "cond_woken") ELSE {left}

gvl_release(t) ==
    /\ pc[t] = "hold"
    /\ acquired' = FALSE
    /\ pc' \in gvl_release_common(t, "out")
    /\ UNCHANGED <<waiting, need_yield, wait_yield,
                   running_thread, main_thread>>

\* The end of thread_start_func_2: vm->running_thread is cleared before the
\* GVL is released, so that the timer thread never reads a freed thread.
ThreadEnd(t) ==
    /\ pc[t] = "hold"
    /\ t # main_thread
    /\ running_thread' = NoThread
    /\ pc' = [pc EXCEPT ![t] = "exit"]
    /\ UNCHANGED <<acquired, waiting, need_yield, wait_yield, main_thread>>

ThreadExit(t) ==
    /\ pc[t] = "exit"
    /\ acquired' = FALSE
    /\ pc' \in gvl_release_common(t, "dead")
    /\ UNCHANGED <<waiting, need_yield, wait_yield, running_thread, main_thread>>

\* Thread.new by the thread that runs: the new thread starts without the GVL.
thread_create_core(t) ==
    /\ pc[t] = "dead"
    /\ \E u \in Thread : pc[u] = "hold"
    /\ pc' = [pc EXCEPT ![t] = "out"]
    /\ UNCHANGED <<acquired, waiting, need_yield, wait_yield,
                   running_thread, main_thread>>

-----------------------------------------------------------------------------
(* Yielding. *)

\* gvl_yield while another thread is in the middle of its gvl_yield.
YieldBehindAnother(t) ==
    /\ pc[t] = "hold"
    /\ wait_yield
    /\ acquired' = FALSE
    /\ pc' \in gvl_release_common(t, "switch_wait")
    /\ UNCHANGED <<waiting, need_yield, wait_yield,
                   running_thread, main_thread>>

\* gvl_yield when some thread waits for the GVL: sleep until one has it.
YieldToWaiter(t) ==
    /\ pc[t] = "hold"
    /\ ~wait_yield
    /\ waiting > 0
    /\ acquired' = FALSE
    /\ need_yield' = TRUE
    /\ wait_yield' = TRUE
    /\ pc' \in gvl_release_common(t, "switch")
    /\ UNCHANGED <<waiting, running_thread, main_thread>>

\* gvl_yield when no thread waits for the GVL: sched_yield without the lock.
YieldToNobody(t) ==
    /\ pc[t] = "hold"
    /\ ~wait_yield
    /\ waiting = 0
    /\ acquired' = FALSE
    /\ pc' \in gvl_release_common(t, "sched_yield")
    /\ UNCHANGED <<waiting, need_yield, wait_yield,
                   running_thread, main_thread>>

gvl_yield(t) == YieldBehindAnother(t) \/ YieldToWaiter(t) \/ YieldToNobody(t)

SwitchRecheck(t) ==
    /\ pc[t] = "switch_woken"
    /\ need_yield
    /\ pc' = [pc EXCEPT ![t] = "switch"]
    /\ UNCHANGED <<acquired, waiting, need_yield, wait_yield,
                   running_thread, main_thread>>

\* Mutant: the threads that yield behind this one are not let go.
Mut_SwitchDoneNoBroadcast(t) ==
    /\ pc[t] = "switch_woken"
    /\ ~need_yield
    /\ wait_yield' = FALSE
    /\ gvl_acquire_common(t, pc)
    /\ UNCHANGED <<need_yield, running_thread, main_thread>>

\* A waiter took the GVL: let the next yielder in and queue for the GVL.
SwitchDone(t) ==
    /\ pc[t] = "switch_woken"
    /\ ~need_yield
    /\ wait_yield' = FALSE
    /\ gvl_acquire_common(t, native_cond_broadcast(pc, "switch_wait", "switch_wait_woken"))
    /\ UNCHANGED <<need_yield, running_thread, main_thread>>

SchedYieldDone(t) ==
    /\ pc[t] = "sched_yield"
    /\ gvl_acquire_common(t, native_cond_broadcast(pc, "switch_wait", "switch_wait_woken"))
    /\ UNCHANGED <<need_yield, wait_yield, running_thread, main_thread>>

SwitchWaitRecheck(t) ==
    /\ pc[t] = "switch_wait_woken"
    /\ wait_yield
    /\ pc' = [pc EXCEPT ![t] = "switch_wait"]
    /\ UNCHANGED <<acquired, waiting, need_yield, wait_yield,
                   running_thread, main_thread>>

SwitchWaitDone(t) ==
    /\ pc[t] = "switch_wait_woken"
    /\ ~wait_yield
    /\ gvl_acquire_common(t, pc)
    /\ UNCHANGED <<need_yield, wait_yield, running_thread, main_thread>>

-----------------------------------------------------------------------------
\* The child of a fork: the forking thread becomes the main thread and the only
\* one left, and the GVL is initialised again and acquired by it, whatever the
\* other threads were doing with it.
gvl_atfork(t) ==
    /\ pc[t] = "hold"
    /\ acquired' = TRUE
    /\ waiting' = 0
    /\ need_yield' = FALSE
    /\ wait_yield' = FALSE
    /\ main_thread' = t
    /\ pc' = [u \in Thread |-> IF u = t THEN "hold" ELSE "dead"]
    /\ UNCHANGED running_thread

\* The steps by which a thread that is inside a gvl_xxx function goes on.
Proceed(t) ==
    \/ CondRecheck(t) \/ CondTake(t) \/ rb_thread_set_current(t)
    \/ SwitchRecheck(t) \/ SwitchDone(t) \/ SchedYieldDone(t)
    \/ SwitchWaitRecheck(t) \/ SwitchWaitDone(t)

\* The steps the running program chooses.
Use(t) ==
    \/ gvl_acquire(t) \/ gvl_release(t) \/ gvl_yield(t) \/ gvl_atfork(t)
    \/ thread_create_core(t) \/ ThreadEnd(t)

Next == \E t \in Thread : Use(t) \/ Proceed(t) \/ ThreadExit(t) \/ SpuriousWakeup(t)

Spec == Init /\ [][Next]_gvlVars

\* A thread inside a gvl_xxx function is running C code and goes on whenever
\* gvl.lock lets it; whether and when a thread calls one is the program's choice.
Fairness == \A t \in Thread : WF_gvlVars(Proceed(t)) /\ WF_gvlVars(ThreadExit(t))

FairSpec == Spec /\ Fairness
-----------------------------------------------------------------------------
(* Properties. *)

TypeOK ==
    /\ acquired \in BOOLEAN
    /\ waiting \in Nat
    /\ need_yield \in BOOLEAN
    /\ wait_yield \in BOOLEAN
    /\ running_thread \in Thread \cup {NoThread}
    /\ main_thread \in Thread
    /\ pc \in [Thread -> Place]

\* gvl.acquired is set exactly while one thread has the GVL, whichever path
\* (first try, waiter, the three exits of gvl_yield, fork) it took the GVL by.
MutualExclusion ==
    /\ acquired <=> \E t \in Thread : pc[t] \in Having
    /\ \A t, u \in Thread : pc[t] \in Having /\ pc[u] \in Having => t = u

\* A thread that runs Ruby code is the one vm->running_thread names, so the timer
\* interrupt goes to the thread that has the GVL, though rb_thread_set_current
\* is called after gvl.lock was released.
RunningHolds == \A t \in Thread : pc[t] = "hold" => running_thread = t

\* "make sure vm->running_thread never point me after this point"
\* (thread_start_func_2): a thread that is ending or has ended is never the one
\* the timer thread finds there, in the parent or after a fork.
NeverPointsToEnded ==
    \A t \in Thread : pc[t] \in {"exit", "dead"} => running_thread # t

\* The timer thread, which interrupts vm->running_thread without the GVL, finds the
\* thread that computes there, and never one that ends.
RunningThreadIsValid == RunningHolds /\ NeverPointsToEnded

\* gvl.waiting counts the threads in the loop of gvl_acquire_common: it decides
\* whether gvl_release signals and whether gvl_yield waits.
WaitingCount == waiting = Cardinality(Waiters)

\* No wakeup is lost: a free GVL never has all of its waiters asleep.
NoLostWakeup ==
    ~acquired /\ waiting > 0 => \E t \in Thread : pc[t] = "cond_woken"

\* At most one thread is in the need_yield loop of gvl_yield, wait_yield says
\* whether there is one, and it is asleep only while need_yield is set, that is
\* only while a waiter that will clear need_yield is still there.
YieldProtocol ==
    /\ \A t, u \in Thread : pc[t] \in Yielding /\ pc[u] \in Yielding => t = u
    /\ wait_yield <=> \E t \in Thread : pc[t] \in Yielding
    /\ need_yield => wait_yield /\ waiting > 0
    /\ ~need_yield => \A t \in Thread : pc[t] # "switch"
    /\ ~wait_yield => \A t \in Thread : pc[t] # "switch_wait"

\* The conjunction the proofs show to be inductive.
Inv ==
    /\ TypeOK
    /\ MutualExclusion
    /\ RunningHolds
    /\ NeverPointsToEnded
    /\ WaitingCount
    /\ NoLostWakeup
    /\ YieldProtocol

-----------------------------------------------------------------------------
(* What the lock looks like from outside. *)

Holders == {t \in Thread : pc[t] \in Having}
Asking == {t \in Thread : pc[t] \notin Having \cup {"dead", "out"}}
Live == {t \in Thread : pc[t] # "dead"}

Lock == INSTANCE GiantLock WITH holders <- Holders, asking <- Asking, live <- Live

\* The GVL, with its counter, its two flags and its three condition variables,
\* implements a plain lock: in every step of gvl_acquire, gvl_release and gvl_yield
\* one thread asks for it, gets it or gives it up, or nothing happens that is seen
\* from outside; a thread in gvl_yield asks for it all the time.
ImplementsLock == Lock!Spec

\* A free GVL that a thread asks for is taken by some thread, whatever the thread
\* sleeps on: the signal may go to a thread that finds the GVL taken again by a
\* third one, and a thread in gvl_yield is not among the waiters it goes to.
FreeIsTaken == Lock!Granted
=============================================================================

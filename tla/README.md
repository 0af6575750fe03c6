# The core of the Ruby interpreter: a TLA+ development

This directory holds a formal model of the parts of CRuby in which the order of
steps decides whether they are right:

* what decides which Ruby thread runs and which one sleeps: the global VM lock (GVL),
  the timer thread, `Thread`, asynchronous exceptions and their masks, blocking reads
  and `IO#close`, `Mutex`, `ConditionVariable`, `Queue` and `SizedQueue`
  (`thread.c`, `thread_pthread.c`, `thread_sync.c`, a few lines of `io.c`, `signal.c`
  and `vm_core.h`);
* the generational and incremental garbage collector, whose steps alternate with
  those of the program (`gc.c`);
* the hash tables, which are rebuilt while they are traversed (`st.c`).

TLC checks the modules on small instances. TLAPS proves every safety property that the
runs check for all values of the constants, that the GVL, alone and with its timer
thread, implements a plain lock, and that a hash table implements an ordered map.

`PROJECT.json` is the index: components, runs, mutants, the lines each definition
models, hazards, findings and theorems.

## 1. Inventory

### The parts that are concurrent

| part | source | state | operations | talks to |
|---|---|---|---|---|
| GVL | `thread_pthread.c` `gvl_*` | `acquired`, `waiting`, `need_yield`, `wait_yield`, three condition variables, `vm->running_thread` | acquire, release, yield, atfork | the timer thread (a byte in the low pipe from the first waiter) |
| timer thread | `thread_pthread.c` `thread_timer`; `thread.c` `timer_thread_function` | two pipes, `owner_process`, `writing`, `system_working`, the ubf list | tick, poll, consume; stop and start around fork and exec | reads the GVL, the ubf list and the signal buffer without a lock; sets interrupt flags |
| signals | `signal.c` `sighandler` | `signal_buff` | count a signal, wake the timer thread | timer thread, then traps in the main thread |
| threads | `thread.c` | `status`, interrupt flag, pending interrupts, `to_kill`, join list, `vm->living_threads` | new, end, join, sleep, stop, wakeup, raise, kill, terminate all, fork | everything that sleeps goes through `sleep_forever`, `sleep_timeval` or `native_sleep` |
| deadlock detection | `thread.c` `rb_check_deadlock` | `vm->sleeper`, `patrol_thread` | compare the sleepers with the living threads, raise `fatal` in the main thread | counters kept by hand in every sleep |
| Mutex | `thread_sync.c` | owner, queue of waiters, `keeping_mutexes`, `locking_mutex` | lock, try_lock, unlock, synchronize, sleep, abandon at fork | end of a thread unlocks all it keeps |
| ConditionVariable | `thread_sync.c` | queue of waiters | wait, signal, broadcast | built on `Mutex#sleep` |
| interrupts | `thread.c` | queue of pending interrupts, mask stack, `pending_interrupt_queue_checked` | raise, kill, `Thread.handle_interrupt`, `CHECK_INTS` of three kinds | every blocking operation |
| blocking reads | `thread.c`, `io.c` | `vm->waiting_fds` | `rb_thread_io_blocking_region`, `rb_notify_fd_close`, `IO#close` | interrupts |
| Queue, SizedQueue | `thread_sync.c` | elements, two queues of waiters, two counters, `max`, closed | push, pop, close, clear, `max=` | sleep functions of `thread.c` |

What makes them hard:

* **Preemption at `RUBY_VM_CHECK_INTS`.** Under the GVL, C code is atomic up to the
  next `CHECK_INTS` or `native_sleep`. Whatever a function read before one of
  these may be stale after it. Most flaws of section 6 sit at such a point or at
  its counterpart in the native code.
* **Waiters' list nodes live on their stacks.** Join lists, mutex queues and the
  queues of `Queue` link stack frames of other threads. Every way out of the
  frame (return, timeout, exception, kill, fork) has to take the node off.
* **Hand-kept counters.** `gvl.waiting`, `vm->sleeper`, `num_waiting`: one path
  that forgets one and signals are skipped, deadlocks reported that do not
  exist, or `rb_bug` called.
* **Code that runs without locks.** The timer thread and the signal handler.
* **fork.** The child has one thread and a copy of the state of all of them.

### The parts that the program interrupts

| part | source | state | operations | what interrupts it |
|---|---|---|---|---|
| garbage collector | `gc.c` | objects and references; age, mark, marking, uncollectible and write-barrier bits; page flags; mark stack; `old_objects` | start, mark roots, mark one object, finish, sweep one page; new object; three write barriers | between the steps of an incremental marking and of a lazy sweep the program allocates, stores and forgets |
| hash tables | `st.c`, `hash.c` | entries, bins, `entries_start`, `num_entries`, `rebuilds_num` | insert, update, delete, shift, clear, traverse | the callback of a traversal changes the table under the loop |

What makes them hard: a barrier that is missing for one combination of colours and
ages frees a live object at some later collection, far from the cause; an index or
a pointer kept across a callback is stale once the table was rebuilt; bins that
are marked deleted are never empty again, and a search stops only at an empty one.

### The parts that are not modelled

Parser, compiler, VM instructions and the core classes other than the tables under
`Hash` are sequential code under the GVL, with dense test suites, and their state has
no small instances that say anything about them. They are most of the source: the
modules cover the lines of `thread*.c`, `gc.c` and `st.c` that change shared state,
a small share of the whole. Fibers switch stacks inside one
thread. Encodings, extensions and the standard library are outside the
interpreter. `thread_win32.c` is another implementation of the native layer.
Thread-local variables, thread groups and `exec_recursive` are single steps on
tables of one thread. Section 7 lists what is left of the parts above.

### What correctness means

* GVL: one holder; no lost wakeup; the fields of `vm->gvl` agree with what the
  threads are doing; `vm->running_thread` is never a thread that is gone.
* Timer thread: it never sleeps for ever while somebody needs it; it never
  writes to a closed pipe; time slices end; interrupted system calls end.
* Threads: wakeups reach sleepers, joins return, kills and process termination
  complete, deadlocks are reported, and nothing else is reported as one.
* Mutex, ConditionVariable, Queue: owner and lists agree, no sleeper beside a free
  mutex, an element or a free place.
* Interrupts: what the masks let through is not overlooked; the list of blocked
  readers has no stale entry; `IO#close` gets every reader out and returns.
* Garbage collector: no object that the program can get at is freed; a full
  marking keeps no garbage; the bits that the next minor collection relies on are
  right.
* Hash tables: searches end; bins and entries agree; the table is a map in the order
  of insertion, and a traversal of it skips and repeats nothing.

## 2. The modules

```
GiantLock                                 OrderedDict
    ^ implemented by                          ^ implemented by
Gvl                                       StTable ------- StTableProofs
 |                                                          |
TimerThread ------ TimerThreadProofs      Interrupts ---- InterruptsProofs
                                                            |
Threads ---------- ThreadsProofs ---------------------- SequenceFacts
 |  \                |        \
 |   Queues --------|------- QueuesProofs
Mutexes ---------- MutexesProofs          Gc ------------ GcProofs
```

(each module EXTENDS the one it hangs from, and a proof module the one it is about, or
INSTANCEs the one it implements; every module but the proofs, `GiantLock` and
`OrderedDict` has an `MC` module with its configurations). `TimerThreadProofs` has the
theorems about `Gvl` first, `SequenceFacts` is used by all proofs but those of the GVL and of the
collector. `TimerThread` composes the GVL with
the timer thread, `Mutexes` and `Queues` compose the synchronisation classes with
the threads. Two levels are kept apart: below, the native code, in which GVL and
timer thread are explicit; above, Ruby threads that take turns. What connects
them is the fairness assumption of `Threads`, see section 4.

**Gvl.** `pc[t]` says where a thread is: having the GVL (`resume`, before
`rb_thread_set_current`; `hold`, running Ruby code; `exit`, past it), out of it, or
blocked on one of the three condition variables. All of `gvl_*` runs under the
native mutex `gvl.lock`, so the code between two waits is one action; a wait is
left by a signal, a broadcast or a spurious wakeup, and the predicate is looked
at again in an action of its own (`CondRecheck`/`CondTake`, `SwitchRecheck`/
`SwitchDone`, `SwitchWaitRecheck`/`SwitchWaitDone`). `gvl_yield` is its three
branches. `native_cond_signal` chooses any blocked thread. `ThreadEnd` and
`ThreadExit` are the two halves of the end of `thread_start_func_2`.
`gvl_atfork` puts the model into the child.

**GiantLock** is what the rest of the interpreter expects of the GVL: a set of
holders (at most one), of those who ask for it and of those who live. `Gvl` implements it with
`Holders`, `Asking` and `Live` for the three (`ImplementsLock`); a thread
anywhere in `gvl_yield` is asking.

**TimerThread.** One action per step of the loop of `thread_timer`; the three
unlocked reads (`ubf_test`, `waiting_test`, and the signal test in the tick) are steps of
their own; the return of poll and the draining of both pipes are one. The writers'
protocol (`rb_thread_wakeup_timer_thread_fd`) is three steps for each writer: test `owner_process`; raise `writing`, read the descriptor and test
again; write. The stop and restart in `before_exec`/`after_exec` is six steps of the
running thread. Blocking regions are `before` (GVL released, system call not
entered), `syscall`, `after`, `unregistered`. Abstractions: a pipe is a Boolean,
because both are drained at once and only readiness counts; raising `writing` and
the two reads after it are one step, because the stopper waits once `writing`
is raised; a thread's priority is the constant `Quanta`; the main thread is
fixed (the child of a fork is not followed); a SIGVTALRM that arrives before the
system call is lost, which is why the timer thread repeats it. `ignored` is a
history variable for one property. Where `rb_async_bug_errno` aborts the process
there is no step.

**Threads.** `running` is the thread inside a stretch of C code without a
`CHECK_INTS`; when it is `NoThread` any thread may go on, which is what the GVL
and the timer interrupt together allow. `pc` and `frame` tell where a thread is in
which blocking call. The sleep functions are five actions (`SleepBegin` in each
caller, `NativeSleep`, three kinds of `WakeUp`, `SleepEnd`) with the parameters
`deadlockable` and `spurious_check` as sets of frames. A `CHECK_INTS` raises one
pending interrupt (`RaiseInterrupt`), runs a trap (`TrapEnter`, `TrapReturn`,
main thread only) or passes. It clears the flag; that of running code looks at the queue
only when the flag is set, that of a blocking call always (`Due`), so what is queued behind an
exception may stay unread for long (section 6). An exception goes through the ensure clauses of the
call it leaves (`UnwindSleep`) before it is rescued or ends the thread. `Thread.stop` by the
only thread raises, and so may a join of a thread that has ended (whether an exception ended it
is left open). `TerminateAll` and
`TerminateLoop` are `ruby_cleanup` (which takes one interrupt of the main thread and drops it)
and `rb_thread_terminate_all`; `ThreadEnd` is the end of a thread
with everything it does: joiners, the main thread's abort, deadlock detection.
`Calls` selects what the program calls, so that a run can spend its states on
the calls that interact. What is queued behind a kill is left out, because the
kill clears the queue. `rb_thread_atfork` puts the model into the child of a fork
by the main thread.

**Mutexes.** Adds mutexes (owner, queue, `keeping_mutexes`, `locking_mutex`), the
patrol thread, and one condition variable. `rb_mutex_lock` is `LockSleep`, `LockWakeUp` and
`LockCheck`: the turn of its loop up to `native_sleep`, from there to `CHECK_INTS`,
and after it. `MutexThreadEnd`, `MutexTerminateAll` and `rb_mutex_abandon_all` put
`rb_threadptr_unlock_all_locking_mutexes` and `rb_mutex_abandon_*` where the code
calls them. Where the code calls `rb_bug` there is no step.

**Queues.** One queue, sized or not; elements are indistinguishable, only their
number is kept. `queue_do_pop` and `rb_szqueue_push` are the loop bodies, entered
first (`rb_queue_pop`, `rb_queue_push`) and after each sleep (`PopAgain`,
`PushAgain`).

**Interrupts.** Threads take the GVL explicitly (`Yield`, `Resume`). A thread is in Ruby code,
asleep, in `rb_thread_io_blocking_region` before, in or after its system call, or in
`IO#close`. `Found` is `rb_threadptr_pending_interrupt_deque` over the mask stack,
`rb_threadptr_execute_interrupts` its caller with the timings of `CHECK_INTS` and of
`vm_check_ints_blocking`; `checked` is `pending_interrupt_queue_checked`.
`handle_interrupt` is entered and left, by return or exception, with the checks it
makes; a new thread inherits the masks. A class given to `handle_interrupt` is
the set of the interrupts it covers. Files are open for reading, whose
`close` keeps the GVL; that a thread whose flag is set leaves `read()` is what `TimerThread`
shows (`UnblockCompletes`). Fixed: descriptors are not reused; traps and postponed
jobs are left to `Threads` and out.

**Gc.** A slot holds an object or is free; `refs` and `roots` are what the program
did, the other variables are the collector's. One action per call of the
collector's loops: `gc_start`, `MarkRoots`, `gc_mark_stacked_objects` (one object),
the pages of the remembered set and of the shady objects, `gc_marks_finish`,
`gc_sweep_start`, `gc_page_sweep`; and one per thing the program does: a new object,
a store with each barrier, a protected object losing its barrier, a temporary object
recycled, a reference dropped. While `during_gc` is set the program does not run. Abstractions: a
collection starts at any time and is of any kind (the thresholds of `need_major_gc` are a free
choice); whether an incremental or lazy step stops after an object or a page is
open; the mark stack is a set; finalizers and zombies are left out.

**StTable.** `tab` is the `st_table`; the operations are functions of it, named
after the C functions. A search follows `Path`, the sequence of bins that
`secondary_hash` gives, until it ends; where it would not end the operation has no
step. `Probes` computes that sequence for a table of n bins up to n + 6 steps: a hash has 64
bits and `perterb` loses 11 of them at each step, so it is 0 after six
(`HashAssumption`), and the path repeats itself n steps later. A rebuilt table gets the
entries that are not deleted, by their rank (`LiveEntries`), and enters them into the bins one by one
(`Filled`). `SizeAssumption` keeps the tables below the size at which st.c gives up
("st_table too big"). `iter` is the state of one `st_general_foreach`, with `rebuilt` for the change of
`rebuilds_num`; between two calls of the callback the program may do anything but put the
current key back after deleting it (section 6). Abstractions: keys are compared by
identity; a callback that raises is one that stops.

**OrderedDict** is what `Hash` expects: a sequence of pairs, the number of pairs a
traversal has passed, and operations on both. A traversal may lose its place only
if its current pair was deleted.

## 3. The runs

Bounds are the constants of the `.cfg` files. Runs without `CHECK_DEADLOCK FALSE`
also show that the model does not get stuck; the two with it can stop because the
process is aborted (`rb_bug`, or a write to a pipe without a reader).

| run | instance | what it shows |
|---|---|---|
| `gvl` | 4 threads; no symmetry, because it has a liveness property | `MutualExclusion`, `RunningThreadIsValid`, `WaitingCount`, `NoLostWakeup`, `YieldProtocol`; `ImplementsLock`, `FreeIsTaken`. Four threads are needed for a holder, a thread in the `need_yield` loop, one behind it on `switch_wait` and one waiter at the same time. |
| `threads` | 3 threads, 1 signal, symmetry of the threads other than main | `WakeupReachesSleeper`, `JoinersAreWoken`, `DeadlockIsReported`. Three threads give a joiner, a joined thread and a third that wakes or kills; aborts raise in the main thread. |
| `threads_live` | 2 threads, one `raise` queued, no signals, all calls and fork | `JoinCompletes`, `KillCompletes`, `TerminationCompletes` under `FairSpec`; the last two for threads that do not compute for ever with an interrupt unread (`Unread`, section 6). |
| `mutex` | 3 threads, 1 mutex, raise, kill, abort | `WaiterIsWaiting`, `DeadlockIsPatrolled`, `FatalFindsAllAsleep`: an owner, a waiter that loses the race and the thread it loses to. A false `fatal` is excluded unless the patrol thread fell asleep on a free mutex (`PatrolWaitsForOwner`, section 6). |
| `mutex_all` | 2 threads, 1 mutex, 1 condition variable, 1 signal, all blocking calls, fork | `KeepingIsOwned`, `MutexSleeperCount` in the parent and in the child, `SignalledIsAwake`, `CondvarReturnsLocked`. |
| `queue` | 4 threads, up to 2 elements or places | `WaitersAreCounted`, `QueueWakesWaiters`, `QueueDeadlockIsReal`: two waiters on a side, a thread that overtakes them and one that serves. |
| `timer` | 2 threads, 1 signal at a time, restarts, time slices of one quantum | `WakeupIsSeen`, `NoWriteWhileClosing`, `UbfListIsExact` for every interleaving of the unlocked reads with the writers and the stopper. |
| `timer_live` | 2 threads, 2 quanta, no signals or restarts | `TimeSlice`, `UnblockCompletes` under `TimerFairSpec`. |
| `interrupts` | 2 threads, 1 file, 1 class of errors, 1 interrupt sent and pending, 1 block each besides the inherited ones | `CheckedMeansNothing`, `SleeperSeesPending`, `WaitersAreInside`, `BlockedOnClosedIsTold`; `CloseCompletes` under `FairSpec`. A thread can be sent an error, a kill and a close while it masks some of them. |
| `gc` | 3 slots, each a page of its own, one reference in each object, old at age 2 (the code has 3) | `LiveObjectsSurvive`, `FullMarkingIsExact`, `NoBlackToWhite`, `OldToYoungIsRemembered`, `BitsAgree`. Three objects give a black one, a white one and the one from which the white one is taken; pages of one slot make every order of sweeping happen; age 2 still has an object that is promoted in two steps. |
| `st` | 3 keys that collide, one with another path; tables of 2, 4 and 8 entries, the smallest without bins | `BinsFindEntries`, `ImplementsDict`. The table grows, shrinks and is compacted, with and without bins, during a traversal and outside. |

Each module states its types in one invariant (`TypeOK`, `MutexTypeOK`, `QueueTypeOK`,
`TimerTypeOK`); they are proved, and part of no run. Each checked property has a mutant in `PROJECT.json`: a
changed copy of one definition (`Mut_...`, next to the original) under which TLC
finds the property violated.

The runs are bounded in the number of threads, pending raises, signals and queue
lengths, heap slots and references, keys and table sizes; nothing else is cut off, in particular not the length of behaviours.
Calls that a run leaves out are named by its `Calls`; three are left out because
the code does not have the property with them (section 6). `MINIMAL_POWER2` is 1 in `st`
and `st_shift` (the code has 2), so that three or four keys are enough to make a
table grow, shrink and be compacted.

## 4. Fairness

* `Gvl!FairSpec`: weak fairness of the steps of a thread inside a `gvl_*` function.
  That is C code that contends for a mutex. Nothing is assumed of what the program
  calls.
* `TimerThread!TimerFairSpec`: the same for the timer thread, for writers and for
  the stopper. Strong fairness of the steps under `gvl.lock` (the mutex is
  granted to who keeps asking) and of `CheckInts`: Ruby code reaches
  `RUBY_VM_CHECK_INTS` again and again, at each back jump and return. Nothing
  is assumed of system calls, signals and `Thread.new`.
* `Threads!FairSpec`: strong fairness of the steps of a thread inside the
  interpreter, since a thread that wants to go on gets the GVL again and again.
  This is what `TimeSlice` of `timer_live` and `FreeIsTaken` of `gvl` are about;
  the step from them to strong fairness for each thread also needs that condition
  variables do not pass one waiter over for ever, which pthreads do not promise and
  implementations do. An exception is rescued or ends its thread. Nothing is
  assumed of calls, of signals or of spurious wakeups.
* `Interrupts!FairSpec`: a thread that runs gives the GVL up again (weak fairness of
  `Yield`: the timer interrupt), a thread that waits for it gets it (strong fairness of
  `Resume`), and one that is interrupted goes on with what the interpreter does next.
  Nothing is assumed of what the program calls, or of reads that nobody interrupts.
* `Gc` and `StTable` have no liveness properties: the steps of a collection are driven
  by allocation, and the end of a search is an invariant.

## 5. Where code and words disagree

One run is expected to end in a violation of what a comment says.

* `st_shift`, `SearchesEnd` (`st.c:1372`). `Hash#shift` of an empty hash calls `st_shift`,
  which sets `entries_bound` to 0 and leaves the bins as they are. The comment of
  `update_range_for_deleted` (`st.c:1264`) says why that must not be done: "Otherwise, we can
  fill all bins by deleted entry value before rebuilding the table". A table
  with bins that is filled a little, shifted empty and shifted once more, again and
  again with other keys, is never rebuilt and ends with no empty bin; then the search for
  a key that is absent loops for ever. The instance has the smallest table
  with 2 entries and 4 bins and reaches that state with four keys in seven steps: two
  keys in, both shifted out, one more shift, and the two others in. In the run `st`, which has the
  same step, three keys that collide use the same bins again and again, so the property holds there.

## 6. What else the models show of the code

The hazards of `PROJECT.json` name each place. Those without a property are
known to go wrong, or are out of the models. The first six violate a property
that a module states and no run checks; the constants to try them with are given.

* `JoinWaitsForLiving` (`thread.c:2063`; 3 threads, `Calls = {"join"}`, 1 signal). The main
  thread is in `Thread#join` and runs a trap handler in its `CHECK_INTS`; the joined
  thread ends in that time. It makes the joiner RUNNABLE and interrupts it, but after
  the handler `th->status = prev_status` writes the old status back, the interrupt
  is consumed by the next turn of the loop, and the joiner sleeps for a thread
  that has ended, although `Thread#join` "Does not return until +thr+ exits"
  (`thread.c:963`). The same overwriting undoes the wakeup of a condition variable,
  and `rb_check_deadlock` may report a deadlock for such a join. `JoinersAreWoken` and
  `SignalledIsAwake` are therefore stated for behaviours without signals, and
  `threads_live` has none.
* `LockWaitsIfTaken` (`thread_sync.c:293`; 2 threads, `Calls = {"lock"}`). A woken waiter that lost
  the mutex is off the queue while it checks interrupts, where it may yield. If the
  owner unlocks then, it wakes nobody; the waiter queues itself and sleeps
  without another look, on a free mutex. If all other threads are asleep the
  patrol thread would find out, after 100 ms; otherwise nobody does until the
  next unlock.
* `FatalOnlyInDeadlock` (`thread_sync.c:275-284`; 2 threads, 1 mutex, no signals,
  `Calls = {"lock", "join"}`). The same waiter, asleep on a free mutex, may be the patrol thread. When its
  time is over it takes the mutex, and then calls `rb_check_deadlock` with its status still
  STOPPED_FOREVER and `locking_mutex` cleared: if all others sleep, `fatal` ("No live threads left.
  Deadlock?") is raised although this thread has its mutex and can go on. `FatalFindsAllAsleep` has the
  hypothesis that the patrol thread does not sleep on a free mutex.
* `KilledThreadEnds` (`thread.c:2026-2030`, `2067`; 2 threads, `MaxPending = 1`, no signals,
  `Calls = {"kill"}`, under `FairSpec`). A raise takes one interrupt from the queue and clears the flag. A kill that
  was queued behind it is not looked at until the thread blocks or is interrupted again: a thread
  that rescues the raise and computes on never ends, and the main thread, which does not send the
  kill again, waits for it for ever. `KillCompletes` and `TerminationCompletes` are about threads
  that leave that state again and again.
* `WaiterIsAlive` (`thread_sync.c:347`; 2 threads, `Calls = {"lock", "fork"}`). `fork` by a thread that owns
  a mutex for which others wait: in the child these waiters are still on its queue, and
  `unlock` ends in `rb_bug("unexpected THREAD_KILLED")`.
* `SleepsOnlyWhenAlone` (`thread_pthread.c:1672`; `Restarts = TRUE`, 2 quanta). `owner_process` is
  set after the new timer thread was started. It may already poll without a timeout when
  another thread begins to wait for the GVL; the wakeup is ignored, and the timer
  thread sleeps on although two threads run.
* a writer that passed both tests of `owner_process` may write after the timer
  thread has closed the read ends (`thread_pthread.c:1580`): the process aborts.
  the states in which a writer is at its `write` and the timer thread is done are
  reached in the run `timer`;
* a thread woken for an element of a queue and raised in before it takes it: nobody
  else is woken. With `"kill"` in the `Calls` of `MCQueues.cfg`, or `MaxPending = 1`,
  `QueueWakesWaiters` is violated;
* a thread that `Thread.start` creates while the main thread already waits for all
  to end is not told to (`Thread.new` refuses, `Thread.start` does not ask);
* after a `fatal` error `vm->sleeper` is one too low (`rb_check_deadlock`
  decrements it for a thread that will decrement it itself): `MutexSleeperCount` is exact
  only until the first one, and bounded after it;
* an exception in the last `CHECK_INTS` of `rb_mutex_lock` leaves the mutex locked
  with no ensure clause to unlock it;
* in the child of a fork the ubf list and the queues of condition variables and of
  `Queue` still hold the parent's threads;
* an `:on_blocking` interrupt that is pending when a thread begins to read is not
  delivered while it blocks: `unblock_function_set` checks as for running code
  (`thread.c:391`), though `thread.c:1770` has "Invoke interrupts while
  _BlockingOperation_". `SleeperSeesPending` is about sleeps, which check with
  `vm_check_ints_blocking`;
* a thread that swallows its kill with another exception keeps `to_kill` and cannot
  be killed any more (`thread.c:2283`);
* the error that `IO#close` queues may reach a thread that has already left that file
  and works on another;
* a callback of `st_foreach_check` that deletes its current key, inserts it again and
  returns `ST_DELETE` marks one entry and the bin of another (`st.c:1523`); if it
  continues instead after the table was rebuilt, the traversal goes on behind the new place of the
  key and skips what lies between. `MayAdd` keeps the model from it.

## 7. Plan

Done: the modules above, their runs, and the proofs of section 8. Next, in order:

1. `native_sleep` taken apart (`interrupt_lock`, `unblock.func`, release of the GVL),
   to show that the single step it is in `Threads` is sound.
2. Files open for writing: flushing in `IO#close`, the write lock of a file.
3. `Mutexes` and `Queues` under weaker hypotheses: what is left of `WaiterIsWaiting` in the
   child of a fork, and of `QueueWakesWaiters` when waiters are killed.
4. Thread shields and autoload; postponed jobs (`vm_trace.c`); finalizers.
5. `lib/monitor.rb` and `lib/timeout.rb` on top of `Mutexes`.
6. The child of a fork in `TimerThread` and `Queues`.

## 8. The proofs

Every proof has the same shape. An inductive invariant holds initially (`Init...`), is kept
by each step (one lemma per action or group of actions with the same effect), and
implies the properties; the theorem `...Invariance` says that it holds always, and
the theorems after it draw the conclusions. The invariants were first checked by TLC on
the instances of the runs. What the constants are assumed to be is the `ASSUME` of each
module: the threads and the heap's slots are finite sets, the heap's pages are disjoint,
bounds are natural numbers, the values that stand for "none" are not members, hashes have
64 bits, and the keys of a hash table fit into the largest one. Nothing else is assumed,
except where a theorem says so. The numbers of threads, mutexes, files, slots, interrupts, signals
and keys, and the hash function, are arbitrary.

**Gvl** (`Inv`, in `TimerThreadProofs`). `TypeOK`, `MutualExclusion`, `RunningHolds`, `NeverPointsToEnded`, `WaitingCount`,
`NoLostWakeup`, `YieldProtocol`. The conjuncts need each other:

* `NoLostWakeup` for `gvl_release` needs `WaitingCount`: a positive `waiting` has to
  mean that there is a thread on the condition variable to be signalled (or one
  that is woken already);
* `YieldProtocol` for `CondTake` needs that a set `need_yield` has exactly one
  thread in the loop that watches it, so that one signal on `switch_cond` is
  enough; and `need_yield => waiting > 0` needs that only a waiter that takes
  the GVL clears it, and that it is the last step before `waiting` may be 0;
* `RunningHolds` and `NeverPointsToEnded` need `MutualExclusion`: while one thread
  is at `hold`, no other is at the place that assigns `vm->running_thread`.

`LockRefinement` is `Spec => ImplementsLock`: the initial states of `Gvl` are initial states of
`GiantLock`, and under `Inv` every step is a step of `GiantLock` or leaves `Holders`,
`Asking` and `Live` alone. Without `MutualExclusion`, `CondTake` might take the lock
from a holder, and a release might leave another one.

**TimerThread** (`TimerInv`). The GVL's `Inv` is kept because every step is one of `Gvl` or leaves
its variables alone; that is also `TimerImplementsGvl`, so the composition implements
`GiantLock` too. Beyond that:

* `WaitingSeen`, `UbfSeen` and `SignalSeen` are `WakeupIsSeen` carried back to each of the
  three unlocked reads: what comes after the read of the ubf list, say, comes with
  a byte in the normal pipe, or a writer on its way to one, already when the timer
  thread is still at its later reads;
* `NoWriteWhileClosing` needs `Disowned`, that the pipes belong to nobody from the moment
  the stopper says so until the new timer thread has them: a writer that tests
  `owner_process` the second time then turns back;
* `UbfListIsExact` needs `Unregistered`: between taking itself off the list and clearing its
  unblock function a thread has the GVL, so no other puts it back; and
  `WritersHold` that who interrupts has the GVL until its wakeup is written.

**Threads** (`TInv`). `Places` ties the place of a thread to its call, status and membership in
`living_threads`, also while a trap handler runs inside the call. `JoinLists`: a joiner is on the
list of its target unless that has ended, and nobody else is. `JoinersAreWoken` by itself
is not inductive: a joiner between its status test and `native_sleep` must not have been
passed over (`JoinersSeeEnd`). `DeadlocksReported` needs `SleeperCount`, which is exact only
until `fatal` was raised (section 6). `JoinersAreWoken` is about states with
`signals = 0`, see section 6. The lemmas take what
`Mutexes` passes to `Threads` (mutexes served, patrol thread) as arbitrary values.

**Mutexes** (`MInv`). `TInv`; `KeepingIsOwned`; what the call a thread is in says of the mutex it
wants (`WantFits`: without it the ensure clause of `Mutex#sleep` could lock a mutex the thread
has); that who sleeps in `rb_mutex_lock` is on the queue of its mutex until interrupted,
and nobody else is (`LockSleepFits`, `WaitersFit`), from which `WaiterIsWaiting` follows;
`PatrolSleeps` for `DeadlockIsPatrolled`; `CondvarFits` for `SignalledIsAwake`. `FatalFindsAllAsleep` and
`CondvarReturnsLocked` are action properties: one step under `MInv`. The first has the hypothesis
`PatrolWaitsForOwner`, without which it is false (section 6): with it, the patrol thread that calls
`rb_check_deadlock` has found its mutex taken by another. The second is about returns without an
exception; an exception may leave `ConditionVariable#wait` while it waits for the mutex. `WaitersAreWaiting` and
`DeadlocksArePatrolled` assume `"fork" \notin Calls`: in the child of a fork the queues and
`patrol_thread` keep threads that do not exist there (section 6), and the run that
checks them has no fork. The others hold in the child as well.

**Queues** (`QInv`, `WInv`). `QInv` is `TInv`, the two counters as cardinalities, who is on the two queues,
and `QueuedFits`: who sleeps in a pop or a push, or has not been kept from it since its last
status test, is on one. `WaitersCounted` and `QueueDeadlocksReported` follow for all programs,
with raises, kills and signals. `WaitersWoken` and `QueueDeadlocksReal` have the hypothesis
`Peaceful` (no raise, kill, signal, `abort_on_exception` and no `Thread.start` during termination): a
thread that was woken for an element and is interrupted takes the wakeup with it
(`thread_sync.c:717`, section 6), so they are false without it. What kills the others at the end of
the main thread, and `fatal` itself, cannot be excluded by the program; `WInv` follows them:

* `EnoughWoken`: `num_waiting - Len(waitq)` threads were taken off the queue and have not come back,
  as many as there are elements, or nobody is left on it; the same for `pushq` and space. It is
  about numbers, so each operation is a small calculation; `OffCount` turns it into
  a statement on who is awake;
* `Ended`: once the main thread terminates, all others are `Doomed`: a kill is pending and their
  flag set, or it is being delivered, so none of them sleeps;
* `FatalWindow`: from `rb_check_deadlock` to the main thread's exit from its call. All others wait for
  what nobody can do any more, and the main thread itself was not one of those woken
  for an element, so leaving its call takes no wakeup away.

**Interrupts** (`IInv`). To the properties it adds that an entry of `waiting_fds` is marked as told
only when its file is closed, and that a thread waits for the users of a file only after
closing it. Without the first, `IO#close` could skip a reader; without the second
its loop could mark a reader of an open file.

**Gc** (`GcInv`). `MarkedIsClosed`: what a marked object refers to is marked or will be visited
(incremental marking). `OldRefersToOld`: what an old object refers to is old, or will be visited
because of it (generations). They need that bitmaps and ages agree (`BitmapsAgree`,
`RememberedSet`), which pass the collector is in (`Phases`), and that free slots are clean.
`LiveObjectsSurvive` is about reachability over any number of references: when sweeping starts
the marked objects contain the roots and are closed under references, and the objects the
program can reach are the least such set. `FullMarkingIsExact` also needs
`MarkedIsReachable`.

**StTable** (`StInv`). What the bins and the entries have to do with each other between any two
operations:

* the keys of the entries are distinct (`Distinct`), and `num_entries` counts them;
* `Index`: each bin that is neither empty nor deleted has a live entry, no two have the same
  one, and the path of each entry's key leads to its bin over no empty one (`LeadsTo`).
  Bins only ever turn from empty to taken or deleted until the table is rebuilt, so this
  survives deletions, and the reuse of a deleted bin on the way of another key;
* `FewTaken`: no more bins are taken or deleted than entries were added since the last
  rebuilding, which is what "Do not update entries_bound here" (`st.c:1264`) is for. There are
  two bins for each entry, so an empty one is left;
* `CurrentAt`: the entry of a traversal's current key, if there is one, is where the traversal thinks,
  or the table was rebuilt.

`PathCovers` is the claim of the comment on `secondary_hash` ("it guarantees traversing all table
bins in extreme case"), for tables of any size: two places K apart on the path
differ by an odd multiple of K for K = 1, 2, 4, ..., so K places in a row meet every residue
modulo K if half as many meet every residue modulo K / 2. With `FewTaken` it shows that every search ends.
`SearchesThatEnd` (a search that ends finds what a linear search would) holds for every
program; `BinsCorrect` (and every search ends) assumes that no empty table is shifted, because
`st_shift` then breaks `FewTaken` and searches need not end (section 5; the run `st` has the step and keys with
which the property survives it).

`TableImplementsDict` is `Spec => ImplementsDict`, for callbacks that do not put their deleted current key back (`MayAdd`, section 6): the n-th pair of the ordered map is the live entry of
rank n, and the place of a traversal is the rank of its current entry (`PassedOK`). Each operation's
effect on the entries is shown to be `Append`, an update or `RemoveAt` of that sequence, and a rebuilding
to leave it as it is. It is about the steps that the code completes: a search that never
ends is no step of the model.

Induction over data is needed for the powers of two, the paths and the filling of a rebuilt
table. The induction theorems of the library cannot be used, as they have an operator for the
property; `FiniteInduction` has a set instead, from the existence of a smallest
counterexample, and the recursive functions are shown to exist before they are unfolded.

**SequenceFacts** has the lemmas about sequences that these proofs share: the elements, the
injectivity and the length of `Append`, `SubSeq`, `Tail`, `RemoveAt`, `RemoveFirst`, and that a sequence
without repetitions is as long as its set is large.

Only model-checked are the liveness properties (`FreeIsTaken`, `JoinCompletes`, `KillCompletes`,
`TerminationCompletes`, `TimeSlice`, `UnblockCompletes`, `CloseCompletes`): they need fairness and `ENABLED`,
which the prover does not support. `SearchesEnd` is false with `st_shift` of an empty table (section 5);
without it, it is part of `BinsFindEntries`.

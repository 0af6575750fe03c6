------------------------------- MODULE Queues -------------------------------
(***************************************************************************)
(* Queue and SizedQueue (thread_sync.c) on top of the threads of module    *)
(* Threads.  One queue is shared by all threads; what is in it does not    *)
(* matter, only how much.                                                  *)
(***************************************************************************)
EXTENDS Threads, SequencesExt

CONSTANT MaxLength   \* bound: elements of a Queue, values of SizedQueue#max

ASSUME QueuesAssumption == MaxLength \in Nat \ {0}

VARIABLES
    sized,             \* whether it is a SizedQueue
    length,            \* RARRAY_LEN(q->que)
    closed,            \* QUEUE_CLOSED
    max,               \* sq->max
    waitq,             \* q->waitq
    pushq,             \* sq->pushq
    num_waiting,       \* q->num_waiting
    num_waiting_push   \* sq->num_waiting_push

queueVars == <<sized, length, closed, max, waitq, pushq, num_waiting, num_waiting_push>>
vars == <<core, queueVars>>

QueueInit ==
    /\ Init
    /\ sized \in BOOLEAN
    /\ length = 0
    /\ closed = FALSE
    /\ max \in IF sized THEN 1..MaxLength ELSE {1}
    /\ waitq = <<>>
    /\ pushq = <<>>
    /\ num_waiting = 0
    /\ num_waiting_push = 0

\* The call of t is done.
Finish(t) ==
    /\ frame' = [frame EXCEPT ![t] = "none"]
    /\ pc' = [pc EXCEPT ![t] = "run"]
    /\ running' = NoThread
    /\ UNCHANGED exc

\* What the calls of this module leave alone.
restOfCore == <<trap, saved, signals, pending, to_kill, sleeper, living, join_list,
                target, fatal, sized>>
-----------------------------------------------------------------------------
(* Popping. *)

\* queue_sleep_done and szqueue_sleep_done, the ensure clauses of the sleep.
Without(q, t) == RemoveFirst(q, t)

\* queue_do_pop from the test of its loop on, and the rest of szqueue_do_pop; wq and
\* n are the values of waitq and num_waiting there.
queue_do_pop(t, wq, n) ==
    /\ IF length = 0 /\ ~closed
       THEN /\ waitq' = Append(wq, t)
            /\ num_waiting' = n + 1
            /\ SleepBegin(t, "pop")
            /\ UNCHANGED <<length, pushq, flag, exc>>
       ELSE /\ length' = IF length = 0 THEN 0 ELSE length - 1
            /\ waitq' = wq
            /\ num_waiting' = n
            /\ IF sized /\ length' < max
               THEN Woken(wakeup_one(pushq)) /\ pushq' = AfterWakeupOne(pushq)
               ELSE UNCHANGED <<flag, status, pushq>>
            /\ Finish(t)
    /\ UNCHANGED <<closed, max, num_waiting_push, restOfCore>>

rb_queue_pop(t) ==
    /\ Idle(t)
    /\ queue_do_pop(t, waitq, num_waiting)

\* pop(true) on an empty queue.
PopNonBlock(t) ==
    /\ Idle(t)
    /\ length = 0
    /\ RaiseError(t)
    /\ UNCHANGED <<frame, status, flag, restOfCore, queueVars>>

PopAgain(t) ==
    /\ pc[t] = "back"
    /\ frame[t] = "pop"
    /\ queue_do_pop(t, Without(waitq, t), num_waiting - 1)
-----------------------------------------------------------------------------
(* Pushing. *)

\* Mutant: nobody is told of the new element.
Mut_PushWithoutWakeup(t, pq, n) ==
    /\ IF sized /\ length >= max /\ ~closed
       THEN /\ pushq' = Append(pq, t)
            /\ num_waiting_push' = n + 1
            /\ SleepBegin(t, "push")
            /\ UNCHANGED <<length, exc>>
       ELSE /\ ~closed
            /\ pushq' = pq
            /\ num_waiting_push' = n
            /\ length' = length + 1
            /\ Finish(t)
            /\ UNCHANGED status
    /\ UNCHANGED <<closed, max, waitq, num_waiting, flag, restOfCore>>

\* rb_szqueue_push from the test of its loop on, or rb_queue_push; pq and n are the
\* values of pushq and num_waiting_push there.
rb_szqueue_push(t, pq, n) ==
    /\ IF sized /\ length >= max /\ ~closed
       THEN /\ pushq' = Append(pq, t)
            /\ num_waiting_push' = n + 1
            /\ SleepBegin(t, "push")
            /\ UNCHANGED <<length, waitq, flag, exc>>
       ELSE /\ pushq' = pq
            /\ num_waiting_push' = n
            /\ IF closed
               THEN /\ RaiseError(t)
                    /\ frame' = [frame EXCEPT ![t] = "none"]
                    /\ UNCHANGED <<length, waitq, flag, status>>
               ELSE /\ length' = length + 1
                    /\ Woken(wakeup_one(waitq))
                    /\ waitq' = AfterWakeupOne(waitq)
                    /\ Finish(t)
    /\ UNCHANGED <<closed, max, num_waiting, restOfCore>>

rb_queue_push(t) ==
    /\ Idle(t)
    /\ ~sized => length < MaxLength
    /\ rb_szqueue_push(t, pushq, num_waiting_push)

\* push(obj, true) on a full queue.
PushNonBlock(t) ==
    /\ Idle(t)
    /\ sized /\ length >= max
    /\ RaiseError(t)
    /\ UNCHANGED <<frame, status, flag, restOfCore, queueVars>>

PushAgain(t) ==
    /\ pc[t] = "back"
    /\ frame[t] = "push"
    /\ rb_szqueue_push(t, Without(pushq, t), num_waiting_push - 1)

\* Mutant: no ensure clause.
Mut_UnwindWithoutEnsure(t) ==
    /\ pc[t] = "unwind"
    /\ frame[t] \in {"pop", "push"}
    /\ frame' = [frame EXCEPT ![t] = "none"]
    /\ UNCHANGED <<running, pc, status, flag, exc, restOfCore, queueVars>>

\* An exception leaves the sleep of a pop or of a push.
UnwindQueue(t) ==
    /\ pc[t] = "unwind"
    /\ frame[t] \in {"pop", "push"}
    /\ IF frame[t] = "pop"
       THEN /\ waitq' = Without(waitq, t)
            /\ num_waiting' = num_waiting - 1
            /\ UNCHANGED <<pushq, num_waiting_push>>
       ELSE /\ pushq' = Without(pushq, t)
            /\ num_waiting_push' = num_waiting_push - 1
            /\ UNCHANGED <<waitq, num_waiting>>
    /\ frame' = [frame EXCEPT ![t] = "none"]
    /\ UNCHANGED <<running, pc, status, flag, exc, restOfCore, length, closed, max>>
-----------------------------------------------------------------------------
(* Closing, clearing, resizing. *)

rb_queue_close(t) ==
    /\ Idle(t)
    /\ ~closed
    /\ closed' = TRUE
    /\ Woken(wakeup_all(waitq) \cup wakeup_all(pushq))
    /\ waitq' = <<>>
    /\ pushq' = <<>>
    /\ UNCHANGED <<running, pc, frame, exc, restOfCore, length, max, num_waiting, num_waiting_push>>

rb_queue_clear(t) ==
    /\ Idle(t)
    /\ length' = 0
    /\ IF sized THEN Woken(wakeup_all(pushq)) /\ pushq' = <<>>
                ELSE UNCHANGED <<flag, status, pushq>>
    /\ UNCHANGED <<running, pc, frame, exc, restOfCore, closed, max, waitq, num_waiting,
                   num_waiting_push>>

\* Mutant: nobody is told of the new space.
Mut_MaxSetWithoutWakeup(t, vmax) ==
    /\ Idle(t)
    /\ sized
    /\ vmax # max
    /\ max' = vmax
    /\ UNCHANGED <<running, pc, frame, exc, flag, status, restOfCore, length, closed, waitq,
                   pushq, num_waiting, num_waiting_push>>

\* A pusher is woken for every slot that is new.  (Without forks no ended thread is
\* on a queue: WaitersAreCounted.  So wakeup_one always wakes the first.)
rb_szqueue_max_set(t, vmax) ==
    /\ Idle(t)
    /\ sized
    /\ vmax # max
    /\ max' = vmax
    /\ LET diff == Max({0, Min({vmax - max, Len(pushq)})})
       IN  /\ Woken(ToSet(SubSeq(pushq, 1, diff)))
           /\ pushq' = SubSeq(pushq, diff + 1, Len(pushq))
    /\ UNCHANGED <<running, pc, frame, exc, restOfCore, length, closed, waitq, num_waiting,
                   num_waiting_push>>
-----------------------------------------------------------------------------
\* The steps of module Threads do not touch the queue; fork is left out here.
ThreadStep(t) == Proceed(t) \/ Program(t) \/ End(t) \/ SpuriousWakeUp(t)

QueueStep(t) ==
    \/ "pop" \in Calls /\ (rb_queue_pop(t) \/ PopNonBlock(t))
    \/ "push" \in Calls /\ (rb_queue_push(t) \/ PushNonBlock(t))
    \/ PopAgain(t) \/ PushAgain(t) \/ UnwindQueue(t)
    \/ "close" \in Calls /\ rb_queue_close(t)
    \/ "clear" \in Calls /\ rb_queue_clear(t)
    \/ "max" \in Calls /\ \E vmax \in 1..MaxLength : rb_szqueue_max_set(t, vmax)

QueueNext ==
    \/ \E t \in Thread : (ThreadStep(t) /\ UNCHANGED queueVars) \/ QueueStep(t)
    \/ /\ Signalled \/ TerminateAll({}) \/ TerminateLoop
       /\ UNCHANGED queueVars
    \/ pc[Main] = "terminated" /\ UNCHANGED vars

QueueSpec == QueueInit /\ [][QueueNext]_vars
-----------------------------------------------------------------------------
(* Properties. *)

QueueTypeOK ==
    /\ TypeOK
    /\ sized \in BOOLEAN
    /\ length \in 0..MaxLength
    /\ closed \in BOOLEAN
    /\ max \in 1..MaxLength
    /\ waitq \in Seq(Thread) /\ pushq \in Seq(Thread)
    /\ num_waiting \in Nat /\ num_waiting_push \in Nat

Poppers == {t \in living : frame[t] = "pop"}
Pushers == {t \in living : frame[t] = "push"}
Awake(ts) == {t \in ts : ~Slumbering(t)}

\* Queue#num_waiting "Returns the number of threads waiting on the queue", and the list
\* nodes on the two queues are on the stacks of threads that wait there, however those
\* threads are interrupted.
WaitersAreCounted ==
    /\ num_waiting = Cardinality(Poppers) /\ num_waiting_push = Cardinality(Pushers)
    /\ IsInjective(waitq) /\ ToSet(waitq) \subseteq Poppers
    /\ IsInjective(pushq) /\ ToSet(pushq) \subseteq Pushers

\* "the calling thread is suspended until data is pushed onto the queue", "If there is
\* no space left in the queue, waits until space becomes available": while there are
\* elements, as many of the threads in Queue#pop are awake; while there is space, as
\* many of those in SizedQueue#push; and nobody sleeps on a closed queue.
QueueWakesWaiters ==
    /\ Cardinality(Awake(Poppers)) >= length \/ Awake(Poppers) = Poppers
    /\ sized => Cardinality(Awake(Pushers)) >= max - length \/ Awake(Pushers) = Pushers
    /\ closed => Awake(Poppers \cup Pushers) = Poppers \cup Pushers

\* fatal is raised only if no element and no space is left for those who wait.
QueueDeadlockIsReal ==
    [][ (~fatal /\ fatal') =>
          \A t \in living' : /\ pc'[t] = "asleep"
                             /\ frame'[t] = "pop" => length' = 0 /\ ~closed'
                             /\ frame'[t] = "push" => length' >= max' /\ ~closed'
      ]_vars
=============================================================================

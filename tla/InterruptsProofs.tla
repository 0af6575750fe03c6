-------------------------- MODULE InterruptsProofs --------------------------
(***************************************************************************)
(* The safety properties of Interrupts, for any threads, files, exceptions *)
(* and classes, any number of pending interrupts and any depth of          *)
(* handle_interrupt blocks.                                                *)
(*                                                                         *)
(* The inductive invariant IInv adds to the properties what closing a file *)
(* relies on: an entry of vm->waiting_fds is marked as told only when its  *)
(* file is closed, and a thread waits for the users of a file only after   *)
(* it has closed it.  Without the first, io_close_fptr could skip a        *)
(* reader; without the second, its loop could mark a reader of an open     *)
(* file.                                                                   *)
(***************************************************************************)
EXTENDS Interrupts, SequenceFacts, TLAPS

\* Nothing is found in an empty queue.
LEMMA NothingInEmpty ==
    ASSUME NEW ms, NEW timing
    PROVE  Found(<<>>, ms, timing) = {}
  BY DEF Found

\* A blocking operation lets through whatever any other check does.
LEMMA BlockingFindsMore ==
    ASSUME NEW q, NEW ms, NEW timing \in {"immediate", "on_blocking"},
           Found(q, ms, timing) = {}
    PROVE  Found(q, ms, "immediate") = {}
  BY DEF Found, Allowed

\* The interrupt that is taken is one of those that were found.
LEMMA FirstIsFound ==
    ASSUME NEW q \in Seq(Pending), NEW ms, NEW timing, Found(q, ms, timing) # {}
    PROVE  LET first == CHOOSE i \in Found(q, ms, timing) : \A j \in Found(q, ms, timing) : i <= j
           IN  first \in 1..Len(q) /\ q[first] \in Pending /\ RemoveAt(q, first) \in Seq(Pending)
  <1> DEFINE found == Found(q, ms, timing)
             first == CHOOSE i \in found : \A j \in found : i <= j
  <1>1. found \subseteq 1..Len(q) /\ Len(q) \in Nat
    BY LenProperties DEF Found
  <1>2. \E i \in found : \A j \in found : i <= j
    <2> HIDE DEF found
    <2>1. found \subseteq Nat  BY <1>1
    <2> QED  BY <2>1, LeastExists DEF found
  <1>3. first \in found  BY <1>2
  <1>4. first \in 1..Len(q)  BY <1>1, <1>3
  <1> HIDE DEF first, found
  <1> QED  BY <1>4, ElementOfSeq, RemoveAtElements DEF first, found
-----------------------------------------------------------------------------
\* What rb_threadptr_execute_interrupts does to the queue and the flags.
ExecuteEffect(t, q, ms, raises) ==
    /\ interrupted' = interrupted \ {t}
    /\ checked' \subseteq Thread /\ to_kill' \subseteq Thread
    /\ queue' \in [Thread -> Seq(Pending)]
    /\ unwinding' \in [Thread -> Pending \cup {NoError}]
    /\ \A u \in Thread \ {t} : queue'[u] = queue[u] /\ (u \in checked' => u \in checked)
    /\ t \in checked' => Found(queue'[t], ms, "immediate") = {}
    /\ raises \/ queue'[t] = q

\* rb_threadptr_execute_interrupts right after the queue or the masks were changed.
LEMMA FreshExecute ==
    ASSUME TypeOK, NEW t \in Thread, NEW q \in Seq(Pending), NEW ms,
           NEW timing \in {"immediate", "on_blocking"},
           rb_threadptr_execute_interrupts(t, q, ms, timing, TRUE)
    PROVE  ExecuteEffect(t, q, ms, Raises(t, q, ms, timing, TRUE))
  <1> DEFINE found == Found(q, ms, timing)
             first == CHOOSE i \in found : \A j \in found : i <= j
  <1>1. CASE Raises(t, q, ms, timing, TRUE)
    <2>1. first \in 1..Len(q) /\ q[first] \in Pending /\ RemoveAt(q, first) \in Seq(Pending)
      BY <1>1, FirstIsFound DEF Raises
    <2>2. /\ interrupted' = interrupted \ {t}
          /\ unwinding' = [unwinding EXCEPT ![t] = q[first]]
          /\ queue' = [queue EXCEPT ![t] = IF q[first] = Kill THEN <<>> ELSE RemoveAt(q, first)]
          /\ to_kill' = IF q[first] = Kill THEN to_kill \cup {t} ELSE to_kill
          /\ checked' = checked \ {t}
      BY <1>1 DEF rb_threadptr_execute_interrupts
    <2> HIDE DEF first
    <2>3. <<>> \in Seq(Pending)  BY EmptySeq
    <2> QED  BY <1>1, <2>1, <2>2, <2>3 DEF ExecuteEffect, TypeOK
  <1>2. CASE ~Raises(t, q, ms, timing, TRUE)
    <2>1. /\ interrupted' = interrupted \ {t}
          /\ checked' = IF q # <<>> THEN checked \cup {t} ELSE checked
          /\ queue' = [queue EXCEPT ![t] = q]
          /\ UNCHANGED <<unwinding, to_kill>>
      BY <1>2 DEF rb_threadptr_execute_interrupts, Active
    <2>2. Found(q, ms, "immediate") = {}
      BY <1>2, NothingInEmpty, BlockingFindsMore DEF Raises, Active
    <2> QED  BY <2>1, <2>2 DEF ExecuteEffect, TypeOK
  <1> QED  BY <1>1, <1>2

\* RUBY_VM_CHECK_INTS, which skips a queue that was checked before.
LEMMA CheckExecute ==
    ASSUME TypeOK, CheckedMeansNothing, NEW t \in Thread, CheckInts(t)
    PROVE  ExecuteEffect(t, queue[t], masks[t], CheckRaises(t))
  <1> DEFINE q == queue[t]
             ms == masks[t]
             found == Found(q, ms, "immediate")
             first == CHOOSE i \in found : \A j \in found : i <= j
  <1>0. q \in Seq(Pending)  BY DEF TypeOK
  <1>1. CASE CheckRaises(t)
    <2>1. first \in 1..Len(q) /\ q[first] \in Pending /\ RemoveAt(q, first) \in Seq(Pending)
      BY <1>0, <1>1, FirstIsFound DEF CheckRaises, Raises
    <2>2. /\ interrupted' = interrupted \ {t}
          /\ unwinding' = [unwinding EXCEPT ![t] = q[first]]
          /\ queue' = [queue EXCEPT ![t] = IF q[first] = Kill THEN <<>> ELSE RemoveAt(q, first)]
          /\ to_kill' = IF q[first] = Kill THEN to_kill \cup {t} ELSE to_kill
          /\ checked' = checked
      BY <1>1 DEF CheckInts, CheckRaises, rb_threadptr_execute_interrupts
    <2>3. t \notin checked  BY <1>1 DEF CheckRaises, Raises, Active
    <2>4. <<>> \in Seq(Pending)  BY EmptySeq
    <2> HIDE DEF first
    <2> QED  BY <1>1, <2>1, <2>2, <2>3, <2>4 DEF ExecuteEffect, TypeOK
  <1>2. CASE ~CheckRaises(t)
    <2>1. /\ interrupted' = interrupted \ {t}
          /\ checked' = IF Active(t, q, FALSE) THEN checked \cup {t} ELSE checked
          /\ queue' = [queue EXCEPT ![t] = q]
          /\ UNCHANGED <<unwinding, to_kill>>
      BY <1>2 DEF CheckInts, CheckRaises, rb_threadptr_execute_interrupts
    <2>2. t \in checked' => Found(q, ms, "immediate") = {}
      BY <1>2, <2>1 DEF CheckRaises, Raises, CheckedMeansNothing
    <2> QED  BY <2>1, <2>2 DEF ExecuteEffect, TypeOK
  <1> QED  BY <1>1, <1>2
-----------------------------------------------------------------------------
\* What is on pending_interrupt_mask_stack.
Mask == [covers : Classes, timing : Timing]

\* Where a thread is inside rb_thread_io_blocking_region.
Inside == {"io_enter", "io", "io_failed"}

\* A thread is told that a file is closed only when it is.
ToldMeansClosed == \A w \in waiting_fds : w.told => w.fd \notin open

\* A thread waits for the users of a file only after it has closed that.
ClosersAreDone == \A t \in Thread : place[t] = "close" => at[t] \notin open

Files == WaitersAreInside /\ ToldMeansClosed /\ ClosersAreDone /\ BlockedOnClosedIsTold

IInv == TypeOK /\ CheckedMeansNothing /\ SleeperSeesPending /\ Files

\* A step of a thread that stays out of rb_thread_io_blocking_region, and closes nothing.
LEMMA FilesKept ==
    ASSUME TypeOK, Files, NEW s \in Thread,
           place[s] \notin Inside, place'[s] \notin Inside,
           place'[s] = "close" => place[s] = "close",
           \A u \in Thread \ {s} : place'[u] = place[u],
           interrupted \ {s} \subseteq interrupted',
           UNCHANGED <<at, waiting_fds, open>>
    PROVE  Files'
  <1>1. WaitersAreInside'
    BY DEF Files, WaitersAreInside, Inside
  <1>2. ToldMeansClosed' /\ ClosersAreDone'
    BY DEF Files, ToldMeansClosed, ClosersAreDone
  <1>3. BlockedOnClosedIsTold'
    BY DEF Files, BlockedOnClosedIsTold, Inside
  <1> QED  BY <1>1, <1>2, <1>3 DEF Files

\* Only the thread s may have got other masks, or lost its interrupt flag, and it does
\* not sleep.
LEMMA SleepersKept ==
    ASSUME TypeOK, SleeperSeesPending, NEW s \in Thread,
           place'[s] # "sleep",
           \A u \in Thread \ {s} :
              /\ place'[u] = place[u] /\ masks'[u] = masks[u]
              /\ u \notin interrupted' => u \notin interrupted /\ queue'[u] = queue[u]
    PROVE  SleeperSeesPending'
  BY DEF SleeperSeesPending

\* A thread that counts as checked was so before, with the same queue and masks, or has
\* nothing in its queue that its masks allow.
LEMMA CheckedKept ==
    ASSUME TypeOK, CheckedMeansNothing, checked' \subseteq Thread,
           \A u \in checked' :
              \/ u \in checked /\ queue'[u] = queue[u] /\ masks'[u] = masks[u]
              \/ Found(queue'[u], masks'[u], "immediate") = {}
    PROVE  CheckedMeansNothing'
  BY DEF CheckedMeansNothing

\* A running thread looks at its interrupts.
LEMMA CheckIntsInv ==
    ASSUME IInv, NEW t \in Thread, RUBY_VM_CHECK_INTS(t)
    PROVE  IInv'
  <1>1. ExecuteEffect(t, queue[t], masks[t], CheckRaises(t))
    BY CheckExecute DEF IInv, RUBY_VM_CHECK_INTS
  <1>2. place[t] = "run" /\ UNCHANGED <<gvl, place, at, masks, inherited, waiting_fds, open>>
    BY DEF RUBY_VM_CHECK_INTS, Runs
  <1>3. TypeOK'  BY <1>1, <1>2 DEF IInv, TypeOK, ExecuteEffect
  <1>4. CheckedMeansNothing'  BY <1>1, <1>2, CheckedKept DEF IInv, ExecuteEffect
  <1>5. SleeperSeesPending'  BY <1>1, <1>2, SleepersKept DEF IInv, ExecuteEffect
  <1>6. Files'  BY <1>1, <1>2, FilesKept DEF IInv, ExecuteEffect, Inside
  <1> QED  BY <1>3, <1>4, <1>5, <1>6 DEF IInv

\* A mask is pushed: the queue is to be looked at again unless it is empty.
LEMMA EnterInv ==
    ASSUME IInv, NEW t \in Thread, NEW c \in Classes, NEW timing \in Timing,
           EnterHandleInterrupt(t, c, timing)
    PROVE  IInv'
  <1> USE DEF IInv
  <1> DEFINE m == [covers |-> c, timing |-> timing]
  <1>1. /\ place[t] = "run"
        /\ masks' = [masks EXCEPT ![t] = Append(@, m)]
        /\ IF queue[t] = <<>> THEN UNCHANGED <<checked, interrupted>>
           ELSE checked' = checked \ {t} /\ interrupted' = interrupted \cup {t}
        /\ UNCHANGED <<gvl, place, at, queue, inherited, unwinding, to_kill, waiting_fds, open>>
    BY DEF EnterHandleInterrupt, Free, Runs
  <1>2. /\ Append(masks[t], m) \in Seq([covers : Classes, timing : Timing])
        /\ Len(Append(masks[t], m)) = Len(masks[t]) + 1 /\ Len(masks[t]) \in Nat
    <2>1. m \in Mask /\ masks[t] \in Seq(Mask)  BY DEF TypeOK, Mask
    <2> HIDE DEF m
    <2>2. Append(masks[t], m) \in Seq(Mask) /\ Len(Append(masks[t], m)) = Len(masks[t]) + 1
      BY <2>1, AppendProperties
    <2> QED  BY <2>1, <2>2, LenProperties DEF Mask
  <1>3. TypeOK'
    <2>1. masks' \in [Thread -> Seq([covers : Classes, timing : Timing])]
      BY <1>1, <1>2 DEF TypeOK
    <2>2. \A u \in Thread : inherited'[u] <= Len(masks'[u])
      BY <1>1, <1>2 DEF TypeOK
    <2> QED  BY <1>1, <2>1, <2>2 DEF TypeOK
  <1>4. CheckedMeansNothing'
    <2>1. ASSUME NEW u \in checked'
          PROVE  \/ u \in checked /\ queue'[u] = queue[u] /\ masks'[u] = masks[u]
                 \/ Found(queue'[u], masks'[u], "immediate") = {}
      BY <1>1, NothingInEmpty DEF TypeOK
    <2> QED  BY <1>3, <2>1, CheckedKept DEF TypeOK
  <1>5. SleeperSeesPending'  BY <1>1, SleepersKept DEF TypeOK
  <1>6. Files'  BY <1>1, FilesKept DEF Inside
  <1> QED  BY <1>3, <1>4, <1>5, <1>6

\* A mask is popped: what it held back is looked at in the same step.
LEMMA LeaveInv ==
    ASSUME IInv, NEW t \in Thread, LeaveHandleInterrupt(t)
    PROVE  IInv'
  <1> USE DEF IInv
  <1>1. /\ place[t] = "run"
        /\ Len(masks[t]) > inherited[t]
        /\ masks' = [masks EXCEPT ![t] = Front(masks[t])]
        /\ UNCHANGED <<gvl, place, at, inherited, waiting_fds, open>>
    BY DEF LeaveHandleInterrupt, Runs
  <1>2. ExecuteEffect(t, queue[t], Front(masks[t]),
                      Raises(t, queue[t], Front(masks[t]), "immediate", TRUE))
    BY FreshExecute DEF LeaveHandleInterrupt, TypeOK
  <1>3. /\ Front(masks[t]) \in Seq([covers : Classes, timing : Timing])
        /\ Len(Front(masks[t])) = Len(masks[t]) - 1 /\ Len(masks[t]) \in Nat
    <2>1. Len(masks[t]) > 0  BY <1>1 DEF TypeOK
    <2>2. masks[t] \in Seq(Mask)  BY DEF TypeOK, Mask
    <2>3. Front(masks[t]) \in Seq(Mask) /\ Len(Front(masks[t])) = Len(masks[t]) - 1
      BY <2>1, <2>2, FrontType
    <2> QED  BY <2>2, <2>3, LenProperties DEF Mask
  <1>4. TypeOK'
    <2>1. masks' \in [Thread -> Seq([covers : Classes, timing : Timing])]
      BY <1>1, <1>3 DEF TypeOK
    <2>2. \A u \in Thread : inherited'[u] <= Len(masks'[u])
      BY <1>1, <1>3 DEF TypeOK
    <2> QED  BY <1>1, <1>2, <2>1, <2>2 DEF TypeOK, ExecuteEffect
  <1>5. CheckedMeansNothing'
    <2>1. masks'[t] = Front(masks[t]) /\ \A u \in Thread \ {t} : masks'[u] = masks[u]
      BY <1>1 DEF TypeOK
    <2> QED  BY <1>2, <2>1, CheckedKept DEF ExecuteEffect
  <1>6. SleeperSeesPending'
    BY <1>1, <1>2, SleepersKept DEF ExecuteEffect, TypeOK
  <1>7. Files'  BY <1>1, <1>2, FilesKept DEF Inside, ExecuteEffect
  <1> QED  BY <1>4, <1>5, <1>6, <1>7

\* Rescuing an exception touches nothing that the invariant is about.
LEMMA RescueInv ==
    ASSUME IInv, NEW t \in Thread, Rescue(t)
    PROVE  IInv'
  BY DEF IInv, Rescue, TypeOK, CheckedMeansNothing, SleeperSeesPending, Files,
         WaitersAreInside, ToldMeansClosed, ClosersAreDone, BlockedOnClosedIsTold

\* Nor does handing over the GVL.
LEMMA ScheduleInv ==
    ASSUME IInv, NEW t \in Thread, Yield(t) \/ Resume(t)
    PROVE  IInv'
  BY DEF IInv, Yield, Resume, asyncVars, TypeOK, CheckedMeansNothing, SleeperSeesPending,
         Files, WaitersAreInside, ToldMeansClosed, ClosersAreDone, BlockedOnClosedIsTold

\* A new thread has its creator's masks, and an empty queue.
LEMMA CreateInv ==
    ASSUME IInv, NEW t \in Thread, NEW u \in Thread, thread_create_core(t, u)
    PROVE  IInv'
  <1> USE DEF IInv, thread_create_core
  <1>1. TypeOK'
    <2>1. <<>> \in Seq(Pending)  BY EmptySeq
    <2>2. Len(masks[t]) \in Nat  BY LenProperties DEF TypeOK
    <2>3. masks' \in [Thread -> Seq([covers : Classes, timing : Timing])]  BY DEF TypeOK
    <2>4. inherited' \in [Thread -> Nat]  BY <2>2 DEF TypeOK
    <2>5. \A v \in Thread : inherited'[v] <= Len(masks'[v])  BY <2>2 DEF TypeOK
    <2> QED  BY <2>1, <2>3, <2>4, <2>5 DEF TypeOK, Place
  <1>2. CheckedMeansNothing'  BY CheckedKept DEF TypeOK
  <1>3. SleeperSeesPending'  BY SleepersKept DEF TypeOK
  <1>4. Files'  BY FilesKept DEF TypeOK, Inside
  <1> QED  BY <1>1, <1>2, <1>3, <1>4

\* A thread that ends may pass its exception on to the main thread.
LEMMA EndInv ==
    ASSUME IInv, NEW t \in Thread, ThreadEnd(t)
    PROVE  IInv'
  <1> USE DEF IInv
  <1>1. /\ place[t] = "run" /\ t # Main
        /\ place' = [place EXCEPT ![t] = "dead"]
        /\ unwinding' = [unwinding EXCEPT ![t] = NoError]
        /\ masks' = [masks EXCEPT ![t] = <<>>]
        /\ inherited' = [inherited EXCEPT ![t] = 0]
        /\ to_kill' = to_kill \ {t} /\ gvl' = NoThread
        /\ UNCHANGED <<at, waiting_fds, open>>
    BY DEF ThreadEnd, Runs
  <1>2. /\ queue' \in [Thread -> Seq(Pending)]
        /\ t \notin checked' /\ checked' \subseteq checked
        /\ interrupted \ {t} \subseteq interrupted' /\ interrupted' \subseteq Thread
        /\ \A u \in Thread \ {t} : queue'[u] = queue[u] \/ (u \in interrupted' /\ u \notin checked')
    <2>1. <<>> \in Seq(Pending)  BY EmptySeq
    <2>2. Main \in Thread  BY InterruptsAssumption
    <2>3. CASE /\ queue' = [queue EXCEPT ![t] = <<>>]
               /\ interrupted' = interrupted \ {t}
               /\ checked' = checked \ {t}
      BY <2>1, <2>3 DEF TypeOK
    <2>4. CASE /\ unwinding[t] \notin {NoError, Kill}
               /\ queue' = [queue EXCEPT ![t] = <<>>, ![Main] = Append(@, unwinding[t])]
               /\ interrupted' = (interrupted \cup {Main}) \ {t}
               /\ checked' = checked \ {t, Main}
      <3>1. unwinding[t] \in Pending  BY <2>4 DEF TypeOK
      <3>2. Append(queue[Main], unwinding[t]) \in Seq(Pending)  BY <3>1, <2>2 DEF TypeOK
      <3> DEFINE new == Append(queue[Main], unwinding[t])
      <3>3. queue' = [u \in Thread |-> IF u = t THEN <<>> ELSE IF u = Main THEN new ELSE queue[u]]
        BY <1>1, <2>2, <2>4 DEF TypeOK
      <3> HIDE DEF new
      <3>4. queue' \in [Thread -> Seq(Pending)]  BY <2>1, <3>2, <3>3 DEF TypeOK, new
      <3>5. \A u \in Thread \ {t} : u = Main \/ queue'[u] = queue[u]  BY <3>3
      <3> QED  BY <1>1, <2>2, <2>4, <3>4, <3>5 DEF TypeOK
    <2> QED  BY <2>3, <2>4 DEF ThreadEnd
  <1>3. TypeOK'
    <2>1. <<>> \in Seq([covers : Classes, timing : Timing]) /\ Len(<<>>) = 0  BY EmptySeq
    <2>2. masks' \in [Thread -> Seq([covers : Classes, timing : Timing])]
      BY <1>1, <2>1 DEF TypeOK
    <2>3. inherited' \in [Thread -> Nat] /\ \A u \in Thread : inherited'[u] <= Len(masks'[u])
      BY <1>1, <2>1 DEF TypeOK
    <2> QED  BY <1>1, <1>2, <2>2, <2>3 DEF TypeOK, Place
  <1>4. CheckedMeansNothing'
    <2>1. ASSUME NEW u \in checked'
          PROVE  u \in checked /\ queue'[u] = queue[u] /\ masks'[u] = masks[u]
      BY <1>1, <1>2 DEF TypeOK
    <2> QED  BY <1>3, <2>1, CheckedKept DEF TypeOK
  <1>5. SleeperSeesPending'
    <2>1. ASSUME NEW u \in Thread \ {t}
          PROVE  /\ place'[u] = place[u] /\ masks'[u] = masks[u]
                 /\ u \notin interrupted' => u \notin interrupted /\ queue'[u] = queue[u]
      BY <1>1, <1>2 DEF TypeOK
    <2>2. place'[t] # "sleep"  BY <1>1 DEF TypeOK
    <2> QED  BY <2>1, <2>2, SleepersKept
  <1>6. Files'  BY <1>1, <1>2, FilesKept DEF TypeOK, Inside
  <1> QED  BY <1>3, <1>4, <1>5, <1>6

\* What rb_threadptr_pending_interrupt_enque and rb_threadptr_interrupt do to threads us.
EnqueEffect(us) ==
    /\ queue' \in [Thread -> Seq(Pending)]
    /\ \A u \in Thread : queue'[u] = queue[u] \/ u \in us
    /\ checked' = checked \ us
    /\ interrupted' = interrupted \cup us

\* Enque has that effect.
LEMMA EnqueType ==
    ASSUME TypeOK, NEW us \in SUBSET Thread, NEW err \in Pending, Enque(us, err)
    PROVE  EnqueEffect(us)
  <1>1. \A u \in Thread : Append(queue[u], err) \in Seq(Pending)  BY AppendProperties DEF TypeOK
  <1> DEFINE new(u) == Append(queue[u], err)
  <1>2. queue' = [u \in Thread |-> IF u \in us THEN new(u) ELSE queue[u]]  BY DEF Enque
  <1> HIDE DEF new
  <1>3. queue' \in [Thread -> Seq(Pending)]  BY <1>1, <1>2 DEF new, TypeOK
  <1> QED  BY <1>2, <1>3 DEF Enque, EnqueEffect

\* Other threads are sent an exception: nothing else changes.
LEMMA EnqueInv ==
    ASSUME IInv, NEW u \in Thread, NEW err \in Pending, Enque({u}, err),
           UNCHANGED <<gvl, place, at, masks, inherited, unwinding, to_kill, waiting_fds, open>>
    PROVE  IInv'
  <1> USE DEF IInv
  <1>1. EnqueEffect({u})  BY EnqueType
  <1>2. TypeOK'  BY <1>1 DEF EnqueEffect, TypeOK
  <1>3. CheckedMeansNothing'  BY <1>1 DEF EnqueEffect, CheckedMeansNothing, TypeOK
  <1>4. SleeperSeesPending'  BY <1>1 DEF EnqueEffect, SleeperSeesPending
  <1>5. Files'  BY <1>1 DEF EnqueEffect, Files, WaitersAreInside, ToldMeansClosed, ClosersAreDone,
                            BlockedOnClosedIsTold
  <1> QED  BY <1>2, <1>3, <1>4, <1>5

\* Thread#raise, of another thread or of the thread itself.
LEMMA RaiseInv ==
    ASSUME IInv, NEW t \in Thread, NEW u \in Thread, NEW err \in Error,
           rb_threadptr_raise(t, u, err)
    PROVE  IInv'
  <1> USE DEF IInv
  <1>0. /\ err \in Pending
        /\ place[t] = "run"
        /\ UNCHANGED <<gvl, place, at, masks, inherited, waiting_fds, open>>
    BY DEF Pending, rb_threadptr_raise, Free, Runs
  <1>1. CASE u # t
    BY <1>0, <1>1, EnqueInv DEF rb_threadptr_raise
  <1>2. CASE u = t
    <2> DEFINE q == Append(queue[t], err)
    <2>1. q \in Seq(Pending)  BY <1>0, AppendProperties DEF TypeOK
    <2>2. rb_threadptr_execute_interrupts(t, q, masks[t], "immediate", TRUE)
      BY <1>2 DEF rb_threadptr_raise
    <2> HIDE DEF q
    <2>3. ExecuteEffect(t, q, masks[t], Raises(t, q, masks[t], "immediate", TRUE))
      BY <2>1, <2>2, FreshExecute
    <2>4. TypeOK'  BY <1>0, <2>3 DEF TypeOK, ExecuteEffect
    <2>5. CheckedMeansNothing'  BY <1>0, <2>3, CheckedKept DEF ExecuteEffect
    <2>6. SleeperSeesPending'  BY <1>0, <2>3, SleepersKept DEF ExecuteEffect
    <2>7. Files'  BY <1>0, <2>3, FilesKept DEF ExecuteEffect, Inside
    <2> QED  BY <2>4, <2>5, <2>6, <2>7
  <1> QED  BY <1>1, <1>2

\* Thread#kill, of another thread or of the thread itself.
LEMMA KillInv ==
    ASSUME IInv, NEW t \in Thread, NEW u \in Thread, rb_thread_kill(t, u)
    PROVE  IInv'
  <1> USE DEF IInv
  <1>0. /\ Kill \in Pending
        /\ place[t] = "run"
        /\ UNCHANGED <<gvl, place, at, masks, inherited, waiting_fds, open>>
    BY DEF Pending, rb_thread_kill, Free, Runs
  <1>1. CASE u # t
    BY <1>0, <1>1, EnqueInv DEF rb_thread_kill
  <1>2. CASE u = t
    <2>1. /\ queue' = [queue EXCEPT ![t] = <<>>]
          /\ to_kill' = to_kill \cup {t}
          /\ unwinding' = [unwinding EXCEPT ![t] = Kill]
          /\ UNCHANGED <<checked, interrupted>>
      BY <1>2 DEF rb_thread_kill
    <2>2. <<>> \in Seq(Pending)  BY EmptySeq
    <2>3. TypeOK'  BY <1>0, <2>1, <2>2 DEF TypeOK
    <2>4. CheckedMeansNothing'
      <3>1. \A v \in Thread \ {t} : queue'[v] = queue[v]  BY <2>1 DEF TypeOK
      <3>2. Found(queue'[t], masks'[t], "immediate") = {}  BY <2>1, NothingInEmpty DEF TypeOK
      <3> QED  BY <1>0, <2>1, <2>3, <3>1, <3>2, CheckedKept DEF TypeOK
    <2>5. SleeperSeesPending'  BY <1>0, <2>1, SleepersKept DEF TypeOK
    <2>6. Files'  BY <1>0, <2>1, FilesKept DEF Inside
    <2> QED  BY <2>3, <2>4, <2>5, <2>6
  <1> QED  BY <1>1, <1>2
-----------------------------------------------------------------------------
\* A thread whose vm_check_ints_blocking raises nothing has nothing pending that its
\* masks let interrupt a blocking operation.
LEMMA BlockingCheck ==
    ASSUME TypeOK, NEW t \in Thread, vm_check_ints_blocking(t)
    PROVE  /\ ExecuteEffect(t, queue[t], masks[t], BlockingRaises(t))
           /\ ~BlockingRaises(t) => Found(queue'[t], masks[t], "on_blocking") = {}
  <1>1. queue[t] \in Seq(Pending)  BY DEF TypeOK
  <1>2. ExecuteEffect(t, queue[t], masks[t], BlockingRaises(t))
    BY <1>1, FreshExecute DEF vm_check_ints_blocking, BlockingRaises
  <1>3. ASSUME ~BlockingRaises(t) PROVE Found(queue[t], masks[t], "on_blocking") = {}
    BY <1>3, NothingInEmpty DEF BlockingRaises, Raises, Active
  <1> QED  BY <1>2, <1>3 DEF ExecuteEffect

\* A sleeping or running thread t looks at its interrupts and then runs or sleeps.
LEMMA SleepStep ==
    ASSUME IInv, NEW t \in Thread, place[t] \in {"run", "sleep"},
           vm_check_ints_blocking(t),
           gvl' \in Thread \cup {NoThread},
           \/ place' = [place EXCEPT ![t] = "run"]
           \/ ~BlockingRaises(t) /\ place' = [place EXCEPT ![t] = "sleep"],
           UNCHANGED <<at, masks, inherited, waiting_fds, open>>
    PROVE  IInv'
  <1> USE DEF IInv
  <1>1. ExecuteEffect(t, queue[t], masks[t], BlockingRaises(t))  BY BlockingCheck
  <1>2. TypeOK'  BY <1>1 DEF TypeOK, ExecuteEffect, Place
  <1>3. CheckedMeansNothing'  BY <1>1, CheckedKept DEF ExecuteEffect
  <1>4. SleeperSeesPending'
    <2>1. ~BlockingRaises(t) => Found(queue'[t], masks'[t], "on_blocking") = {}  BY BlockingCheck
    <2>2. \A u \in Thread \ {t} : place'[u] = place[u]  BY DEF TypeOK
    <2>3. place'[t] = "run" \/ ~BlockingRaises(t)  BY DEF TypeOK
    <2> QED  BY <1>1, <2>1, <2>2, <2>3 DEF SleeperSeesPending, ExecuteEffect
  <1>5. Files'  BY <1>1, FilesKept DEF ExecuteEffect, Inside, TypeOK
  <1> QED  BY <1>2, <1>3, <1>4, <1>5

\* A thread goes to sleep, or comes back from native_sleep.
LEMMA SleepInv ==
    ASSUME IInv, NEW t \in Thread, sleep_forever(t) \/ SleepReturn(t)
    PROVE  IInv'
  <1>1. CASE sleep_forever(t)
    <2>1. gvl \in Thread \cup {NoThread} /\ place = [place EXCEPT ![t] = place[t]]
      BY DEF IInv, TypeOK
    <2> QED  BY <1>1, <2>1, SleepStep DEF sleep_forever, Free, Runs
  <1>2. CASE SleepReturn(t)
    <2>1. gvl \in Thread \cup {NoThread} /\ place = [place EXCEPT ![t] = place[t]]
      BY DEF IInv, TypeOK
    <2> QED  BY <1>2, <2>1, SleepStep DEF SleepReturn
  <1> QED  BY <1>1, <1>2
-----------------------------------------------------------------------------
\* A thread goes into rb_thread_io_blocking_region and gets its entry.
LEMMA IoEnterInv ==
    ASSUME IInv, NEW t \in Thread, NEW fd \in Fd, rb_thread_io_blocking_region(t, fd)
    PROVE  IInv'
  <1> USE DEF IInv
  <1> DEFINE entry == [fd |-> fd, th |-> t, told |-> FALSE]
  <1>1. /\ place[t] = "run" /\ fd \in open
        /\ waiting_fds' = waiting_fds \cup {entry}
        /\ place' = [place EXCEPT ![t] = "io_enter"]
        /\ at' = [at EXCEPT ![t] = fd]
        /\ UNCHANGED <<gvl, asyncVars, masks, inherited, open>>
    BY DEF rb_thread_io_blocking_region, Free, Runs
  <1>2. TypeOK'
    <2>1. entry \in [fd : Fd, th : Thread, told : BOOLEAN]  OBVIOUS
    <2> HIDE DEF entry
    <2> QED  BY <1>1, <2>1 DEF TypeOK, Place, asyncVars
  <1>3. CheckedMeansNothing'  BY <1>1 DEF CheckedMeansNothing, asyncVars
  <1>4. SleeperSeesPending'  BY <1>1, SleepersKept DEF asyncVars, TypeOK
  <1>5. ToldMeansClosed'  BY <1>1 DEF Files, ToldMeansClosed
  <1>6. ClosersAreDone'  BY <1>1 DEF Files, ClosersAreDone, TypeOK
  <1>7. BlockedOnClosedIsTold'  BY <1>1 DEF Files, BlockedOnClosedIsTold, TypeOK, asyncVars
  <1>8. WaitersAreInside'
    <2>1. {w \in waiting_fds : w.th = t} = {}
      BY <1>1 DEF Files, WaitersAreInside
    <2>2. {w \in waiting_fds' : w.th = t} = {entry} /\ entry.fd = at'[t]
      BY <1>1, <2>1 DEF TypeOK
    <2>3. \A u \in Thread \ {t} :
             /\ {w \in waiting_fds' : w.th = u} = {w \in waiting_fds : w.th = u}
             /\ place'[u] = place[u] /\ at'[u] = at[u]
      BY <1>1 DEF TypeOK
    <2>4. place'[t] = "io_enter"  BY <1>1 DEF TypeOK
    <2> HIDE DEF entry
    <2> QED  BY <2>2, <2>3, <2>4 DEF Files, WaitersAreInside
  <1> QED  BY <1>2, <1>3, <1>4, <1>5, <1>6, <1>7, <1>8 DEF Files

\* A thread leaves rb_thread_io_blocking_region, and takes its entry with it.
LEMMA LeaveIo ==
    ASSUME TypeOK, Files, NEW t \in Thread,
           place' = [place EXCEPT ![t] = "run"], waiting_fds' = Unregister(t),
           interrupted \ {t} \subseteq interrupted', UNCHANGED <<at, open>>
    PROVE  Files'
  <1>1. \A u \in Thread \ {t} :
           place'[u] = place[u] /\ {w \in waiting_fds' : w.th = u} = {w \in waiting_fds : w.th = u}
    BY DEF TypeOK, Unregister
  <1>2. place'[t] = "run" /\ {w \in waiting_fds' : w.th = t} = {}
    BY DEF TypeOK, Unregister
  <1>3. WaitersAreInside'  BY <1>1, <1>2 DEF Files, WaitersAreInside
  <1>4. ToldMeansClosed' /\ ClosersAreDone'
    BY <1>1, <1>2 DEF Files, ToldMeansClosed, ClosersAreDone, Unregister
  <1>5. BlockedOnClosedIsTold'  BY <1>1, <1>2 DEF Files, BlockedOnClosedIsTold
  <1> QED  BY <1>3, <1>4, <1>5 DEF Files

\* A thread gives up the GVL for read(), or is raised in just before.
LEMMA IoBeginInv ==
    ASSUME IInv, NEW t \in Thread, blocking_region_begin(t)
    PROVE  IInv'
  <1> USE DEF IInv
  <1>1. /\ gvl = t /\ place[t] = "io_enter" /\ CheckInts(t)
        /\ UNCHANGED <<at, masks, inherited, open>>
    BY DEF blocking_region_begin
  <1>2. ExecuteEffect(t, queue[t], masks[t], CheckRaises(t))  BY <1>1, CheckExecute
  <1>3. CheckedMeansNothing'  BY <1>1, <1>2, CheckedKept DEF ExecuteEffect
  <1>4. CASE CheckRaises(t)
    <2>1. place' = [place EXCEPT ![t] = "run"] /\ waiting_fds' = Unregister(t) /\ gvl' = gvl
      BY <1>4 DEF blocking_region_begin
    <2>2. TypeOK'  BY <1>1, <1>2, <2>1 DEF TypeOK, Place, ExecuteEffect, Unregister
    <2>3. SleeperSeesPending'  BY <1>1, <1>2, <2>1, SleepersKept DEF ExecuteEffect, TypeOK
    <2>4. Files'  BY <1>1, <1>2, <2>1, LeaveIo DEF ExecuteEffect
    <2> QED  BY <1>3, <2>2, <2>3, <2>4
  <1>5. CASE ~CheckRaises(t)
    <2>1. /\ place' = [place EXCEPT ![t] = IF at[t] \in open THEN "io" ELSE "io_failed"]
          /\ gvl' = NoThread /\ waiting_fds' = waiting_fds
      BY <1>5 DEF blocking_region_begin
    <2>2. TypeOK'  BY <1>1, <1>2, <2>1 DEF TypeOK, Place, ExecuteEffect
    <2>3. SleeperSeesPending'  BY <1>1, <1>2, <2>1, SleepersKept DEF ExecuteEffect, TypeOK
    <2>4. /\ place'[t] \in {"io", "io_failed"} /\ (place'[t] = "io" => at[t] \in open)
          /\ \A u \in Thread \ {t} : place'[u] = place[u]
      BY <2>1 DEF TypeOK
    <2>5. WaitersAreInside'  BY <1>1, <2>1, <2>4 DEF Files, WaitersAreInside
    <2>6. ToldMeansClosed' /\ ClosersAreDone'
      BY <1>1, <2>1, <2>4 DEF Files, ToldMeansClosed, ClosersAreDone
    <2>7. BlockedOnClosedIsTold'
      BY <1>1, <1>2, <2>4 DEF Files, BlockedOnClosedIsTold, ExecuteEffect
    <2> QED  BY <1>3, <2>2, <2>3, <2>5, <2>6, <2>7 DEF Files
  <1> QED  BY <1>4, <1>5

\* A thread comes back from read().
LEMMA IoReturnInv ==
    ASSUME IInv, NEW t \in Thread, IoReturn(t)
    PROVE  IInv'
  <1> USE DEF IInv
  <1>1. /\ gvl' = t /\ place' = [place EXCEPT ![t] = "run"] /\ waiting_fds' = Unregister(t)
        /\ vm_check_ints_blocking(t)
        /\ UNCHANGED <<at, masks, inherited, open>>
    BY DEF IoReturn
  <1>2. ExecuteEffect(t, queue[t], masks[t], BlockingRaises(t))  BY <1>1, BlockingCheck
  <1>3. TypeOK'  BY <1>1, <1>2 DEF TypeOK, Place, ExecuteEffect, Unregister
  <1>4. CheckedMeansNothing'  BY <1>1, <1>2, CheckedKept DEF ExecuteEffect
  <1>5. SleeperSeesPending'  BY <1>1, <1>2, SleepersKept DEF ExecuteEffect, TypeOK
  <1>6. Files'  BY <1>1, <1>2, LeaveIo DEF ExecuteEffect
  <1> QED  BY <1>3, <1>4, <1>5, <1>6
-----------------------------------------------------------------------------
\* rb_notify_fd_close tells the users of a file that is closed in the same step or
\* before; the threads keep their entries.
LEMMA NotifyKeeps ==
    ASSUME IInv, NEW fd \in Fd, rb_notify_fd_close(fd),
           open' = open \ {fd},
           \A u \in Thread : place[u] \in Inside \/ place'[u] \in Inside =>
                                 place'[u] = place[u] /\ at'[u] = at[u],
           \A u \in Thread : place'[u] = "close" => at'[u] \notin open'
    PROVE  EnqueEffect(Untold(fd)) /\ Untold(fd) \in SUBSET Thread /\ Files'
           /\ waiting_fds' \subseteq [fd : Fd, th : Thread, told : BOOLEAN]
  <1> USE DEF IInv
  <1> DEFINE told(w) == IF w.fd = fd THEN [w EXCEPT !.told = TRUE] ELSE w
  <1>1. waiting_fds' = {told(w) : w \in waiting_fds}  BY DEF rb_notify_fd_close
  <1>2. Untold(fd) \in SUBSET Thread  BY DEF Untold, TypeOK
  <1>3. EnqueEffect(Untold(fd))
    <2>1. Closed \in Pending  BY DEF Pending
    <2> QED  BY <1>2, <2>1, EnqueType DEF rb_notify_fd_close
  <1>4. \A w \in waiting_fds : /\ told(w) \in [fd : Fd, th : Thread, told : BOOLEAN]
                               /\ told(w).fd = w.fd /\ told(w).th = w.th
                               /\ w.fd # fd => told(w) = w
    BY DEF TypeOK
  <1> HIDE DEF told
  <1>5. WaitersAreInside'
    <2>1. ASSUME NEW u \in Thread, place'[u] \in Inside
          PROVE  \E w \in {v \in waiting_fds' : v.th = u} :
                    {v \in waiting_fds' : v.th = u} = {w} /\ w.fd = at'[u]
      <3>1. PICK w \in {v \in waiting_fds : v.th = u} :
                   {v \in waiting_fds : v.th = u} = {w} /\ w.fd = at[u]
        BY <2>1 DEF Files, WaitersAreInside, Inside
      <3>2. {v \in waiting_fds' : v.th = u} = {told(w)}
        BY <1>1, <1>4, <3>1
      <3> QED  BY <1>4, <2>1, <3>1, <3>2
    <2>2. ASSUME NEW u \in Thread, place'[u] \notin Inside
          PROVE  {v \in waiting_fds' : v.th = u} = {}
      <3>1. {v \in waiting_fds : v.th = u} = {}
        BY <2>2 DEF Files, WaitersAreInside, Inside
      <3> QED  BY <1>1, <1>4, <3>1
    <2> QED  BY <2>1, <2>2 DEF WaitersAreInside, Inside
  <1>6. ToldMeansClosed'
    <2> SUFFICES ASSUME NEW v \in waiting_fds', v.told PROVE v.fd \notin open'
      BY DEF ToldMeansClosed
    <2>1. PICK w \in waiting_fds : v = told(w)  BY <1>1
    <2> QED  BY <1>4, <2>1 DEF Files, ToldMeansClosed
  <1>7. BlockedOnClosedIsTold'
    <2> SUFFICES ASSUME NEW u \in Thread, place'[u] = "io", at'[u] \notin open'
                 PROVE  u \in interrupted'
      BY DEF BlockedOnClosedIsTold
    <2>1. place[u] = "io" /\ at'[u] = at[u]  BY DEF Inside
    <2>2. CASE at[u] \notin open
      BY <1>3, <2>1, <2>2 DEF Files, BlockedOnClosedIsTold, EnqueEffect
    <2>3. CASE at[u] = fd /\ fd \in open
      <3>1. PICK w \in waiting_fds : w.th = u /\ w.fd = fd
        BY <2>1, <2>3 DEF Files, WaitersAreInside
      <3>2. ~w.told  BY <2>3, <3>1 DEF Files, ToldMeansClosed
      <3>3. u \in Untold(fd)  BY <3>1, <3>2 DEF Untold
      <3> QED  BY <1>3, <3>3 DEF EnqueEffect
    <2> QED  BY <2>1, <2>2, <2>3
  <1>8. ClosersAreDone'  BY DEF ClosersAreDone
  <1>9. waiting_fds' \subseteq [fd : Fd, th : Thread, told : BOOLEAN]  BY <1>1, <1>4
  <1> QED  BY <1>2, <1>3, <1>5, <1>6, <1>7, <1>8, <1>9 DEF Files

\* The parts about the queues, for a step with rb_notify_fd_close.
LEMMA NotifyQueues ==
    ASSUME IInv, NEW us \in SUBSET Thread, EnqueEffect(us), UNCHANGED masks,
           \A u \in Thread : place'[u] = "sleep" => place[u] = "sleep"
    PROVE  CheckedMeansNothing' /\ SleeperSeesPending'
  <1>1. CheckedMeansNothing'  BY DEF IInv, EnqueEffect, CheckedMeansNothing, TypeOK
  <1>2. SleeperSeesPending'  BY DEF IInv, EnqueEffect, SleeperSeesPending
  <1> QED  BY <1>1, <1>2

\* A file is closed, and its readers are told.
LEMMA CloseInv ==
    ASSUME IInv, NEW t \in Thread, NEW fd \in Fd, io_close_fptr(t, fd)
    PROVE  IInv'
  <1> USE DEF IInv
  <1>1. /\ place[t] = "run" /\ rb_notify_fd_close(fd) /\ open' = open \ {fd}
        /\ \/ UNCHANGED <<gvl, place, at>>
           \/ /\ gvl' = NoThread /\ place' = [place EXCEPT ![t] = "close"]
              /\ at' = [at EXCEPT ![t] = fd]
        /\ UNCHANGED <<masks, inherited, unwinding, to_kill>>
    BY DEF io_close_fptr, Free, Runs
  <1>2. /\ \A u \in Thread : place[u] \in Inside \/ place'[u] \in Inside =>
                                 place'[u] = place[u] /\ at'[u] = at[u]
        /\ \A u \in Thread : place'[u] = "sleep" => place[u] = "sleep"
    BY <1>1 DEF Inside, TypeOK
  <1>3. \A u \in Thread : place'[u] = "close" => at'[u] \notin open'
    BY <1>1 DEF Files, ClosersAreDone, TypeOK
  <1>4. EnqueEffect(Untold(fd)) /\ Untold(fd) \in SUBSET Thread /\ Files'
        /\ waiting_fds' \subseteq [fd : Fd, th : Thread, told : BOOLEAN]
    BY <1>1, <1>2, <1>3, NotifyKeeps
  <1>5. CheckedMeansNothing' /\ SleeperSeesPending'  BY <1>1, <1>2, <1>4, NotifyQueues
  <1>6. TypeOK'  BY <1>1, <1>4 DEF TypeOK, Place, EnqueEffect
  <1> QED  BY <1>4, <1>5, <1>6

\* The thread that closes a file looks at its interrupts, or tells the readers again.
LEMMA CloseLoopInv ==
    ASSUME IInv, NEW t \in Thread, CloseLoop(t)
    PROVE  IInv'
  <1> USE DEF IInv
  <1>1. gvl = t /\ place[t] = "close" /\ UNCHANGED <<at, masks, inherited, open>>
    BY DEF CloseLoop
  <1>2. CASE CheckRaises(t) \/ t \in interrupted
    <2>1. /\ CheckInts(t)
          /\ place' = IF CheckRaises(t) THEN [place EXCEPT ![t] = "run"] ELSE place
          /\ UNCHANGED <<gvl, waiting_fds>>
      BY <1>2 DEF CloseLoop
    <2>2. ExecuteEffect(t, queue[t], masks[t], CheckRaises(t))  BY <2>1, CheckExecute
    <2>3. place'[t] \in {"run", "close"} /\ \A u \in Thread \ {t} : place'[u] = place[u]
      BY <1>1, <2>1 DEF TypeOK
    <2>4. TypeOK'  BY <1>1, <2>1, <2>2 DEF TypeOK, Place, ExecuteEffect
    <2>5. CheckedMeansNothing'  BY <1>1, <2>2, CheckedKept DEF ExecuteEffect
    <2>6. SleeperSeesPending'  BY <1>1, <2>2, <2>3, SleepersKept DEF ExecuteEffect
    <2>7. Files'  BY <1>1, <2>1, <2>2, <2>3, FilesKept DEF ExecuteEffect, Inside
    <2> QED  BY <2>4, <2>5, <2>6, <2>7
  <1>3. CASE ~(CheckRaises(t) \/ t \in interrupted)
    <2> DEFINE fd == at[t]
    <2>1. /\ rb_notify_fd_close(fd)
          /\ \/ place' = [place EXCEPT ![t] = "run"] /\ gvl' = gvl
             \/ gvl' = NoThread /\ place' = place
          /\ UNCHANGED <<unwinding, to_kill>>
      BY <1>3 DEF CloseLoop
    <2>2. fd \in Fd /\ open' = open \ {fd}
      BY <1>1 DEF Files, ClosersAreDone, TypeOK
    <2>3. /\ \A u \in Thread : place[u] \in Inside \/ place'[u] \in Inside =>
                                   place'[u] = place[u] /\ at'[u] = at[u]
          /\ \A u \in Thread : place'[u] = "sleep" => place[u] = "sleep"
      BY <1>1, <2>1 DEF Inside, TypeOK
    <2>4. \A u \in Thread : place'[u] = "close" => at'[u] \notin open'
      BY <1>1, <2>1 DEF Files, ClosersAreDone, TypeOK
    <2> HIDE DEF fd
    <2>5. EnqueEffect(Untold(fd)) /\ Untold(fd) \in SUBSET Thread /\ Files'
          /\ waiting_fds' \subseteq [fd : Fd, th : Thread, told : BOOLEAN]
      BY <2>1, <2>2, <2>3, <2>4, NotifyKeeps
    <2>6. CheckedMeansNothing' /\ SleeperSeesPending'  BY <1>1, <2>3, <2>5, NotifyQueues
    <2>7. TypeOK'  BY <1>1, <2>1, <2>5 DEF TypeOK, Place, EnqueEffect
    <2> QED  BY <2>5, <2>6, <2>7
  <1> QED  BY <1>2, <1>3
-----------------------------------------------------------------------------
\* The invariant holds when the main thread starts.
LEMMA InitIInv == Init => IInv
  <1> SUFFICES ASSUME Init PROVE IInv
    OBVIOUS
  <1>1. (CHOOSE fd \in Fd : TRUE) \in Fd /\ Main \in Thread  BY InterruptsAssumption
  <1>2. TypeOK
    <2>1. <<>> \in Seq(Pending) /\ <<>> \in Seq([covers : Classes, timing : Timing])
          /\ Len(<<>>) = 0
      BY EmptySeq
    <2> QED  BY <1>1, <2>1 DEF Init, TypeOK, Place
  <1>3. CheckedMeansNothing  BY DEF Init, CheckedMeansNothing
  <1>4. SleeperSeesPending  BY DEF Init, SleeperSeesPending
  <1>5. Files
    BY DEF Init, Files, WaitersAreInside, ToldMeansClosed, ClosersAreDone, BlockedOnClosedIsTold
  <1> QED  BY <1>2, <1>3, <1>4, <1>5 DEF IInv

\* Every step keeps the invariant.
LEMMA NextIInv == IInv /\ [Next]_vars => IInv'
  <1> SUFFICES ASSUME IInv, [Next]_vars PROVE IInv'
    OBVIOUS
  <1>1. CASE UNCHANGED vars
    BY <1>1 DEF vars, IInv, TypeOK, CheckedMeansNothing, SleeperSeesPending, Files,
                WaitersAreInside, ToldMeansClosed, ClosersAreDone, BlockedOnClosedIsTold
  <1>2. CASE Next
    <2>1. PICK t \in Thread : Step(t)  BY <1>2 DEF Next
    <2>2. CASE RUBY_VM_CHECK_INTS(t)  BY <2>2, CheckIntsInv
    <2>3. CASE LeaveHandleInterrupt(t)  BY <2>3, LeaveInv
    <2>4. CASE Rescue(t)  BY <2>4, RescueInv
    <2>5. CASE ThreadEnd(t)  BY <2>5, EndInv
    <2>6. CASE \E c \in Classes, timing \in Timing : EnterHandleInterrupt(t, c, timing)
      BY <2>6, EnterInv
    <2>7. CASE \E u \in Thread : thread_create_core(t, u)  BY <2>7, CreateInv
    <2>8. CASE \E u \in Thread : rb_thread_kill(t, u)  BY <2>8, KillInv
    <2>9. CASE \E u \in Thread : \E err \in Error : rb_threadptr_raise(t, u, err)
      BY <2>9, RaiseInv
    <2>10. CASE Yield(t) \/ Resume(t)  BY <2>10, ScheduleInv
    <2>11. CASE sleep_forever(t) \/ SleepReturn(t)  BY <2>11, SleepInv
    <2>12. CASE \E fd \in Fd : rb_thread_io_blocking_region(t, fd)  BY <2>12, IoEnterInv
    <2>13. CASE \E fd \in Fd : io_close_fptr(t, fd)  BY <2>13, CloseInv
    <2>14. CASE blocking_region_begin(t)  BY <2>14, IoBeginInv
    <2>15. CASE IoReturn(t)  BY <2>15, IoReturnInv
    <2>16. CASE CloseLoop(t)  BY <2>16, CloseLoopInv
    <2> QED  BY <2>1, <2>2, <2>3, <2>4, <2>5, <2>6, <2>7, <2>8, <2>9, <2>10, <2>11, <2>12,
                <2>13, <2>14, <2>15, <2>16 DEF Step
  <1> QED  BY <1>1, <1>2

\* The inductive invariant holds in every state of every behaviour.
THEOREM InterruptsInvariance == Spec => []IInv
  BY InitIInv, NextIInv, PTL DEF Spec

\* Queues hold pending interrupts, stacks hold masks, and a thread never has fewer masks
\* than it inherited: rb_thread_s_handle_interrupt pops only what it pushed.
THEOREM InterruptsTypeCorrect == Spec => []TypeOK
  BY InterruptsInvariance, PTL DEF IInv

\* threadptr_pending_interrupt_active_p never skips a queue with an interrupt that the
\* masks in force allow.
THEOREM CheckedQueues == Spec => []CheckedMeansNothing
  BY InterruptsInvariance, PTL DEF IInv

\* No thread sleeps without its flag while something is pending that may interrupt a
\* blocking operation.
THEOREM SleepersSeePending == Spec => []SleeperSeesPending
  BY InterruptsInvariance, PTL DEF IInv

\* vm->waiting_fds holds the entries of the threads inside rb_thread_io_blocking_region,
\* one for each, however they got there and left.
THEOREM WaitingFdsAreExact == Spec => []WaitersAreInside
  <1>1. IInv => WaitersAreInside  BY DEF IInv, Files
  <1> QED  BY <1>1, InterruptsInvariance, PTL

\* A thread that is blocked in read() on a closed file has its interrupt flag set.
THEOREM CloseReachesReaders == Spec => []BlockedOnClosedIsTold
  <1>1. IInv => BlockedOnClosedIsTold  BY DEF IInv, Files
  <1> QED  BY <1>1, InterruptsInvariance, PTL
=============================================================================

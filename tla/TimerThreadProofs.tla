------------------------- MODULE TimerThreadProofs -------------------------
(***************************************************************************)
(* The GVL and the protocol between the timer thread and those that talk   *)
(* to it, for every finite set of threads.                                 *)
(*                                                                         *)
(* Inv is an inductive invariant of the GVL.  Its conjuncts need each      *)
(* other: NoLostWakeup rests on WaitingCount (a positive gvl.waiting means *)
(* there is a thread to signal), WaitingCount on nothing but the places,   *)
(* and YieldProtocol on both.                                              *)
(*                                                                         *)
(* TimerInv is inductive for the two together: Inv, the types, who can be  *)
(* in the middle of a write to a pipe, when the pipes belong to nobody,    *)
(* the ubf list, and for each of the three unlocked reads of the timer     *)
(* thread what is true from that read on.                                  *)
(***************************************************************************)
EXTENDS TimerThread, FiniteSetTheorems, TLAPS

-----------------------------------------------------------------------------
(* The condition variables. *)

\* What gvl_release_common does to the places: the caller goes to next, and if
\* anybody waits for the GVL one of the sleeping waiters is woken.
LEMMA ReleaseEffect ==
    ASSUME TypeOK, NEW t \in Thread, pc[t] \notin {"cond", "cond_woken"},
           NEW next \in Place, next \notin {"cond", "cond_woken"},
           NEW p \in gvl_release_common(t, next)
    PROVE  /\ p \in [Thread -> Place]
           /\ p[t] = next
           /\ \A v \in Thread \ {t} : p[v] # pc[v] => pc[v] = "cond" /\ p[v] = "cond_woken"
           /\ waiting > 0 =>
                (\A v \in Thread : pc[v] # "cond") \/ (\E v \in Thread : p[v] = "cond_woken")
  <1> DEFINE left == [pc EXCEPT ![t] = next]
  <1>1. left \in [Thread -> Place] /\ "cond" \in Place /\ "cond_woken" \in Place
    BY DEF TypeOK, Place
  <1>2. CASE waiting > 0
    <2>1. p \in native_cond_signal(left, "cond", "cond_woken")
      BY <1>2 DEF gvl_release_common
    <2>2. \/ p = left /\ \A u \in Thread : left[u] # "cond"
          \/ \E u \in Thread : left[u] = "cond" /\ p = [left EXCEPT ![u] = "cond_woken"]
      BY <2>1 DEF native_cond_signal
    <2> QED BY <1>1, <2>2 DEF TypeOK
  <1>3. CASE ~(waiting > 0)
    <2>1. p = left
      BY <1>3 DEF gvl_release_common
    <2> QED BY <1>1, <1>3, <2>1 DEF TypeOK
  <1> QED BY <1>2, <1>3

-----------------------------------------------------------------------------
(* Counting the waiters. *)

\* The waiters can be counted.
LEMMA WaitersFinite == IsFiniteSet(Waiters) /\ IsFiniteSet(Waiters')
  <1>1. Waiters \subseteq Thread /\ Waiters' \subseteq Thread
    BY DEF Waiters
  <1> QED BY <1>1, FS_Subset, ThreadAssumption

\* A positive gvl.waiting means that there is a waiter.
LEMMA PositiveWaiting ==
    ASSUME WaitingCount
    PROVE  (waiting > 0) <=> (\E t \in Thread : pc[t] \in {"cond", "cond_woken"})
  <1>1. Waiters = {} <=> Cardinality(Waiters) = 0
    BY WaitersFinite, FS_EmptySet
  <1>2. Cardinality(Waiters) \in Nat
    BY WaitersFinite, FS_CardinalityType
  <1>3. Waiters # {} <=> \E t \in Thread : pc[t] \in {"cond", "cond_woken"}
    BY DEF Waiters
  <1> QED BY <1>1, <1>2, <1>3 DEF WaitingCount

\* A step that moves nobody into or out of the wait loop keeps WaitingCount.
LEMMA SameWaiters ==
    ASSUME WaitingCount, UNCHANGED waiting,
           \A v \in Thread : pc[v] \in {"cond", "cond_woken"}
                                <=> pc'[v] \in {"cond", "cond_woken"}
    PROVE  WaitingCount'
  <1>1. Waiters' = Waiters
    BY DEF Waiters
  <1> QED BY <1>1 DEF WaitingCount

\* A thread that enters the wait loop of gvl_acquire_common.
LEMMA OneMoreWaiter ==
    ASSUME WaitingCount, NEW t \in Thread, waiting' = waiting + 1,
           pc[t] \notin {"cond", "cond_woken"}, pc'[t] \in {"cond", "cond_woken"},
           \A v \in Thread \ {t} : pc[v] \in {"cond", "cond_woken"}
                                      <=> pc'[v] \in {"cond", "cond_woken"}
    PROVE  WaitingCount'
  <1>1. Waiters' = Waiters \cup {t} /\ t \notin Waiters
    BY DEF Waiters
  <1>2. Cardinality(Waiters') = Cardinality(Waiters) + 1
    BY <1>1, WaitersFinite, FS_AddElement
  <1> QED BY <1>2 DEF WaitingCount

\* A thread that leaves the wait loop of gvl_acquire_common.
LEMMA OneLessWaiter ==
    ASSUME WaitingCount, NEW t \in Thread, waiting' = waiting - 1,
           pc[t] \in {"cond", "cond_woken"}, pc'[t] \notin {"cond", "cond_woken"},
           \A v \in Thread \ {t} : pc[v] \in {"cond", "cond_woken"}
                                      <=> pc'[v] \in {"cond", "cond_woken"}
    PROVE  WaitingCount'
  <1>1. Waiters' = Waiters \ {t} /\ t \in Waiters
    BY DEF Waiters
  <1>2. Cardinality(Waiters') = Cardinality(Waiters) - 1
    BY <1>1, WaitersFinite, FS_RemoveElement
  <1> QED BY <1>2 DEF WaitingCount
-----------------------------------------------------------------------------
(* The inductive invariant. *)

\* The main thread alone, with the GVL, satisfies the invariant.
LEMMA InitInv == Init => Inv
  <1> SUFFICES ASSUME Init PROVE Inv
    OBVIOUS
  <1>1. Waiters = {}
    BY DEF Init, Waiters
  <1>2. WaitingCount
    BY <1>1, FS_EmptySet DEF Init, WaitingCount
  <1> QED BY <1>2, ThreadAssumption
    DEF Init, Inv, TypeOK, Place, MutualExclusion, RunningHolds, NeverPointsToEnded,
        NoLostWakeup, YieldProtocol, Having, Yielding

\* What every release of the GVL has in common.
LEMMA Freeing ==
    ASSUME Inv, NEW t \in Thread, pc[t] \in Having,
           NEW next \in Place, next \notin Having, next \notin {"cond", "cond_woken"},
           acquired' = FALSE, UNCHANGED waiting, pc' \in gvl_release_common(t, next)
    PROVE  /\ pc' \in [Thread -> Place]
           /\ pc'[t] = next
           /\ \A v \in Thread \ {t} : pc'[v] # pc[v] => pc[v] = "cond" /\ pc'[v] = "cond_woken"
           /\ MutualExclusion'
           /\ WaitingCount'
           /\ NoLostWakeup'
  <1>1. /\ pc' \in [Thread -> Place]
        /\ pc'[t] = next
        /\ \A v \in Thread \ {t} : pc'[v] # pc[v] => pc[v] = "cond" /\ pc'[v] = "cond_woken"
        /\ waiting > 0 =>
             (\A v \in Thread : pc[v] # "cond") \/ (\E v \in Thread : pc'[v] = "cond_woken")
    BY ReleaseEffect DEF Inv, Having
  <1>2. MutualExclusion'
    <2>1. \A v \in Thread : pc'[v] \notin Having
      BY <1>1 DEF Inv, MutualExclusion, Having
    <2> QED BY <2>1 DEF MutualExclusion
  <1>3. WaitingCount'
    BY <1>1, SameWaiters DEF Inv, Having
  <1>4. waiting > 0 => \E v \in Thread : pc[v] \in {"cond", "cond_woken"}
    BY PositiveWaiting DEF Inv
  <1>5. NoLostWakeup'
    BY <1>1, <1>4 DEF NoLostWakeup, Having
  <1> QED BY <1>1, <1>2, <1>3, <1>5

\* The rest of Inv for a release that leaves the yield protocol alone.
LEMMA PlainRelease ==
    ASSUME Inv, NEW t \in Thread, pc[t] \in Having,
           NEW next \in Place,
           next \notin Having \cup Yielding \cup {"cond", "cond_woken"},
           next = "switch_wait" => wait_yield,
           next = "dead" => running_thread # t,
           pc' \in gvl_release_common(t, next),
           acquired' = FALSE,
           UNCHANGED <<waiting, need_yield, wait_yield, running_thread, main_thread>>
    PROVE  Inv'
  <1>1. /\ pc' \in [Thread -> Place]
        /\ pc'[t] = next
        /\ \A v \in Thread \ {t} : pc'[v] # pc[v] => pc[v] = "cond" /\ pc'[v] = "cond_woken"
        /\ MutualExclusion' /\ WaitingCount' /\ NoLostWakeup'
    BY Freeing
  <1>2. TypeOK'
    BY <1>1 DEF Inv, TypeOK
  <1>3. RunningHolds' /\ NeverPointsToEnded'
    BY <1>1 DEF Inv, RunningHolds, NeverPointsToEnded, Having
  <1>4. \A v \in Thread :
          /\ pc'[v] \in Yielding <=> pc[v] \in Yielding
          /\ pc'[v] = "switch" <=> pc[v] = "switch"
          /\ pc'[v] = "switch_wait" /\ pc[v] # "switch_wait" => wait_yield
    BY <1>1 DEF Yielding, Having
  <1>5. YieldProtocol'
    BY <1>4 DEF Inv, YieldProtocol
  <1> QED BY <1>1, <1>2, <1>3, <1>5 DEF Inv

\* gvl_yield when a thread waits: the only step that enters the need_yield loop.
LEMMA YieldToWaiterInv ==
    ASSUME Inv, NEW t \in Thread, YieldToWaiter(t)
    PROVE  Inv'
  <1>1. /\ pc' \in [Thread -> Place]
        /\ pc'[t] = "switch"
        /\ \A v \in Thread \ {t} : pc'[v] # pc[v] => pc[v] = "cond" /\ pc'[v] = "cond_woken"
        /\ MutualExclusion' /\ WaitingCount' /\ NoLostWakeup'
    BY Freeing DEF YieldToWaiter, Having, Place
  <1>2. TypeOK'
    BY <1>1 DEF Inv, TypeOK, YieldToWaiter
  <1>3. RunningHolds' /\ NeverPointsToEnded'
    BY <1>1 DEF Inv, RunningHolds, NeverPointsToEnded, YieldToWaiter
  <1>4. \A v \in Thread : pc[v] \notin Yielding
    BY DEF Inv, YieldProtocol, YieldToWaiter
  <1>5. \A v \in Thread : pc'[v] \in Yielding <=> v = t
    BY <1>1, <1>4 DEF Yielding
  <1>6. YieldProtocol'
    BY <1>5 DEF Inv, YieldProtocol, YieldToWaiter
  <1> QED BY <1>1, <1>2, <1>3, <1>6 DEF Inv

\* A woken waiter that takes the GVL and, if a thread yields to it, wakes that.
LEMMA CondTakeInv ==
    ASSUME Inv, NEW t \in Thread, CondTake(t)
    PROVE  Inv'
  <1> DEFINE taken == [pc EXCEPT ![t] = "resume"]
  <1>1. /\ pc' \in [Thread -> Place]
        /\ pc'[t] = "resume"
        /\ \A v \in Thread \ {t} : pc'[v] # pc[v] => pc[v] = "switch" /\ pc'[v] = "switch_woken"
        /\ need_yield => (\A v \in Thread : pc[v] # "switch")
                          \/ (\E v \in Thread : pc[v] = "switch" /\ pc'[v] = "switch_woken")
    <2>1. taken \in [Thread -> Place] /\ pc[t] = "cond_woken"
      BY DEF Inv, TypeOK, Place, CondTake
    <2>2. CASE need_yield
      <3>1. \/ pc' = taken /\ \A u \in Thread : taken[u] # "switch"
            \/ \E u \in Thread : taken[u] = "switch" /\ pc' = [taken EXCEPT ![u] = "switch_woken"]
        BY <2>2 DEF CondTake, native_cond_signal
      <3> QED BY <2>1, <3>1 DEF Inv, TypeOK, Place
    <2>3. CASE ~need_yield
      <3>1. pc' = taken
        BY <2>3 DEF CondTake
      <3> QED BY <2>1, <2>3, <3>1 DEF Inv, TypeOK
    <2> QED BY <2>2, <2>3
  <1>2. WaitingCount'
    BY <1>1, OneLessWaiter DEF Inv, CondTake
  <1>3. waiting > 0
    BY PositiveWaiting DEF Inv, CondTake
  <1>4. TypeOK'
    <2>1. waiting' \in Nat
      BY <1>3 DEF Inv, TypeOK, CondTake
    <2> QED BY <1>1, <2>1 DEF Inv, TypeOK, CondTake
  <1>5. MutualExclusion'
    <2>1. \A v \in Thread : pc[v] \notin Having
      BY DEF Inv, MutualExclusion, CondTake
    <2>2. \A v \in Thread : pc'[v] \in Having <=> v = t
      BY <1>1, <2>1 DEF Having
    <2> QED BY <2>2 DEF MutualExclusion, CondTake
  <1>6. RunningHolds' /\ NeverPointsToEnded' /\ NoLostWakeup'
    BY <1>1 DEF Inv, RunningHolds, NeverPointsToEnded, NoLostWakeup, CondTake
  <1>7. YieldProtocol'
    <2>1. \A v \in Thread :
            /\ pc'[v] \in Yielding <=> pc[v] \in Yielding
            /\ pc'[v] = "switch_wait" => pc[v] = "switch_wait"
      BY <1>1 DEF Yielding, CondTake
    <2>2. \A v \in Thread : pc'[v] # "switch"
      BY <1>1 DEF Inv, YieldProtocol, Yielding, CondTake
    <2> QED BY <2>1, <2>2 DEF Inv, YieldProtocol, CondTake
  <1> QED BY <1>1, <1>2, <1>4, <1>5, <1>6, <1>7 DEF Inv

\* A thread that comes out of gvl_yield and goes for the GVL again.
LEMMA ReacquireInv ==
    ASSUME Inv, NEW t \in Thread,
           NEW place \in [Thread -> Place],
           pc[t] \in {"out", "sched_yield", "switch_woken", "switch_wait_woken"},
           \A v \in Thread : place[v] # pc[v] =>
                                pc[v] = "switch_wait" /\ place[v] = "switch_wait_woken",
           gvl_acquire_common(t, place),
           UNCHANGED <<need_yield, running_thread, main_thread>>,
           wait_yield' \in BOOLEAN,
           pc[t] = "switch_woken" =>
               /\ ~need_yield /\ wait_yield' = FALSE
               /\ \A v \in Thread : place[v] # "switch_wait",
           pc[t] # "switch_woken" => UNCHANGED wait_yield
    PROVE  Inv'
  <1>1. /\ pc' = [place EXCEPT ![t] = pc'[t]]
        /\ pc'[t] \in {"resume", "cond"}
        /\ pc' \in [Thread -> Place]
    BY DEF gvl_acquire_common, Place
  <1>2. TypeOK'
    <2>1. waiting' \in Nat
      BY DEF Inv, TypeOK, gvl_acquire_common
    <2>2. acquired' \in BOOLEAN
      BY DEF Inv, TypeOK, gvl_acquire_common
    <2> QED BY <1>1, <2>1, <2>2 DEF Inv, TypeOK
  <1>3. WaitingCount'
    <2>1. CASE pc'[t] = "resume"
      <3>1. UNCHANGED waiting
        BY <2>1 DEF gvl_acquire_common
      <3> QED BY <1>1, <2>1, <3>1, SameWaiters DEF Inv
    <2>2. CASE pc'[t] = "cond"
      <3>1. waiting' = waiting + 1
        BY <2>2 DEF gvl_acquire_common
      <3> QED BY <1>1, <2>2, <3>1, OneMoreWaiter DEF Inv
    <2> QED BY <1>1, <2>1, <2>2
  <1>4. MutualExclusion'
    BY <1>1 DEF Inv, MutualExclusion, Having, gvl_acquire_common
  <1>5. RunningHolds' /\ NeverPointsToEnded' /\ NoLostWakeup'
    BY <1>1 DEF Inv, RunningHolds, NeverPointsToEnded, NoLostWakeup, gvl_acquire_common
  <1>6. YieldProtocol'
    <2>1. /\ \A v \in Thread \ {t} : pc'[v] \in Yielding <=> pc[v] \in Yielding
          /\ \A v \in Thread : pc'[v] = "switch" => pc[v] = "switch"
          /\ \A v \in Thread : pc'[v] = "switch_wait" =>
                                   pc[v] = "switch_wait" /\ place[v] = "switch_wait"
          /\ pc'[t] \notin Yielding
      BY <1>1 DEF Yielding
    <2>2. waiting > 0 => waiting' > 0
      BY DEF Inv, TypeOK, gvl_acquire_common
    <2>3. CASE pc[t] = "switch_woken"
      <3>1. \A v \in Thread : pc'[v] \notin Yielding
        BY <2>1, <2>3 DEF Inv, YieldProtocol, Yielding
      <3> QED BY <2>1, <2>3, <3>1 DEF Inv, YieldProtocol
    <2>4. CASE pc[t] # "switch_woken"
      <3>1. \A v \in Thread : pc'[v] \in Yielding <=> pc[v] \in Yielding
        BY <2>1, <2>4 DEF Yielding
      <3> QED BY <2>1, <2>2, <2>4, <3>1 DEF Inv, YieldProtocol
    <2> QED BY <2>3, <2>4
  <1> QED BY <1>2, <1>3, <1>4, <1>5, <1>6 DEF Inv

\* A step of one thread between two places that no conjunct tells apart but by
\* the sleep of the thread itself.
LEMMA MoveInv ==
    ASSUME Inv, NEW t \in Thread,
           \/ CondRecheck(t) \/ SwitchRecheck(t) \/ SwitchWaitRecheck(t)
           \/ SpuriousWakeup(t) \/ thread_create_core(t)
    PROVE  Inv'
  <1>1. WaitingCount'
    BY SameWaiters DEF Inv, TypeOK, CondRecheck, SwitchRecheck, SwitchWaitRecheck,
                       SpuriousWakeup, thread_create_core
  <1>2. CASE CondRecheck(t)
    BY <1>1, <1>2
      DEF CondRecheck, Inv, TypeOK, Place, MutualExclusion, RunningHolds,
          NeverPointsToEnded, NoLostWakeup, YieldProtocol, Having, Yielding
  <1>3. CASE SwitchRecheck(t)
    BY <1>1, <1>3
      DEF SwitchRecheck, Inv, TypeOK, Place, MutualExclusion, RunningHolds,
          NeverPointsToEnded, NoLostWakeup, YieldProtocol, Having, Yielding
  <1>4. CASE SwitchWaitRecheck(t)
    BY <1>1, <1>4
      DEF SwitchWaitRecheck, Inv, TypeOK, Place, MutualExclusion, RunningHolds,
          NeverPointsToEnded, NoLostWakeup, YieldProtocol, Having, Yielding
  <1>5. CASE SpuriousWakeup(t)
    BY <1>1, <1>5
      DEF SpuriousWakeup, Inv, TypeOK, Place, MutualExclusion, RunningHolds,
          NeverPointsToEnded, NoLostWakeup, YieldProtocol, Having, Yielding
  <1>6. CASE thread_create_core(t)
    BY <1>1, <1>6
      DEF thread_create_core, Inv, TypeOK, Place, MutualExclusion, RunningHolds,
          NeverPointsToEnded, NoLostWakeup, YieldProtocol, Having, Yielding
  <1> QED BY <1>2, <1>3, <1>4, <1>5, <1>6

\* The thread that has the GVL makes itself vm->running_thread.
LEMMA SetCurrentInv ==
    ASSUME Inv, NEW t \in Thread, rb_thread_set_current(t)
    PROVE  Inv'
  <1>1. WaitingCount'
    BY SameWaiters DEF Inv, TypeOK, rb_thread_set_current
  <1>2. \A v \in Thread \ {t} : pc[v] \notin Having
    BY DEF Inv, MutualExclusion, Having, rb_thread_set_current
  <1> QED BY <1>1, <1>2
      DEF rb_thread_set_current, Inv, TypeOK, Place, MutualExclusion, RunningHolds,
          NeverPointsToEnded, NoLostWakeup, YieldProtocol, Having, Yielding

\* The thread that ends clears vm->running_thread before it releases the GVL.
LEMMA ThreadEndInv ==
    ASSUME Inv, NEW t \in Thread, ThreadEnd(t)
    PROVE  Inv'
  <1>1. WaitingCount'
    BY SameWaiters DEF Inv, TypeOK, ThreadEnd
  <1>2. \A v \in Thread \ {t} : pc[v] \notin Having
    BY DEF Inv, MutualExclusion, Having, ThreadEnd
  <1> QED BY <1>1, <1>2, ThreadAssumption
      DEF ThreadEnd, Inv, TypeOK, Place, MutualExclusion, RunningHolds,
          NeverPointsToEnded, NoLostWakeup, YieldProtocol, Having, Yielding

\* The child of a fork starts over with one thread.
LEMMA ForkInv ==
    ASSUME Inv, NEW t \in Thread, gvl_atfork(t)
    PROVE  Inv'
  <1>1. Waiters' = {}
    BY DEF Waiters, gvl_atfork
  <1>2. WaitingCount'
    BY <1>1, FS_EmptySet DEF WaitingCount, gvl_atfork
  <1> QED BY <1>2
      DEF gvl_atfork, Inv, TypeOK, Place, MutualExclusion, RunningHolds,
          NeverPointsToEnded, NoLostWakeup, YieldProtocol, Having, Yielding

\* Steps of the rest of the program leave the invariant alone.
LEMMA StutterInv ==
    ASSUME Inv, UNCHANGED gvlVars
    PROVE  Inv'
  <1>1. WaitingCount'
    BY SameWaiters DEF Inv, gvlVars
  <1> QED BY <1>1
      DEF gvlVars, Inv, TypeOK, MutualExclusion, RunningHolds,
          NeverPointsToEnded, NoLostWakeup, YieldProtocol

\* The invariant is inductive: one step for each action of the GVL.
LEMMA NextInv == Inv /\ [Next]_gvlVars => Inv'
  <1> SUFFICES ASSUME Inv, [Next]_gvlVars PROVE Inv'
    OBVIOUS
  <1> USE DEF Place, Having, Yielding
  <1>1. CASE UNCHANGED gvlVars
    BY <1>1, StutterInv
  <1>2. ASSUME NEW t \in Thread, gvl_acquire(t) PROVE Inv'
    BY <1>2, ReacquireInv DEF gvl_acquire, Inv, TypeOK
  <1>3. ASSUME NEW t \in Thread, gvl_release(t) PROVE Inv'
    BY <1>3, PlainRelease DEF gvl_release
  <1>4. ASSUME NEW t \in Thread, gvl_yield(t) PROVE Inv'
    <2>1. CASE YieldBehindAnother(t)
      BY <2>1, PlainRelease DEF YieldBehindAnother
    <2>2. CASE YieldToWaiter(t)
      BY <2>2, YieldToWaiterInv
    <2>3. CASE YieldToNobody(t)
      BY <2>3, PlainRelease DEF YieldToNobody
    <2> QED BY <1>4, <2>1, <2>2, <2>3 DEF gvl_yield
  <1>5. ASSUME NEW t \in Thread, gvl_atfork(t) PROVE Inv'
    BY <1>5, ForkInv
  <1>6. ASSUME NEW t \in Thread, ThreadEnd(t) PROVE Inv'
    BY <1>6, ThreadEndInv
  <1>7. ASSUME NEW t \in Thread, ThreadExit(t) PROVE Inv'
    <2>1. running_thread # t
      BY <1>7 DEF ThreadExit, Inv, NeverPointsToEnded
    <2> QED BY <1>7, <2>1, PlainRelease DEF ThreadExit
  <1>8. ASSUME NEW t \in Thread,
               \/ CondRecheck(t) \/ SwitchRecheck(t) \/ SwitchWaitRecheck(t)
               \/ SpuriousWakeup(t) \/ thread_create_core(t)
        PROVE Inv'
    BY <1>8, MoveInv
  <1>9. ASSUME NEW t \in Thread, CondTake(t) PROVE Inv'
    BY <1>9, CondTakeInv
  <1>10. ASSUME NEW t \in Thread, rb_thread_set_current(t) PROVE Inv'
    BY <1>10, SetCurrentInv
  <1>11. ASSUME NEW t \in Thread, SwitchDone(t) \/ SchedYieldDone(t) PROVE Inv'
    <2> DEFINE place == native_cond_broadcast(pc, "switch_wait", "switch_wait_woken")
    <2>1. /\ place \in [Thread -> Place]
          /\ \A v \in Thread : place[v] # pc[v] =>
                                   pc[v] = "switch_wait" /\ place[v] = "switch_wait_woken"
          /\ \A v \in Thread : place[v] # "switch_wait"
      BY DEF native_cond_broadcast, Inv, TypeOK
    <2> HIDE DEF place
    <2>2. CASE SwitchDone(t)
      <3>1. gvl_acquire_common(t, place)
        BY <2>2 DEF SwitchDone, place
      <3> QED BY <2>1, <2>2, <3>1, ReacquireInv DEF SwitchDone
    <2>3. CASE SchedYieldDone(t)
      <3>1. gvl_acquire_common(t, place)
        BY <2>3 DEF SchedYieldDone, place
      <3> QED BY <2>1, <2>3, <3>1, ReacquireInv DEF SchedYieldDone, Inv, TypeOK
    <2> QED BY <1>11, <2>2, <2>3
  <1>12. ASSUME NEW t \in Thread, SwitchWaitDone(t) PROVE Inv'
    BY <1>12, ReacquireInv DEF SwitchWaitDone, Inv, TypeOK
  <1> QED BY <1>1, <1>2, <1>3, <1>4, <1>5, <1>6, <1>7, <1>8, <1>9, <1>10, <1>11, <1>12
       DEF Next, Use, Proceed

-----------------------------------------------------------------------------
(* The theorems. *)

\* Every reachable state of the GVL satisfies the inductive invariant.
THEOREM Invariance == Spec => []Inv
  <1>1. Init => Inv
    BY InitInv
  <1>2. Inv /\ [Next]_gvlVars => Inv'
    BY NextInv
  <1> QED BY <1>1, <1>2, PTL DEF Spec

\* The fields of vm->gvl keep their types: gvl.waiting, above all, never goes
\* below zero.
THEOREM TypeCorrect == Spec => []TypeOK
  BY Invariance, PTL DEF Inv

\* At most one thread has the GVL, and gvl.acquired says whether one has.
THEOREM GvlMutualExclusion == Spec => []MutualExclusion
  BY Invariance, PTL DEF Inv

\* vm->running_thread names the thread that runs Ruby code and never one that has ended.
THEOREM RunningThread == Spec => []RunningThreadIsValid
  <1>1. Inv => RunningThreadIsValid
    BY DEF Inv, RunningThreadIsValid
  <1> QED
    BY <1>1, Invariance, PTL

\* A free GVL with waiters has a waiter that was signalled.
THEOREM GvlNoLostWakeup == Spec => []NoLostWakeup
  BY Invariance, PTL DEF Inv

\* gvl.waiting is the number of waiters.
THEOREM GvlWaitingCount == Spec => []WaitingCount
  BY Invariance, PTL DEF Inv

\* The two flags of gvl_yield tell who sleeps in it.
THEOREM GvlYieldProtocol == Spec => []YieldProtocol
  BY Invariance, PTL DEF Inv
-----------------------------------------------------------------------------
(* The GVL implements GiantLock. *)

\* The main thread alone holds the lock, and nobody asks for it.
LEMMA InitRefines == Init => Lock!Init
  <1> SUFFICES ASSUME Init PROVE Lock!Init
    OBVIOUS
  <1>1. Holders = {main_thread} /\ Live = {main_thread} /\ Asking = {} /\ main_thread \in Thread
    BY DEF Init, Holders, Live, Asking, Having
  <1> QED BY <1>1 DEF Lock!Init

\* A thread that has the GVL is the only holder of the lock.
LEMMA SoleHolder ==
    ASSUME MutualExclusion, NEW t \in Thread, pc[t] \in Having
    PROVE  Holders = {t}
  BY DEF MutualExclusion, Holders

\* gvl_release_common gives the lock up; the thread goes on outside, ends, or goes on
\* asking, and the thread that is woken has asked before.
LEMMA ReleaseRefines ==
    ASSUME Inv, NEW t \in Thread, pc[t] \in Having,
           NEW next \in {"out", "dead", "switch_wait", "switch", "sched_yield"},
           pc' \in gvl_release_common(t, next)
    PROVE  Lock!Release(t) \/ Lock!Exit(t) \/ Lock!Yield(t)
  <1> USE DEF Inv
  <1>1. /\ pc[t] \notin {"cond", "cond_woken"}
        /\ next \in Place /\ next \notin {"cond", "cond_woken"}
    BY DEF Having, Place
  <1>2. /\ pc' \in [Thread -> Place]
        /\ pc'[t] = next
        /\ \A v \in Thread \ {t} : pc'[v] # pc[v] => pc[v] = "cond" /\ pc'[v] = "cond_woken"
    BY <1>1, ReleaseEffect
  <1>3. Holders = {t}
    BY SoleHolder
  <1>4. Holders' = {}
    BY <1>2, <1>3 DEF Holders, Having
  <1>5. Asking' = IF next \in {"out", "dead"} THEN Asking ELSE Asking \cup {t}
    BY <1>2 DEF Asking, Having
  <1>6. Live' = IF next = "dead" THEN Live \ {t} ELSE Live
    BY <1>2 DEF Live, Having
  <1> QED BY <1>3, <1>4, <1>5, <1>6 DEF Lock!Release, Lock!Exit, Lock!Yield

\* gvl_acquire_common, for a thread outside and for one that comes back from its yield:
\* it gets a free lock or asks for it.
LEMMA AcquireRefines ==
    ASSUME Inv, NEW t \in Thread,
           pc[t] \in {"out", "switch_woken", "sched_yield", "switch_wait_woken"},
           NEW place \in [Thread -> Place], gvl_acquire_common(t, place),
           \A v \in Thread : place[v] = pc[v]
                \/ (pc[v] = "switch_wait" /\ place[v] = "switch_wait_woken")
    PROVE  Lock!Ask(t) \/ Lock!Grant(t) \/ UNCHANGED Lock!lockVars
  <1> USE DEF Inv
  <1>1. CASE ~acquired
    <2>1. pc' = [place EXCEPT ![t] = "resume"]
      BY <1>1 DEF gvl_acquire_common
    <2>2. Holders = {}
      BY <1>1 DEF MutualExclusion, Holders
    <2>3. Holders' = {t}
      BY <2>1, <2>2 DEF Holders, Having
    <2>4. Asking' = Asking \ {t}
      BY <2>1, <2>2 DEF Asking, Having
    <2>5. Live' = Live /\ t \in Live
      BY <2>1 DEF Live
    <2>6. t \in Asking \/ Asking' = Asking
      BY <2>4
    <2> QED BY <2>2, <2>3, <2>4, <2>5, <2>6 DEF Lock!Ask, Lock!Grant
  <1>2. CASE acquired
    <2>1. pc' = [place EXCEPT ![t] = "cond"]
      BY <1>2 DEF gvl_acquire_common
    <2>2. Holders' = Holders /\ t \notin Holders
      BY <2>1 DEF Holders, Having
    <2>3. Asking' = Asking \cup {t}
      BY <2>1 DEF Asking, Having
    <2>4. Live' = Live /\ t \in Live
      BY <2>1 DEF Live
    <2>5. t \in Asking \/ t \notin Asking \cup Holders
      BY <2>2
    <2> QED BY <2>2, <2>3, <2>4, <2>5 DEF Lock!Ask, Lock!lockVars
  <1> QED BY <1>1, <1>2

\* A woken waiter that takes the GVL had asked for it.
LEMMA CondTakeRefines ==
    ASSUME Inv, NEW t \in Thread, CondTake(t)
    PROVE  Lock!Grant(t)
  <1> USE DEF Inv
  <1>1. /\ pc[t] = "cond_woken" /\ ~acquired
        /\ pc' \in [Thread -> Place]
        /\ pc'[t] = "resume"
        /\ \A v \in Thread \ {t} : pc'[v] = pc[v] \/ (pc[v] = "switch" /\ pc'[v] = "switch_woken")
    <2> DEFINE taken == [pc EXCEPT ![t] = "resume"]
    <2>1. taken \in [Thread -> Place] /\ "switch_woken" \in Place
      BY DEF TypeOK, Place
    <2>2. pc[t] = "cond_woken" /\ ~acquired
          /\ pc' \in IF need_yield THEN native_cond_signal(taken, "switch", "switch_woken")
                                   ELSE {taken}
      BY DEF CondTake
    <2>3. pc' = taken \/ \E u \in Thread : taken[u] = "switch" /\ pc' = [taken EXCEPT ![u] = "switch_woken"]
      BY <2>2 DEF native_cond_signal
    <2> QED BY <2>1, <2>2, <2>3 DEF TypeOK
  <1>2. Holders = {}
    BY <1>1 DEF MutualExclusion, Holders
  <1>3. Holders' = {t}
    BY <1>1, <1>2 DEF Holders, Having
  <1>4. Asking' = Asking \ {t} /\ t \in Asking
    BY <1>1, <1>2 DEF Asking, Having
  <1>5. Live' = Live
    BY <1>1 DEF Live
  <1> QED BY <1>2, <1>3, <1>4, <1>5 DEF Lock!Grant

\* A thread that goes from one place to another of the same kind is not seen from outside.
LEMMA Unseen ==
    ASSUME TypeOK, NEW t \in Thread, NEW next \in Place, pc' = [pc EXCEPT ![t] = next],
           \/ pc[t] \in Having /\ next \in Having
           \/ /\ pc[t] \notin Having \cup {"dead", "out"}
              /\ next \notin Having \cup {"dead", "out"}
    PROVE  UNCHANGED Lock!lockVars
  <1>1. Holders' = Holders
    BY DEF TypeOK, Holders
  <1>2. Asking' = Asking
    BY DEF TypeOK, Asking
  <1>3. Live' = Live
    BY DEF TypeOK, Live, Having
  <1> QED BY <1>1, <1>2, <1>3 DEF Lock!lockVars

\* Every step of the GVL is a step of the lock, or is not seen from outside.
LEMMA StepRefines == Inv /\ [Next]_gvlVars => [Lock!Next]_(Lock!lockVars)
  <1> SUFFICES ASSUME Inv, [Next]_gvlVars PROVE [Lock!Next]_(Lock!lockVars)
    OBVIOUS
  <1> USE DEF Inv
  <1>1. CASE UNCHANGED gvlVars
    BY <1>1 DEF gvlVars, Lock!lockVars, Holders, Asking, Live
  <1>2. ASSUME NEW t \in Thread, Use(t) PROVE [Lock!Next]_(Lock!lockVars)
    <2>1. CASE gvl_acquire(t)
      <3>1. pc \in [Thread -> Place] /\ pc[t] = "out" /\ gvl_acquire_common(t, pc)
        BY <2>1 DEF gvl_acquire, TypeOK
      <3> QED BY <3>1, AcquireRefines DEF Lock!Next
    <2>2. CASE gvl_release(t) \/ YieldBehindAnother(t) \/ YieldToWaiter(t) \/ YieldToNobody(t)
      <3>1. /\ pc[t] \in Having
            /\ \E next \in {"out", "dead", "switch_wait", "switch", "sched_yield"} :
                  pc' \in gvl_release_common(t, next)
        BY <2>2 DEF gvl_release, YieldBehindAnother, YieldToWaiter, YieldToNobody, Having
      <3> QED BY <3>1, ReleaseRefines DEF Lock!Next
    <2>3. CASE gvl_atfork(t)
      <3>1. Holders = {t}
        BY <2>3, SoleHolder DEF gvl_atfork, Having
      <3>2. Holders' = {t} /\ Asking' = {} /\ Live' = {t}
        BY <2>3 DEF gvl_atfork, Holders, Asking, Live, Having
      <3> QED BY <3>1, <3>2 DEF Lock!Fork, Lock!Next
    <2>4. CASE thread_create_core(t)
      <3>1. Holders # {} /\ t \notin Live
        BY <2>4 DEF thread_create_core, Holders, Having, Live
      <3>2. Holders' = Holders /\ Asking' = Asking
        BY <2>4 DEF thread_create_core, Holders, Asking, Having, TypeOK
      <3>3. Live' = Live \cup {t}
        BY <2>4 DEF thread_create_core, Live, TypeOK
      <3> QED BY <3>1, <3>2, <3>3 DEF Lock!Start, Lock!Next
    <2>5. CASE ThreadEnd(t)
      <3>1. pc' = [pc EXCEPT ![t] = "exit"] /\ pc[t] \in Having /\ "exit" \in Having \cap Place
        BY <2>5 DEF ThreadEnd, Having, Place
      <3> QED BY <3>1, Unseen
    <2> QED BY <1>2, <2>1, <2>2, <2>3, <2>4, <2>5 DEF Use, gvl_yield
  <1>3. ASSUME NEW t \in Thread, Proceed(t) PROVE [Lock!Next]_(Lock!lockVars)
    <2>1. CASE CondRecheck(t)
      BY <2>1, Unseen DEF CondRecheck, Having, Place
    <2>2. CASE CondTake(t)
      BY <2>2, CondTakeRefines DEF Lock!Next
    <2>3. CASE rb_thread_set_current(t)
      BY <2>3, Unseen DEF rb_thread_set_current, Having, Place
    <2>4. CASE SwitchRecheck(t)
      BY <2>4, Unseen DEF SwitchRecheck, Having, Place
    <2>5. CASE SwitchDone(t) \/ SchedYieldDone(t)
      <3> DEFINE place == native_cond_broadcast(pc, "switch_wait", "switch_wait_woken")
      <3>1. pc[t] \in {"switch_woken", "sched_yield"} /\ gvl_acquire_common(t, place)
        BY <2>5 DEF SwitchDone, SchedYieldDone
      <3>2. /\ place \in [Thread -> Place]
            /\ \A v \in Thread : place[v] = pc[v]
                  \/ (pc[v] = "switch_wait" /\ place[v] = "switch_wait_woken")
        BY DEF native_cond_broadcast, TypeOK, Place
      <3> HIDE DEF place
      <3> QED BY <3>1, <3>2, AcquireRefines DEF Lock!Next
    <2>6. CASE SwitchWaitRecheck(t)
      BY <2>6, Unseen DEF SwitchWaitRecheck, Having, Place
    <2>7. CASE SwitchWaitDone(t)
      <3>1. pc \in [Thread -> Place] /\ pc[t] = "switch_wait_woken" /\ gvl_acquire_common(t, pc)
        BY <2>7 DEF SwitchWaitDone, TypeOK
      <3> QED BY <3>1, AcquireRefines DEF Lock!Next
    <2> QED BY <1>3, <2>1, <2>2, <2>3, <2>4, <2>5, <2>6, <2>7 DEF Proceed
  <1>4. ASSUME NEW t \in Thread, ThreadExit(t) PROVE [Lock!Next]_(Lock!lockVars)
    <2>1. pc[t] \in Having /\ pc' \in gvl_release_common(t, "dead")
      BY <1>4 DEF ThreadExit, Having
    <2> QED BY <2>1, ReleaseRefines DEF Lock!Next
  <1>5. ASSUME NEW t \in Thread, SpuriousWakeup(t) PROVE [Lock!Next]_(Lock!lockVars)
    BY <1>5, Unseen DEF SpuriousWakeup, Having, Place
  <1> QED BY <1>1, <1>2, <1>3, <1>4, <1>5 DEF Next

\* The GVL implements a plain lock, for any number of threads: what gvl_acquire,
\* gvl_release, gvl_yield and gvl_atfork do with gvl.waiting, the yield flags and the
\* condition variables comes down to asking, granting and giving up.
THEOREM LockRefinement == Spec => ImplementsLock
  <1>1. Init => Lock!Init
    BY InitRefines
  <1>2. Inv /\ [Next]_gvlVars => [Lock!Next]_(Lock!lockVars)
    BY StepRefines
  <1> QED BY <1>1, <1>2, Invariance, PTL DEF Spec, Lock!Spec, ImplementsLock

-----------------------------------------------------------------------------
(* The inductive invariant of the GVL and the timer thread together. *)

\* From the moment the pipes are disowned until "validate pipe on this process".
Disowned == restart \in {"close", "join", "start", "validate"} => ~owner_process

\* Only the running thread interrupts others, and it does nothing else before
\* rb_thread_wakeup_timer_thread returns.
WritersHold == \A t \in Thread : write[t].pipe = "normal" => pc[t] = "hold"

\* A thread that has taken itself off the ubf list has the GVL until it clears its
\* unblock function, so that no other thread puts it back.
Unregistered ==
    \A t \in Thread : region[t] = "unregistered" =>
        pc[t] = "hold" /\ (t # main_thread => t \notin ubf_list)

\* What happens after the read of gvl->waiting, of the ubf list and of the signal
\* buffer comes with a wakeup.
WaitingSeen ==
    timer = "poll_forever" /\ ~ignored /\ waiting > 0 => Coming("low") \/ Coming("normal")
UbfSeen ==
    timer \in {"waiting_test", "poll_forever"} /\ ~ignored /\ ubf_list # {} => Coming("normal")
SignalSeen ==
    timer \in {"ubf_test", "waiting_test", "poll_forever"} /\ ~ignored /\ signal_buff > 0 =>
        Coming("normal") \/ "TRAP" \in flags[main_thread]

TimerInv ==
    /\ Inv /\ TimerTypeOK
    /\ Disowned /\ NoWriteWhileClosing
    /\ WritersHold /\ Unregistered /\ UbfListIsExact
    /\ WaitingSeen /\ UbfSeen /\ SignalSeen

-----------------------------------------------------------------------------
(* The steps of the GVL. *)

\* A thread that waits for the GVL or gives it up takes it from nobody.
LEMMA HoldersStay ==
    ASSUME Inv, NEW t \in Thread,
           \/ CondRecheck(t) \/ CondTake(t) \/ SwitchRecheck(t) \/ SwitchDone(t)
           \/ SchedYieldDone(t) \/ SwitchWaitRecheck(t) \/ SwitchWaitDone(t)
           \/ ThreadExit(t) \/ gvl_acquire(t) \/ gvl_release(t) \/ gvl_yield(t)
    PROVE  /\ \A v \in Thread \ {t} : pc[v] = "hold" => pc'[v] = "hold"
           /\ UNCHANGED main_thread
  <1> USE DEF Place, Inv, TypeOK
  <1>1. ASSUME NEW place \in [Thread -> Place], gvl_acquire_common(t, place),
               \A v \in Thread : pc[v] = "hold" => place[v] = "hold"
        PROVE  \A v \in Thread \ {t} : pc[v] = "hold" => pc'[v] = "hold"
    BY <1>1 DEF gvl_acquire_common
  <1>2. ASSUME NEW next \in Place, next \notin {"cond", "cond_woken"},
               pc[t] \notin {"cond", "cond_woken"}, pc' \in gvl_release_common(t, next)
        PROVE  \A v \in Thread \ {t} : pc[v] = "hold" => pc'[v] = "hold"
    <2>1. \A v \in Thread \ {t} : pc'[v] # pc[v] => pc[v] = "cond" /\ pc'[v] = "cond_woken"
      BY <1>2, ReleaseEffect
    <2> QED BY <2>1
  <1>3. CASE CondRecheck(t) \/ SwitchRecheck(t) \/ SwitchWaitRecheck(t)
    BY <1>3 DEF CondRecheck, SwitchRecheck, SwitchWaitRecheck
  <1>4. CASE CondTake(t)
    <2> DEFINE taken == [pc EXCEPT ![t] = "resume"]
    <2>1. \/ pc' = taken
          \/ \E u \in Thread : taken[u] = "switch" /\ pc' = [taken EXCEPT ![u] = "switch_woken"]
      BY <1>4 DEF CondTake, native_cond_signal
    <2> QED BY <1>4, <2>1 DEF CondTake
  <1>5. CASE SwitchDone(t) \/ SchedYieldDone(t)
    <2> DEFINE place == native_cond_broadcast(pc, "switch_wait", "switch_wait_woken")
    <2>1. place \in [Thread -> Place] /\ \A v \in Thread : pc[v] = "hold" => place[v] = "hold"
      BY DEF native_cond_broadcast
    <2>2. gvl_acquire_common(t, place) /\ UNCHANGED main_thread
      BY <1>5 DEF SwitchDone, SchedYieldDone
    <2> HIDE DEF place
    <2> QED BY <1>1, <2>1, <2>2
  <1>6. CASE SwitchWaitDone(t) \/ gvl_acquire(t)
    <2>1. gvl_acquire_common(t, pc) /\ UNCHANGED main_thread
      BY <1>6 DEF SwitchWaitDone, gvl_acquire
    <2> QED BY <1>1, <2>1
  <1>7. CASE ThreadExit(t) \/ gvl_release(t)
    <2>1. pc' \in gvl_release_common(t, "dead") \/ pc' \in gvl_release_common(t, "out")
      BY <1>7 DEF ThreadExit, gvl_release
    <2>2. pc[t] \in {"hold", "exit"} /\ UNCHANGED main_thread
      BY <1>7 DEF ThreadExit, gvl_release
    <2> QED BY <1>2, <2>1, <2>2
  <1>8. CASE gvl_yield(t)
    <2>1. \E next \in {"switch_wait", "switch", "sched_yield"} : pc' \in gvl_release_common(t, next)
      BY <1>8 DEF gvl_yield, YieldBehindAnother, YieldToWaiter, YieldToNobody
    <2>2. pc[t] = "hold" /\ UNCHANGED main_thread
      BY <1>8 DEF gvl_yield, YieldBehindAnother, YieldToWaiter, YieldToNobody
    <2> QED BY <1>2, <2>1, <2>2
  <1> QED BY <1>3, <1>4, <1>5, <1>6, <1>7, <1>8

\* The other steps leave the GVL alone.
LEMMA WhoMovesGvl ==
    ASSUME [TimerNext]_vars
    PROVE  \/ UNCHANGED gvlVars
           \/ \E t \in Thread : \/ gvl_xxx(t) \/ Acquire(t) \/ SetCurrent(t) \/ Create(t)
                                \/ End(t) \/ CheckInts(t) \/ blocking_region_begin(t)
  <1>1. CASE UNCHANGED vars
    BY <1>1 DEF vars
  <1>2. CASE thread_timer \/ PollInterrupted \/ sighandler \/ Restart
    BY <1>2 DEF thread_timer, PollInterrupted, sighandler, Restart, ubf_wakeup_all_threads,
                CloseReadEnds, timer_thread_function, NeedPolling, WaitingTest, PollTimeout,
                consume_communication_pipe, Disown, CloseWriteEnds, JoinTimer,
                rb_thread_create_timer_thread, ValidatePipe
  <1>3. ASSUME NEW a \in Writer, rb_thread_wakeup_timer_thread(a) PROVE UNCHANGED gvlVars
    BY <1>3 DEF rb_thread_wakeup_timer_thread, OwnerTest, Commit, WriteByte, Advance, Ignore,
                Return
  <1>4. ASSUME NEW t \in Thread,
               \/ StopWorking(t) \/ EnterSyscall(t) \/ SyscallDone(t) \/ blocking_region_end(t)
               \/ \E u \in Thread : rb_threadptr_interrupt(u, t)
        PROVE  UNCHANGED gvlVars
    BY <1>4 DEF StopWorking, EnterSyscall, SyscallDone, blocking_region_end, Goto,
                unregister_ubf_list, unblock_function_clear, rb_threadptr_interrupt
  <1> QED BY <1>1, <1>2, <1>3, <1>4 DEF TimerNext

\* Every step here is a step of the GVL or leaves it alone.
LEMMA GvlSteps ==
    ASSUME [TimerNext]_vars
    PROVE  [Next]_gvlVars
  <1>1. ASSUME NEW t \in Thread, gvl_xxx(t) \/ Acquire(t) \/ SetCurrent(t) \/ Create(t) \/ End(t)
        PROVE  Next
    BY <1>1 DEF gvl_xxx, Acquire, SetCurrent, Create, End, GvlStep, Next, Use, Proceed
  <1>2. ASSUME NEW t \in Thread, CheckInts(t) \/ blocking_region_begin(t)
        PROVE  [Next]_gvlVars
    BY <1>2 DEF CheckInts, blocking_region_begin, rb_thread_schedule_limits, Next, Use
  <1> QED BY <1>1, <1>2, WhoMovesGvl

-----------------------------------------------------------------------------
(* Types. *)

\* A call of rb_thread_wakeup_timer_thread keeps the type of write.
LEMMA WriteType ==
    ASSUME TimerTypeOK, NEW a \in Writer, NEW pipe \in {"normal", "low"},
           NEW victim \in Thread \cup {NoThread}, WriteTo(a, pipe, victim)
    PROVE  write' \in [Writer -> [stage : {"idle", "test", "inc", "write"},
                                  pipe : {"none", "normal", "low"},
                                  victim : Thread \cup {NoThread}]]
  BY DEF TimerTypeOK, WriteTo

\* So does every step of it, and pthread_kill keeps the type of region.
LEMMA WakeupType ==
    ASSUME TimerTypeOK, NEW a \in Writer, rb_thread_wakeup_timer_thread(a)
    PROVE  TimerTypeOK'
  <1> DEFINE Record == [stage : {"idle", "test", "inc", "write"},
                        pipe : {"none", "normal", "low"},
                        victim : Thread \cup {NoThread}]
  <1>1. write \in [Writer -> Record] /\ write[a] \in Record
    BY DEF TimerTypeOK
  <1>2. CASE Return(a)
    <2>1. write' \in [Writer -> Record]
      BY <1>1, <1>2 DEF Return, Idle
    <2>2. region' \in [Thread -> {"none", "before", "syscall", "after", "unregistered"}]
      BY <1>2 DEF Return, ubf_wakeup_thread, TimerTypeOK
    <2>3. normal' \in BOOLEAN /\ low' \in BOOLEAN /\ ignored' \in BOOLEAN
      <3>1. CASE Ignore(a)
        BY <3>1 DEF Ignore, TimerTypeOK
      <3>2. CASE WriteByte(a)
        BY <3>2 DEF WriteByte, TimerTypeOK
      <3>3. CASE \E stage : Advance(a, stage)
        BY <3>3 DEF Advance, TimerTypeOK
      <3> QED BY <3>1, <3>2, <3>3 DEF rb_thread_wakeup_timer_thread, OwnerTest, Commit
    <2> QED BY <1>2, <2>1, <2>2, <2>3 DEF Return, stopVars, gvlVars, TimerTypeOK, TypeOK
  <1>3. CASE Advance(a, "inc") \/ Advance(a, "write")
    <2>1. write' \in [Writer -> Record]
      BY <1>1, <1>3 DEF Advance
    <2> QED BY <1>3, <2>1 DEF Advance, schedVars, stopVars, gvlVars, TimerTypeOK, TypeOK
  <1> QED BY <1>2, <1>3 DEF rb_thread_wakeup_timer_thread, OwnerTest, Commit, WriteByte, Ignore

\* The timer thread and the signal handler.
LEMMA TimerLoopType ==
    ASSUME TimerTypeOK, thread_timer \/ PollInterrupted \/ sighandler
    PROVE  TimerTypeOK'
  <1> USE DEF TimerTypeOK, schedVars, stopVars, gvlVars
  <1>1. TypeOK'
    BY DEF TypeOK, thread_timer, PollInterrupted, sighandler, ubf_wakeup_all_threads,
           CloseReadEnds, timer_thread_function, NeedPolling, WaitingTest, PollTimeout,
           consume_communication_pipe
  <1>2. CASE ubf_wakeup_all_threads
    BY <1>1, <1>2 DEF ubf_wakeup_all_threads, ubf_wakeup_thread
  <1>3. CASE CloseReadEnds \/ NeedPolling \/ WaitingTest \/ PollTimeout \/ PollInterrupted
    BY <1>1, <1>3 DEF CloseReadEnds, NeedPolling, WaitingTest, PollTimeout, PollInterrupted
  <1>4. CASE timer_thread_function
    <2>1. flags' \in [Thread -> SUBSET {"TIMER", "PENDING", "TRAP"}]
      BY <1>4 DEF timer_thread_function
    <2>2. /\ region' \in [Thread -> {"none", "before", "syscall", "after", "unregistered"}]
          /\ ubf_list' \subseteq Thread
      BY <1>4 DEF timer_thread_function, rb_threadptr_check_signal, ubf_wakeup_thread, TypeOK
    <2> QED BY <1>1, <1>4, <2>1, <2>2 DEF timer_thread_function
  <1>5. CASE consume_communication_pipe
    BY <1>1, <1>5 DEF consume_communication_pipe
  <1>6. CASE sighandler
    <2>1. write' \in [Writer -> [stage : {"idle", "test", "inc", "write"},
                                 pipe : {"none", "normal", "low"},
                                 victim : Thread \cup {NoThread}]]
      BY <1>6, WriteType DEF sighandler, Writer
    <2>2. signal_buff' \in 0..MaxSignals
      BY <1>6, TimerAssumption DEF sighandler
    <2> QED BY <1>1, <1>6, <2>1, <2>2 DEF sighandler
  <1> QED BY <1>2, <1>3, <1>4, <1>5, <1>6 DEF thread_timer

\* The stop and restart of the timer thread.
LEMMA RestartType ==
    ASSUME TimerTypeOK, Restart \/ \E t \in Thread : StopWorking(t)
    PROVE  TimerTypeOK'
  <1> USE DEF TimerTypeOK, schedVars, stopVars, gvlVars
  <1>0. TypeOK'
    BY DEF TypeOK, Restart, StopWorking, Disown, CloseWriteEnds, JoinTimer,
           rb_thread_create_timer_thread, ValidatePipe
  <1>1. CASE \E t \in Thread : StopWorking(t)
    BY <1>0, <1>1 DEF StopWorking
  <1>2. CASE Disown
    BY <1>0, <1>2 DEF Disown
  <1>3. CASE CloseWriteEnds
    BY <1>0, <1>3 DEF CloseWriteEnds
  <1>4. CASE JoinTimer
    BY <1>0, <1>4 DEF JoinTimer
  <1>5. CASE rb_thread_create_timer_thread
    BY <1>0, <1>5 DEF rb_thread_create_timer_thread
  <1>6. CASE ValidatePipe
    BY <1>0, <1>6 DEF ValidatePipe
  <1> QED BY <1>1, <1>2, <1>3, <1>4, <1>5, <1>6 DEF Restart

\* The Ruby threads.
LEMMA ThreadStepType ==
    ASSUME TimerTypeOK, TypeOK', NEW t \in Thread,
           \/ gvl_xxx(t) \/ Acquire(t) \/ SetCurrent(t) \/ Create(t) \/ End(t)
           \/ CheckInts(t) \/ blocking_region_begin(t) \/ EnterSyscall(t) \/ SyscallDone(t)
           \/ blocking_region_end(t)
           \/ \E u \in Thread : rb_threadptr_interrupt(u, t)
    PROVE  TimerTypeOK'
  <1> USE DEF TimerTypeOK, schedVars, stopVars
  <1>1. CASE gvl_xxx(t) \/ Acquire(t)
    <2>1. WriteTo(t, "low", NoThread) \/ UNCHANGED write
      BY <1>1 DEF gvl_xxx, Acquire, GvlStep
    <2>2. write' \in [Writer -> [stage : {"idle", "test", "inc", "write"},
                                 pipe : {"none", "normal", "low"},
                                 victim : Thread \cup {NoThread}]]
      BY <2>1, WriteType DEF Writer
    <2> QED BY <1>1, <2>2 DEF gvl_xxx, Acquire
  <1>2. CASE SetCurrent(t)
    BY <1>2, TimerAssumption DEF SetCurrent
  <1>3. CASE Create(t)
    BY <1>3 DEF Create
  <1>4. CASE End(t)
    BY <1>4 DEF End
  <1>5. CASE CheckInts(t)
    <2>1. running_time' \in 0..(Quanta - 1)
      <3>1. \/ UNCHANGED running_time
            \/ running_time' = IF running_time + 1 >= Quanta THEN running_time ELSE running_time + 1
        BY <1>5 DEF CheckInts, rb_thread_schedule_limits
      <3> QED BY <3>1, TimerAssumption
    <2>2. signal_buff' \in 0..MaxSignals
      BY <1>5, TimerAssumption DEF CheckInts
    <2> QED BY <1>5, <2>1, <2>2 DEF CheckInts
  <1>6. CASE blocking_region_begin(t)
    BY <1>6 DEF blocking_region_begin
  <1>7. CASE EnterSyscall(t) \/ SyscallDone(t) \/ blocking_region_end(t)
    BY <1>7 DEF EnterSyscall, SyscallDone, blocking_region_end, unregister_ubf_list,
                unblock_function_clear, Goto
  <1>8. ASSUME NEW u \in Thread, rb_threadptr_interrupt(u, t) PROVE TimerTypeOK'
    <2>1. WriteTo(u, "normal", t) \/ UNCHANGED write
      BY <1>8 DEF rb_threadptr_interrupt
    <2>2. write' \in [Writer -> [stage : {"idle", "test", "inc", "write"},
                                 pipe : {"none", "normal", "low"},
                                 victim : Thread \cup {NoThread}]]
      BY <2>1, WriteType DEF Writer
    <2> QED BY <1>8, <2>2 DEF rb_threadptr_interrupt
  <1> QED BY <1>1, <1>2, <1>3, <1>4, <1>5, <1>6, <1>7, <1>8

\* The type invariant.
LEMMA TypeStep ==
    ASSUME Inv, TimerTypeOK, [TimerNext]_vars
    PROVE  TimerTypeOK'
  <1>1. TypeOK'
    BY GvlSteps, NextInv DEF Inv
  <1>2. CASE UNCHANGED vars
    BY <1>1, <1>2 DEF vars, TimerTypeOK, schedVars, stopVars
  <1>3. CASE TimerNext
    BY <1>1, <1>3, WakeupType, TimerLoopType, RestartType, ThreadStepType DEF TimerNext
  <1> QED BY <1>2, <1>3

-----------------------------------------------------------------------------
(* Stopping the timer thread. *)

\* Only before_exec and after_exec touch the pipes and their owner.
LEMMA OthersLeaveThePipes ==
    ASSUME [TimerNext]_vars
    PROVE  UNCHANGED stopVars \/ Restart \/ \E t \in Thread : StopWorking(t)
  <1>1. CASE UNCHANGED vars
    BY <1>1 DEF vars
  <1>2. CASE thread_timer \/ PollInterrupted \/ sighandler
    BY <1>2 DEF thread_timer, PollInterrupted, sighandler, ubf_wakeup_all_threads,
                CloseReadEnds, timer_thread_function, NeedPolling, WaitingTest, PollTimeout,
                consume_communication_pipe
  <1>3. ASSUME NEW a \in Writer, rb_thread_wakeup_timer_thread(a) PROVE UNCHANGED stopVars
    BY <1>3 DEF rb_thread_wakeup_timer_thread, OwnerTest, Commit, WriteByte, Advance, Ignore,
                Return
  <1>4. ASSUME NEW t \in Thread,
               \/ gvl_xxx(t) \/ Acquire(t) \/ SetCurrent(t) \/ Create(t) \/ End(t)
               \/ CheckInts(t) \/ blocking_region_begin(t) \/ EnterSyscall(t) \/ SyscallDone(t)
               \/ blocking_region_end(t)
               \/ \E u \in Thread : rb_threadptr_interrupt(u, t)
        PROVE  UNCHANGED stopVars
    BY <1>4 DEF gvl_xxx, Acquire, SetCurrent, Create, End, CheckInts, blocking_region_begin,
                EnterSyscall, SyscallDone, blocking_region_end, Goto, unregister_ubf_list,
                unblock_function_clear, rb_threadptr_interrupt
  <1> QED BY <1>1, <1>2, <1>3, <1>4 DEF TimerNext

\* The pipes belong to nobody until the restart is over.
LEMMA DisownedStep ==
    ASSUME Disowned, [TimerNext]_vars
    PROVE  Disowned'
  <1>1. CASE UNCHANGED stopVars
    BY <1>1 DEF stopVars, Disowned
  <1>2. CASE Restart \/ \E t \in Thread : StopWorking(t)
    BY <1>2 DEF Disowned, Restart, StopWorking, Disown, CloseWriteEnds, JoinTimer,
                rb_thread_create_timer_thread, ValidatePipe
  <1> QED BY <1>1, <1>2, OthersLeaveThePipes

\* Where write can change.
LEMMA WhoWrites ==
    ASSUME TimerTypeOK, [TimerNext]_vars
    PROVE  \/ UNCHANGED write
           \/ \E a \in Writer : rb_thread_wakeup_timer_thread(a)
           \/ sighandler
           \/ \E t \in Thread : gvl_xxx(t) \/ Acquire(t)
           \/ \E t, u \in Thread : rb_threadptr_interrupt(u, t)
  <1>1. CASE UNCHANGED vars
    BY <1>1 DEF vars
  <1>2. CASE thread_timer \/ PollInterrupted \/ Restart
    BY <1>2 DEF thread_timer, PollInterrupted, ubf_wakeup_all_threads,
                CloseReadEnds, timer_thread_function, NeedPolling, WaitingTest, PollTimeout,
                consume_communication_pipe, Restart, Disown, CloseWriteEnds, JoinTimer,
                rb_thread_create_timer_thread, ValidatePipe
  <1>3. ASSUME NEW t \in Thread,
               \/ SetCurrent(t) \/ Create(t) \/ End(t) \/ StopWorking(t)
               \/ CheckInts(t) \/ blocking_region_begin(t) \/ EnterSyscall(t) \/ SyscallDone(t)
               \/ blocking_region_end(t)
        PROVE  UNCHANGED write
    BY <1>3 DEF SetCurrent, Create, End, CheckInts, blocking_region_begin, StopWorking,
                EnterSyscall, SyscallDone, blocking_region_end, Goto, unregister_ubf_list,
                unblock_function_clear
  <1> QED BY <1>1, <1>2, <1>3 DEF TimerNext

\* A writer that is new, or goes on, in a step: it commits itself only while the
\* process owns the pipes.
LEMMA CommitsToOwned ==
    ASSUME TimerTypeOK, [TimerNext]_vars, NEW a \in Writer,
           write'[a].stage = "write", write[a].stage # "write"
    PROVE  owner_process
  <1>1. ASSUME NEW b \in Writer, rb_thread_wakeup_timer_thread(b) PROVE owner_process
    <2>1. CASE Return(b)
      BY <2>1 DEF Return, TimerTypeOK, Idle
    <2>2. CASE Advance(b, "inc")
      BY <2>2 DEF Advance, TimerTypeOK
    <2> QED BY <1>1, <2>1, <2>2 DEF rb_thread_wakeup_timer_thread, OwnerTest, Commit, WriteByte,
                                    Ignore
  <1>2. ASSUME NEW b \in Writer, NEW pipe, NEW victim, WriteTo(b, pipe, victim) PROVE FALSE
    BY <1>2 DEF WriteTo, TimerTypeOK
  <1>3. ASSUME NEW t \in Thread, gvl_xxx(t) \/ Acquire(t) PROVE FALSE
    <2>1. WriteTo(t, "low", NoThread) \/ UNCHANGED write
      BY <1>3 DEF gvl_xxx, Acquire, GvlStep
    <2> QED BY <1>2, <2>1 DEF Writer
  <1>4. ASSUME NEW t \in Thread, NEW u \in Thread, rb_threadptr_interrupt(u, t) PROVE FALSE
    BY <1>2, <1>4 DEF rb_threadptr_interrupt, Writer
  <1>5. CASE sighandler
    BY <1>2, <1>5 DEF sighandler, Writer
  <1> QED BY <1>1, <1>3, <1>4, <1>5, WhoWrites

\* No pipe is closed under a writer.
LEMMA ClosingStep ==
    ASSUME TimerTypeOK, Disowned, NoWriteWhileClosing, [TimerNext]_vars
    PROVE  NoWriteWhileClosing'
  <1>1. CASE UNCHANGED stopVars
    <2>1. restart = "join" => ~owner_process
      BY DEF Disowned
    <2> QED BY <1>1, <2>1, CommitsToOwned DEF stopVars, NoWriteWhileClosing
  <1>2. CASE Restart \/ \E t \in Thread : StopWorking(t)
    BY <1>2 DEF NoWriteWhileClosing, Restart, StopWorking, Disown, CloseWriteEnds, JoinTimer,
                rb_thread_create_timer_thread, ValidatePipe, Writing
  <1> QED BY <1>1, <1>2, OthersLeaveThePipes

-----------------------------------------------------------------------------
(* Who has the GVL. *)

\* A thread that is not Running Ruby code keeps the GVL if it has it, and the main
\* thread stays the main thread.
LEMMA KeepsGvl ==
    ASSUME Inv, [TimerNext]_vars
    PROVE  /\ UNCHANGED main_thread
           /\ \A v \in Thread : pc[v] = "hold" /\ ~Running(v) => pc'[v] = "hold"
  <1> DEFINE Kept == /\ UNCHANGED main_thread
                     /\ \A v \in Thread : pc[v] = "hold" /\ ~Running(v) => pc'[v] = "hold"
  <1> SUFFICES Kept
    OBVIOUS
  <1>1. CASE UNCHANGED gvlVars
    BY <1>1 DEF gvlVars
  <1>2. ASSUME NEW t \in Thread, gvl_xxx(t) \/ Acquire(t) PROVE Kept
    <2>1. \/ CondRecheck(t) \/ CondTake(t) \/ SwitchRecheck(t) \/ SwitchDone(t)
          \/ SchedYieldDone(t) \/ SwitchWaitRecheck(t) \/ SwitchWaitDone(t)
          \/ ThreadExit(t) \/ gvl_acquire(t)
      BY <1>2 DEF gvl_xxx, Acquire, GvlStep
    <2>2. pc[t] # "hold"
      BY <2>1 DEF CondRecheck, CondTake, SwitchRecheck, SwitchDone, SchedYieldDone,
                  SwitchWaitRecheck, SwitchWaitDone, ThreadExit, gvl_acquire
    <2> QED BY <2>1, <2>2, HoldersStay
  <1>3. ASSUME NEW t \in Thread, SetCurrent(t) \/ Create(t) \/ End(t) PROVE Kept
    BY <1>3 DEF SetCurrent, Create, End, rb_thread_set_current, thread_create_core, ThreadEnd,
                Inv, TypeOK
  <1>4. ASSUME NEW t \in Thread, CheckInts(t) \/ blocking_region_begin(t) PROVE Kept
    <2>1. UNCHANGED gvlVars \/ gvl_yield(t) \/ gvl_release(t)
      BY <1>4 DEF CheckInts, blocking_region_begin, rb_thread_schedule_limits
    <2>2. Running(t)
      BY <1>4 DEF CheckInts, blocking_region_begin
    <2> QED BY <1>1, <2>1, <2>2, HoldersStay
  <1> QED BY <1>1, <1>2, <1>3, <1>4, WhoMovesGvl

\* A thread that interrupts another has the GVL until the timer thread is told.
LEMMA WritersHoldStep ==
    ASSUME Inv, TimerTypeOK, WritersHold, [TimerNext]_vars
    PROVE  WritersHold'
  <1> SUFFICES ASSUME NEW v \in Thread, write'[v].pipe = "normal" PROVE pc'[v] = "hold"
    BY DEF WritersHold
  <1>0. v \in Writer /\ Handler \notin Thread
    BY TimerAssumption DEF Writer
  <1>1. ASSUME write[v].pipe = "normal" PROVE pc'[v] = "hold"
    <2>1. write[v] # Idle /\ pc[v] = "hold"
      BY <1>1 DEF Idle, WritersHold
    <2> QED BY <2>1, KeepsGvl DEF Running
  <1>2. ASSUME NEW a \in Writer, rb_thread_wakeup_timer_thread(a) PROVE write[v].pipe = "normal"
    <2>1. CASE Return(a)
      BY <1>0, <2>1 DEF Return, TimerTypeOK, Idle
    <2>2. CASE Advance(a, "inc") \/ Advance(a, "write")
      BY <1>0, <2>2 DEF Advance, TimerTypeOK
    <2> QED BY <1>2, <2>1, <2>2 DEF rb_thread_wakeup_timer_thread, OwnerTest, Commit, WriteByte,
                                    Ignore
  <1>3. CASE sighandler
    BY <1>0, <1>1, <1>3 DEF sighandler, WriteTo, TimerTypeOK
  <1>4. ASSUME NEW t \in Thread, gvl_xxx(t) \/ Acquire(t) PROVE write[v].pipe = "normal"
    <2>1. WriteTo(t, "low", NoThread) \/ UNCHANGED write
      BY <1>4 DEF gvl_xxx, Acquire, GvlStep
    <2> QED BY <1>0, <2>1 DEF WriteTo, TimerTypeOK
  <1>5. ASSUME NEW t \in Thread, NEW u \in Thread, rb_threadptr_interrupt(u, t)
        PROVE  pc'[v] = "hold"
    <2>1. WriteTo(u, "normal", t) \/ UNCHANGED write
      BY <1>5 DEF rb_threadptr_interrupt
    <2>2. v = u \/ write[v].pipe = "normal"
      BY <1>0, <2>1 DEF WriteTo, TimerTypeOK
    <2>3. pc'[u] = "hold"
      BY <1>5 DEF rb_threadptr_interrupt, Running, gvlVars
    <2> QED BY <1>1, <2>2, <2>3
  <1> QED BY <1>1, <1>2, <1>3, <1>4, <1>5, WhoWrites

-----------------------------------------------------------------------------
(* The ubf list. *)

\* What a step does to the regions and to the ubf list.
LEMMA WhoMovesRegions ==
    ASSUME TimerTypeOK, [TimerNext]_vars
    PROVE  \/ UNCHANGED <<region, ubf_list, flags>>
           \/ \E ts \in SUBSET Thread : ubf_wakeup_thread(ts) /\ UNCHANGED <<ubf_list, flags>>
           \/ timer_thread_function
           \/ \E t \in Thread : \/ End(t) \/ CheckInts(t) \/ blocking_region_begin(t)
                                \/ EnterSyscall(t) \/ SyscallDone(t) \/ blocking_region_end(t)
                                \/ \E u \in Thread : rb_threadptr_interrupt(u, t)
  <1> USE DEF schedVars
  <1>1. CASE UNCHANGED vars
    BY <1>1 DEF vars
  <1>2. CASE ubf_wakeup_all_threads
    BY <1>2 DEF ubf_wakeup_all_threads, TimerTypeOK
  <1>3. CASE \/ CloseReadEnds \/ NeedPolling \/ WaitingTest \/ PollTimeout \/ PollInterrupted
             \/ consume_communication_pipe \/ sighandler \/ Restart
    BY <1>3 DEF CloseReadEnds, NeedPolling, WaitingTest, PollTimeout, PollInterrupted,
                consume_communication_pipe, sighandler, Restart, Disown, CloseWriteEnds, JoinTimer,
                rb_thread_create_timer_thread, ValidatePipe
  <1>4. ASSUME NEW a \in Writer, rb_thread_wakeup_timer_thread(a)
        PROVE  \/ UNCHANGED <<region, ubf_list, flags>>
               \/ \E ts \in SUBSET Thread : ubf_wakeup_thread(ts) /\ UNCHANGED <<ubf_list, flags>>
    <2>1. CASE Return(a)
      <3> DEFINE ts == {write[a].victim} \cap Thread
      <3>1. ubf_wakeup_thread(ts) /\ UNCHANGED <<ubf_list, flags>>
        BY <2>1 DEF Return, ubf_wakeup_thread
      <3> QED BY <3>1
    <2>2. CASE Advance(a, "inc") \/ Advance(a, "write")
      BY <2>2 DEF Advance
    <2> QED BY <1>4, <2>1, <2>2 DEF rb_thread_wakeup_timer_thread, OwnerTest, Commit, WriteByte,
                                    Ignore
  <1>5. ASSUME NEW t \in Thread,
               gvl_xxx(t) \/ Acquire(t) \/ SetCurrent(t) \/ Create(t) \/ StopWorking(t)
        PROVE  UNCHANGED <<region, ubf_list, flags>>
    BY <1>5 DEF gvl_xxx, Acquire, SetCurrent, Create, StopWorking
  <1> QED BY <1>1, <1>2, <1>3, <1>4, <1>5 DEF TimerNext, thread_timer

\* A thread that has unregistered itself is not put back.
LEMMA UnregisteredStep ==
    ASSUME Inv, TimerTypeOK, Unregistered, [TimerNext]_vars
    PROVE  Unregistered'
  <1> SUFFICES ASSUME NEW v \in Thread, region'[v] = "unregistered"
               PROVE  pc'[v] = "hold" /\ (v # main_thread' => v \notin ubf_list')
    BY DEF Unregistered
  <1>0. UNCHANGED main_thread
    BY KeepsGvl
  <1>1. ASSUME region[v] = "unregistered", v \in ubf_list' => v = main_thread \/ v \in ubf_list
        PROVE  pc'[v] = "hold" /\ (v # main_thread' => v \notin ubf_list')
    <2>1. pc[v] = "hold" /\ ~Running(v)
      BY <1>1 DEF Unregistered, Running
    <2> QED BY <1>0, <1>1, <2>1, KeepsGvl DEF Unregistered
  <1>2. CASE UNCHANGED <<region, ubf_list, flags>>
    BY <1>1, <1>2
  <1>3. ASSUME NEW ts \in SUBSET Thread, ubf_wakeup_thread(ts), UNCHANGED <<ubf_list, flags>>
        PROVE  region[v] = "unregistered"
    BY <1>3 DEF ubf_wakeup_thread
  <1>4. CASE timer_thread_function
    <2>1. region[v] = "unregistered" /\ (v \in ubf_list' => v = main_thread \/ v \in ubf_list)
      BY <1>4 DEF timer_thread_function, rb_threadptr_check_signal, ubf_wakeup_thread
    <2> QED BY <1>1, <2>1
  <1>5. ASSUME NEW t \in Thread, End(t) \/ CheckInts(t)
        PROVE  UNCHANGED <<region, ubf_list>>
    BY <1>5 DEF End, CheckInts
  <1>6. ASSUME NEW t \in Thread, blocking_region_begin(t) \/ EnterSyscall(t) \/ SyscallDone(t)
                                 \/ unblock_function_clear(t)
        PROVE  region[v] = "unregistered" /\ UNCHANGED ubf_list
    BY <1>6 DEF blocking_region_begin, EnterSyscall, SyscallDone, Goto, TimerTypeOK,
                unblock_function_clear
  <1>7. ASSUME NEW t \in Thread, unregister_ubf_list(t)
        PROVE  pc'[v] = "hold" /\ (v # main_thread' => v \notin ubf_list')
    <2>1. CASE v = t
      BY <1>7, <2>1 DEF unregister_ubf_list, Goto, gvlVars
    <2>2. CASE v # t
      <3>1. region[v] = "unregistered" /\ (v \in ubf_list' => v \in ubf_list)
        BY <1>7, <2>2 DEF unregister_ubf_list, Goto, TimerTypeOK
      <3> QED BY <1>1, <3>1
    <2> QED BY <2>1, <2>2
  <1>8. ASSUME NEW t \in Thread, NEW u \in Thread, rb_threadptr_interrupt(u, t)
        PROVE  region[v] = "unregistered" /\ (v \in ubf_list' => v \in ubf_list)
    <2>1. UNCHANGED region /\ (v \in ubf_list' => v \in ubf_list \/ v = t)
      BY <1>8 DEF rb_threadptr_interrupt
    <2>2. region[v] = "unregistered" /\ pc[v] = "hold"
      BY <2>1 DEF Unregistered
    <2>3. v # t
      BY <1>8, <2>2 DEF rb_threadptr_interrupt, Running, Inv, MutualExclusion, Having
    <2> QED BY <2>1, <2>2, <2>3
  <1> QED BY <1>1, <1>2, <1>3, <1>4, <1>5, <1>6, <1>7, <1>8, WhoMovesRegions
       DEF blocking_region_end

\* The ubf list is exact.
LEMMA UbfListStep ==
    ASSUME Inv, TimerTypeOK, Unregistered, UbfListIsExact, [TimerNext]_vars
    PROVE  UbfListIsExact'
  <1>0. UNCHANGED main_thread /\ main_thread \in Thread
    BY KeepsGvl DEF Inv, TypeOK
  <1> USE DEF UbfListIsExact, Unblockable, TimerTypeOK
  <1>1. CASE UNCHANGED <<region, ubf_list, flags>>
    BY <1>0, <1>1
  <1>2. ASSUME NEW ts \in SUBSET Thread, ubf_wakeup_thread(ts), UNCHANGED <<ubf_list, flags>>
        PROVE  UbfListIsExact'
    BY <1>0, <1>2 DEF ubf_wakeup_thread
  <1>3. CASE timer_thread_function
    <2>1. /\ \A v \in Thread : region'[v] # "none" <=> region[v] # "none"
          /\ \A v \in Thread : region'[v] \in {"before", "syscall"}
                                  => region[v] \in {"before", "syscall"}
      BY <1>3 DEF timer_thread_function, rb_threadptr_check_signal, ubf_wakeup_thread
    <2>2. ubf_list \subseteq ubf_list' /\ ubf_list' \subseteq ubf_list \cup {main_thread}
      BY <1>3 DEF timer_thread_function, rb_threadptr_check_signal
    <2>3. \A v \in Thread : v # main_thread =>
            flags'[v] \cap {"PENDING", "TRAP"} = flags[v] \cap {"PENDING", "TRAP"}
      BY <1>3 DEF timer_thread_function
    <2>4. \/ flags'[main_thread] \cap {"PENDING", "TRAP"}
             = flags[main_thread] \cap {"PENDING", "TRAP"}
          \/ signal_buff > 0
      BY <1>0, <1>3 DEF timer_thread_function
    <2>5. signal_buff > 0 /\ region[main_thread] # "none" => main_thread \in ubf_list'
      BY <1>3 DEF timer_thread_function, rb_threadptr_check_signal
    <2>6. \A v \in ubf_list' : v # main_thread' => region'[v] # "none"
      BY <1>0, <2>1, <2>2
    <2>7. ASSUME NEW v \in Thread, region'[v] \in {"before", "syscall"},
                 flags'[v] \cap {"PENDING", "TRAP"} # {}
          PROVE  v \in ubf_list'
      <3>1. CASE v # main_thread
        BY <2>1, <2>2, <2>3, <2>7, <3>1
      <3>2. CASE v = main_thread
        BY <2>1, <2>2, <2>4, <2>5, <2>7, <3>2
      <3> QED BY <3>1, <3>2
    <2> QED BY <2>6, <2>7
  <1>4. ASSUME NEW t \in Thread, End(t) \/ CheckInts(t)
        PROVE  UbfListIsExact'
    BY <1>0, <1>4 DEF End, CheckInts
  <1>5. ASSUME NEW t \in Thread, blocking_region_begin(t)
        PROVE  UbfListIsExact'
    BY <1>0, <1>5 DEF blocking_region_begin, Running
  <1>6. ASSUME NEW t \in Thread, EnterSyscall(t) \/ SyscallDone(t) \/ unregister_ubf_list(t)
        PROVE  UbfListIsExact'
    BY <1>0, <1>6 DEF EnterSyscall, SyscallDone, unregister_ubf_list, Goto
  <1>7. ASSUME NEW t \in Thread, unblock_function_clear(t)
        PROVE  UbfListIsExact'
    BY <1>0, <1>7 DEF unblock_function_clear, Goto, Unregistered
  <1>8. ASSUME NEW t \in Thread, NEW u \in Thread, rb_threadptr_interrupt(u, t)
        PROVE  UbfListIsExact'
    BY <1>0, <1>8 DEF rb_threadptr_interrupt
  <1> QED BY <1>1, <1>2, <1>3, <1>4, <1>5, <1>6, <1>7, <1>8, WhoMovesRegions
       DEF blocking_region_end

-----------------------------------------------------------------------------
(* The wakeups. *)

\* A wakeup that is on its way stays so, unless it is ignored, or the timer thread
\* begins a new turn of its loop.
LEMMA WakeupsStay ==
    ASSUME TimerTypeOK, WritersHold, [TimerNext]_vars, ~ignored', timer' # "top",
           NEW pipe \in {"normal", "low"}, Coming(pipe)
    PROVE  Coming(pipe)'
  <1>1. CASE UNCHANGED <<write, normal, low>>
    BY <1>1 DEF Coming
  <1>2. ASSUME NEW b \in Writer, WriteTo(b, "normal", NoThread) \/ WriteTo(b, "low", NoThread)
                                 \/ \E t \in Thread : WriteTo(b, "normal", t),
               write[b].pipe # pipe, UNCHANGED <<normal, low>>
        PROVE  Coming(pipe)'
    <2>1. \A a \in Writer \ {b} : write'[a] = write[a]
      BY <1>2 DEF WriteTo, TimerTypeOK
    <2> QED BY <1>2, <2>1 DEF Coming
  <1>3. CASE thread_timer \/ PollInterrupted \/ Restart
    <2>1. UNCHANGED <<write, normal, low>>
      BY <1>3 DEF thread_timer, PollInterrupted, ubf_wakeup_all_threads,
                  CloseReadEnds, timer_thread_function, NeedPolling, WaitingTest, PollTimeout,
                  consume_communication_pipe, Restart, Disown, CloseWriteEnds, JoinTimer,
                  rb_thread_create_timer_thread, ValidatePipe
    <2> QED BY <1>1, <2>1
  <1>4. CASE sighandler
    <2>1. WriteTo(Handler, "normal", NoThread) /\ UNCHANGED <<normal, low>>
      BY <1>4 DEF sighandler
    <2>2. write[Handler].pipe = "none"
      BY <1>4 DEF sighandler, Idle
    <2> QED BY <1>2, <2>1, <2>2 DEF Writer
  <1>5. ASSUME NEW b \in Writer, rb_thread_wakeup_timer_thread(b)
        PROVE  Coming(pipe)'
    <2>1. CASE Advance(b, "inc") \/ Advance(b, "write")
      <3>1. \A a \in Writer : write'[a].pipe = write[a].pipe
        BY <2>1 DEF Advance, TimerTypeOK
      <3> QED BY <2>1, <3>1 DEF Advance, Coming
    <2>2. CASE WriteByte(b)
      <3>1. \A a \in Writer \ {b} : write'[a] = write[a]
        BY <2>2 DEF WriteByte, Return, TimerTypeOK
      <3>2. CASE \E a \in Writer \ {b} : write[a].pipe = pipe
        BY <3>1, <3>2 DEF Coming
      <3>3. CASE write[b].pipe = pipe
        BY <2>2, <3>3 DEF WriteByte, Coming
      <3>4. CASE (pipe = "normal" /\ normal) \/ (pipe = "low" /\ low)
        BY <2>2, <3>4 DEF WriteByte, Coming
      <3> QED BY <3>2, <3>3, <3>4 DEF Coming
    <2> QED BY <1>5, <2>1, <2>2 DEF rb_thread_wakeup_timer_thread, OwnerTest, Commit, Ignore
  <1>6. ASSUME NEW t \in Thread, gvl_xxx(t) \/ Acquire(t)
        PROVE  Coming(pipe)'
    <2>1. /\ WriteTo(t, "low", NoThread) \/ UNCHANGED write
          /\ UNCHANGED <<normal, low>>
      BY <1>6 DEF gvl_xxx, Acquire, GvlStep
    <2>2. pc[t] # "hold" /\ LockFree
      BY <1>6 DEF gvl_xxx, Acquire, GvlStep, CondRecheck, CondTake, SwitchRecheck, SwitchDone,
                  SchedYieldDone, SwitchWaitRecheck, SwitchWaitDone, ThreadExit, gvl_acquire
    <2>3. write[t].pipe \notin {"normal", "low"}
      BY <2>2 DEF WritersHold, LockFree
    <2> QED BY <1>1, <1>2, <2>1, <2>3 DEF Writer
  <1>7. ASSUME NEW t \in Thread, NEW u \in Thread, rb_threadptr_interrupt(u, t)
        PROVE  Coming(pipe)'
    <2>1. /\ WriteTo(u, "normal", t) \/ UNCHANGED write
          /\ UNCHANGED <<normal, low>>
      BY <1>7 DEF rb_threadptr_interrupt
    <2>2. write[u].pipe = "none"
      BY <1>7 DEF rb_threadptr_interrupt, Running, Idle
    <2> QED BY <1>1, <1>2, <2>1, <2>2 DEF Writer
  <1>8. ASSUME NEW t \in Thread,
               \/ SetCurrent(t) \/ Create(t) \/ End(t) \/ StopWorking(t)
               \/ CheckInts(t) \/ blocking_region_begin(t) \/ EnterSyscall(t) \/ SyscallDone(t)
               \/ blocking_region_end(t)
        PROVE  UNCHANGED <<write, normal, low>>
    BY <1>8 DEF SetCurrent, Create, End, CheckInts, blocking_region_begin, StopWorking,
                EnterSyscall, SyscallDone, blocking_region_end, Goto, unregister_ubf_list,
                unblock_function_clear
  <1>9. CASE UNCHANGED vars
    BY <1>1, <1>9 DEF vars
  <1> QED BY <1>1, <1>3, <1>4, <1>5, <1>6, <1>7, <1>8, <1>9 DEF TimerNext

\* How the timer thread gets to its sleep, and when it forgets that a wakeup was ignored.
LEMMA HowTimerSleeps ==
    ASSUME [TimerNext]_vars
    PROVE  /\ timer' = "poll_forever" =>
                timer = "poll_forever" \/ (timer = "waiting_test" /\ WaitingTest)
           /\ timer' = "waiting_test" => timer = "waiting_test" \/ (timer = "ubf_test" /\ NeedPolling)
           /\ timer' = "ubf_test" => timer = "ubf_test" \/ timer_thread_function
           /\ ignored /\ ~ignored' => timer' = "tick"
  <1>1. CASE UNCHANGED vars
    BY <1>1 DEF vars
  <1>2. CASE thread_timer \/ PollInterrupted \/ sighandler \/ Restart
    BY <1>2 DEF thread_timer, PollInterrupted, sighandler, Restart, ubf_wakeup_all_threads,
                CloseReadEnds, timer_thread_function, NeedPolling, WaitingTest, PollTimeout,
                consume_communication_pipe, Disown, CloseWriteEnds, JoinTimer,
                rb_thread_create_timer_thread, ValidatePipe
  <1>3. ASSUME NEW a \in Writer, rb_thread_wakeup_timer_thread(a)
        PROVE  UNCHANGED timer /\ (ignored => ignored')
    BY <1>3 DEF rb_thread_wakeup_timer_thread, OwnerTest, Commit, WriteByte, Advance, Ignore,
                Return
  <1>4. ASSUME NEW t \in Thread,
               \/ gvl_xxx(t) \/ Acquire(t) \/ SetCurrent(t) \/ Create(t) \/ End(t)
               \/ CheckInts(t) \/ blocking_region_begin(t) \/ EnterSyscall(t) \/ SyscallDone(t)
               \/ blocking_region_end(t) \/ StopWorking(t)
               \/ \E u \in Thread : rb_threadptr_interrupt(u, t)
        PROVE  UNCHANGED <<timer, ignored>>
    BY <1>4 DEF gvl_xxx, Acquire, SetCurrent, Create, End, CheckInts, blocking_region_begin,
                EnterSyscall, SyscallDone, blocking_region_end, Goto, unregister_ubf_list,
                unblock_function_clear, rb_threadptr_interrupt, StopWorking
  <1> QED BY <1>1, <1>2, <1>3, <1>4 DEF TimerNext

\* The first thread to wait for the GVL wakes the timer thread.
LEMMA FirstWaiterWakes ==
    ASSUME Inv, TimerTypeOK, [TimerNext]_vars, ~(waiting > 0), waiting' > 0
    PROVE  Coming("low")'
  <1>1. waiting = 0
    BY DEF Inv, TypeOK
  <1>2. ASSUME NEW t \in Thread, gvl_xxx(t) \/ Acquire(t) PROVE Coming("low")'
    <2>1. waiting' \in {waiting, waiting + 1, waiting - 1}
      BY <1>2 DEF gvl_xxx, Acquire, GvlStep, CondRecheck, CondTake, SwitchRecheck, SwitchDone,
                  SchedYieldDone, SwitchWaitRecheck, SwitchWaitDone, ThreadExit, gvl_acquire,
                  gvl_acquire_common
    <2>2. waiting' = 1
      BY <1>1, <2>1
    <2>3. WriteTo(t, "low", NoThread)
      BY <1>1, <1>2, <2>2 DEF gvl_xxx, Acquire, GvlStep
    <2>4. write'[t].pipe = "low"
      BY <2>3 DEF WriteTo, TimerTypeOK, Writer
    <2> QED BY <2>4 DEF Coming, Writer
  <1>3. ASSUME NEW t \in Thread, \/ SetCurrent(t) \/ Create(t) \/ End(t) \/ CheckInts(t)
                                 \/ blocking_region_begin(t)
        PROVE  UNCHANGED waiting
    BY <1>3 DEF SetCurrent, Create, End, CheckInts, blocking_region_begin, rb_thread_set_current,
                thread_create_core, ThreadEnd, rb_thread_schedule_limits, gvl_yield, gvl_release,
                YieldBehindAnother, YieldToWaiter, YieldToNobody, gvlVars
  <1>4. CASE UNCHANGED gvlVars
    BY <1>4 DEF gvlVars
  <1> QED BY <1>2, <1>3, <1>4, WhoMovesGvl

\* Whoever puts a thread on the ubf list wakes the timer thread, unless it is the
\* timer thread.
LEMMA RegistrationWakes ==
    ASSUME TimerTypeOK, [TimerNext]_vars, ubf_list = {}, ubf_list' # {}, timer' # "ubf_test"
    PROVE  Coming("normal")'
  <1>1. ASSUME NEW t \in Thread, NEW u \in Thread, rb_threadptr_interrupt(u, t)
        PROVE  Coming("normal")'
    <2>1. WriteTo(u, "normal", t)
      BY <1>1 DEF rb_threadptr_interrupt
    <2>2. write'[u].pipe = "normal"
      BY <2>1 DEF WriteTo, TimerTypeOK, Writer
    <2> QED BY <2>2 DEF Coming, Writer
  <1>2. ASSUME NEW t \in Thread,
               \/ End(t) \/ CheckInts(t) \/ blocking_region_begin(t)
               \/ EnterSyscall(t) \/ SyscallDone(t) \/ blocking_region_end(t)
        PROVE  ubf_list' \subseteq ubf_list
    BY <1>2 DEF End, CheckInts, blocking_region_begin, EnterSyscall, SyscallDone,
                blocking_region_end, Goto, unregister_ubf_list, unblock_function_clear
  <1>3. ~timer_thread_function
    BY DEF timer_thread_function
  <1> QED BY <1>1, <1>2, <1>3, WhoMovesRegions

\* Who counts signals, and who takes the TRAP flag of the main thread.
LEMMA SignalsWake ==
    ASSUME Inv, TimerTypeOK, [TimerNext]_vars, signal_buff' > 0
    PROVE  /\ signal_buff > 0 \/ Coming("normal")'
           /\ "TRAP" \in flags[main_thread] => "TRAP" \in flags'[main_thread]
  <1>0. main_thread \in Thread
    BY DEF Inv, TypeOK
  <1>1. CASE UNCHANGED <<signal_buff, flags>>
    BY <1>1
  <1>2. CASE sighandler
    <2>1. WriteTo(Handler, "normal", NoThread) /\ UNCHANGED flags
      BY <1>2 DEF sighandler
    <2>2. write'[Handler].pipe = "normal"
      BY <2>1 DEF WriteTo, TimerTypeOK, Writer
    <2> QED BY <2>1, <2>2 DEF Coming, Writer
  <1>3. CASE thread_timer \/ PollInterrupted \/ Restart
    <2>1. UNCHANGED signal_buff
      BY <1>3 DEF thread_timer, PollInterrupted, ubf_wakeup_all_threads, schedVars,
                  CloseReadEnds, timer_thread_function, NeedPolling, WaitingTest, PollTimeout,
                  consume_communication_pipe, Restart, Disown, CloseWriteEnds, JoinTimer,
                  rb_thread_create_timer_thread, ValidatePipe
    <2>2. UNCHANGED flags \/ timer_thread_function
      BY <1>3 DEF thread_timer, PollInterrupted, ubf_wakeup_all_threads, schedVars,
                  CloseReadEnds, NeedPolling, WaitingTest, PollTimeout,
                  consume_communication_pipe, Restart, Disown, CloseWriteEnds, JoinTimer,
                  rb_thread_create_timer_thread, ValidatePipe
    <2> QED BY <1>0, <2>1, <2>2 DEF timer_thread_function
  <1>4. ASSUME NEW a \in Writer, rb_thread_wakeup_timer_thread(a)
        PROVE  UNCHANGED <<signal_buff, flags>>
    BY <1>4 DEF rb_thread_wakeup_timer_thread, OwnerTest, Commit, WriteByte, Advance, Ignore,
                Return, schedVars
  <1>5. ASSUME NEW t \in Thread, End(t)
        PROVE  UNCHANGED signal_buff /\ flags'[main_thread] = flags[main_thread]
    BY <1>0, <1>5 DEF End, ThreadEnd, TimerTypeOK
  <1>6. ASSUME NEW t \in Thread, CheckInts(t)
        PROVE  UNCHANGED signal_buff
               /\ ("TRAP" \in flags[main_thread] => "TRAP" \in flags'[main_thread])
    BY <1>0, <1>6 DEF CheckInts, TimerTypeOK
  <1>7. ASSUME NEW t \in Thread, NEW u \in Thread, rb_threadptr_interrupt(u, t)
        PROVE  UNCHANGED signal_buff
               /\ ("TRAP" \in flags[main_thread] => "TRAP" \in flags'[main_thread])
    BY <1>0, <1>7 DEF rb_threadptr_interrupt, TimerTypeOK
  <1>8. ASSUME NEW t \in Thread,
               \/ gvl_xxx(t) \/ Acquire(t) \/ SetCurrent(t) \/ Create(t) \/ StopWorking(t)
               \/ blocking_region_begin(t) \/ EnterSyscall(t) \/ SyscallDone(t)
               \/ blocking_region_end(t)
        PROVE  UNCHANGED <<signal_buff, flags>>
    BY <1>8 DEF gvl_xxx, Acquire, SetCurrent, Create, blocking_region_begin, StopWorking,
                EnterSyscall, SyscallDone, blocking_region_end, Goto, unregister_ubf_list,
                unblock_function_clear, schedVars
  <1>9. CASE UNCHANGED vars
    BY <1>1, <1>9 DEF vars, schedVars
  <1> QED BY <1>1, <1>2, <1>3, <1>4, <1>5, <1>6, <1>7, <1>8, <1>9 DEF TimerNext

\* After the read of gvl->waiting.
LEMMA WaitingSeenStep ==
    ASSUME TimerInv, [TimerNext]_vars
    PROVE  WaitingSeen'
  <1> SUFFICES ASSUME timer' = "poll_forever", ~ignored', waiting' > 0
               PROVE  Coming("low")' \/ Coming("normal")'
    BY DEF WaitingSeen
  <1>1. ~ignored /\ timer' # "top"
    BY HowTimerSleeps
  <1>2. CASE ~(waiting > 0)
    BY <1>2, FirstWaiterWakes DEF TimerInv
  <1>3. CASE waiting > 0 /\ timer = "poll_forever"
    <2>1. Coming("low") \/ Coming("normal")
      BY <1>1, <1>3 DEF TimerInv, WaitingSeen
    <2> QED BY <1>1, <2>1, WakeupsStay DEF TimerInv
  <1>4. CASE waiting > 0 /\ WaitingTest
    BY <1>4 DEF WaitingTest
  <1> QED BY <1>2, <1>3, <1>4, HowTimerSleeps

\* After the read of the ubf list.
LEMMA UbfSeenStep ==
    ASSUME TimerInv, [TimerNext]_vars
    PROVE  UbfSeen'
  <1> SUFFICES ASSUME timer' \in {"waiting_test", "poll_forever"}, ~ignored', ubf_list' # {}
               PROVE  Coming("normal")'
    BY DEF UbfSeen
  <1>1. ~ignored /\ timer' # "top"
    BY HowTimerSleeps
  <1>2. CASE ubf_list = {}
    BY <1>2, RegistrationWakes DEF TimerInv
  <1>3. CASE ubf_list # {} /\ timer \in {"waiting_test", "poll_forever"}
    <2>1. Coming("normal")
      BY <1>1, <1>3 DEF TimerInv, UbfSeen
    <2> QED BY <1>1, <2>1, WakeupsStay DEF TimerInv
  <1>4. CASE ubf_list # {} /\ NeedPolling
    BY <1>4 DEF NeedPolling
  <1> QED BY <1>2, <1>3, <1>4, HowTimerSleeps

\* After the read of the signal buffer.
LEMMA SignalSeenStep ==
    ASSUME TimerInv, [TimerNext]_vars
    PROVE  SignalSeen'
  <1> SUFFICES ASSUME timer' \in {"ubf_test", "waiting_test", "poll_forever"}, ~ignored',
                      signal_buff' > 0
               PROVE  Coming("normal")' \/ "TRAP" \in flags'[main_thread']
    BY DEF SignalSeen
  <1>1. ~ignored /\ timer' # "top"
    BY HowTimerSleeps
  <1>2. UNCHANGED main_thread /\ main_thread \in Thread
    BY KeepsGvl DEF TimerInv, Inv, TypeOK
  <1>3. CASE ~(signal_buff > 0)
    BY <1>3, SignalsWake DEF TimerInv
  <1>4. CASE signal_buff > 0 /\ timer \in {"ubf_test", "waiting_test", "poll_forever"}
    <2>1. Coming("normal") \/ "TRAP" \in flags[main_thread]
      BY <1>1, <1>4 DEF TimerInv, SignalSeen
    <2> QED BY <1>1, <1>2, <2>1, WakeupsStay, SignalsWake DEF TimerInv
  <1>5. CASE signal_buff > 0 /\ timer_thread_function
    BY <1>2, <1>5 DEF timer_thread_function
  <1> QED BY <1>3, <1>4, <1>5, HowTimerSleeps

-----------------------------------------------------------------------------
(* The theorems. *)

\* Nothing is under way when the timer thread is created.
LEMMA TimerInitInv == TimerInit => TimerInv
  <1> SUFFICES ASSUME TimerInit PROVE TimerInv
    OBVIOUS
  <1>1. Inv
    BY InitInv DEF TimerInit
  <1>2. TimerTypeOK
    <2>1. write \in [Writer -> [stage : {"idle", "test", "inc", "write"},
                               pipe : {"none", "normal", "low"},
                               victim : Thread \cup {NoThread}]]
      BY DEF TimerInit, Idle
    <2>2. running_time \in 0..(Quanta - 1) /\ signal_buff \in 0..MaxSignals
      BY TimerAssumption DEF TimerInit
    <2>3. TypeOK
      BY <1>1 DEF Inv
    <2> QED BY <2>1, <2>2, <2>3 DEF TimerInit, TimerTypeOK
  <1>3. Disowned /\ NoWriteWhileClosing
    BY DEF TimerInit, Disowned, NoWriteWhileClosing
  <1>4. WritersHold /\ Unregistered /\ UbfListIsExact
    BY DEF TimerInit, WritersHold, Unregistered, UbfListIsExact, Writer, Idle
  <1>5. WaitingSeen /\ UbfSeen /\ SignalSeen
    BY DEF TimerInit, WaitingSeen, UbfSeen, SignalSeen
  <1> QED BY <1>1, <1>2, <1>3, <1>4, <1>5 DEF TimerInv

\* TimerInv is inductive and holds in every reachable state: for any finite set of
\* threads, any priority and any number of signals.
THEOREM TimerInvariance == TimerSpec => []TimerInv
  <1>1. TimerInit => TimerInv
    BY TimerInitInv
  <1>2. TimerInv /\ [TimerNext]_vars => TimerInv'
    <2> SUFFICES ASSUME TimerInv, [TimerNext]_vars PROVE TimerInv'
      OBVIOUS
    <2>1. Inv' /\ TimerTypeOK'
      BY GvlSteps, NextInv, TypeStep DEF TimerInv
    <2>2. Disowned' /\ NoWriteWhileClosing'
      BY DisownedStep, ClosingStep DEF TimerInv
    <2>3. WritersHold' /\ Unregistered' /\ UbfListIsExact'
      BY WritersHoldStep, UnregisteredStep, UbfListStep DEF TimerInv
    <2>4. WaitingSeen' /\ UbfSeen' /\ SignalSeen'
      BY WaitingSeenStep, UbfSeenStep, SignalSeenStep
    <2> QED BY <2>1, <2>2, <2>3, <2>4 DEF TimerInv
  <1> QED BY <1>1, <1>2, PTL DEF TimerSpec

\* The variables of thread_timer, of the writers and of the blocking regions keep
\* their types.
THEOREM TimerTypeCorrect == TimerSpec => []TimerTypeOK
  BY TimerInvariance, PTL DEF TimerInv

\* timer_thread_sleep: wherever the three unlocked reads of the timer thread fall, it
\* does not sleep for ever on something that it is there for.
THEOREM WakeupsAreSeen == TimerSpec => []WakeupIsSeen
  <1>1. TimerInv => WakeupIsSeen
    BY DEF TimerInv, WakeupIsSeen, WaitingSeen, UbfSeen, SignalSeen
  <1> QED BY <1>1, TimerInvariance, PTL

\* native_stop_timer_thread: no pipe is closed under a writer.
THEOREM PipesCloseUnused == TimerSpec => []NoWriteWhileClosing
  BY TimerInvariance, PTL DEF TimerInv

\* register_ubf_list, unregister_ubf_list: who is left on the list, and that no
\* interrupt is lost on a thread that goes into a system call.
THEOREM UbfListExact == TimerSpec => []UbfListIsExact
  BY TimerInvariance, PTL DEF TimerInv

\* The interpreter with its timer thread uses the GVL as module Gvl allows: whatever
\* is proved of Gvl holds of it, that it implements a plain lock included.
THEOREM TimerImplementsGvl == TimerSpec => Spec /\ ImplementsLock
  <1>1. TimerInit => Init
    BY DEF TimerInit
  <1>2. [TimerNext]_vars => [Next]_gvlVars
    BY GvlSteps
  <1>3. TimerSpec => Spec
    BY <1>1, <1>2, PTL DEF TimerSpec, Spec
  <1> QED BY <1>3, LockRefinement, PTL
=============================================================================

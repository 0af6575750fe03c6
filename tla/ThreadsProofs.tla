--------------------------- MODULE ThreadsProofs ---------------------------
(***************************************************************************)
(* The safety properties of Threads, for any finite set of threads, any    *)
(* number of signals and of pending interrupts, and any set of calls.      *)
(*                                                                         *)
(* The inductive invariant TInv adds to the properties                     *)
(*   - Places: what the place of a thread says of its call, its status and *)
(*     whether it is living, also while a trap handler runs in the call;   *)
(*   - JoinLists: a joiner is on the join_list of its target unless that   *)
(*     has ended, and nobody else is, so an ending thread interrupts       *)
(*     exactly those who wait for it;                                      *)
(*   - JoinersSeeEnd: a joiner of an ended thread neither sleeps nor is    *)
(*     between its status test and native_sleep, which is what makes       *)
(*     JoinersAreWoken survive the next step;                              *)
(*   - SleeperCount: vm->sleeper is the number of the counted sleepers,    *)
(*     or, after fatal was raised, one less; rb_check_deadlock trusts it.  *)
(* The lemmas take the arguments served, patrol and unlocked of Threads as *)
(* arbitrary values, so that they hold of the steps of Mutexes and Queues  *)
(* as well.                                                                *)
(***************************************************************************)
EXTENDS Threads, FiniteSetTheorems, SequenceFacts, TLAPS

-----------------------------------------------------------------------------
(* The inductive invariant. *)

\* TypeOK but for the bounds of sleeper, which follow from SleeperCount.
Typed ==
    /\ running \in Thread \cup {NoThread}
    /\ pc \in [Thread -> Place] /\ frame \in [Thread -> Frame]
    /\ status \in [Thread -> Status]
    /\ flag \in [Thread -> BOOLEAN] /\ trap \in BOOLEAN
    /\ saved \in [pc : Place, status : Status, pending : BOOLEAN]
    /\ signals \in 0..MaxSignal
    /\ pending \in [Thread -> Seq({"raise", "kill", "fatal"})]
    /\ exc \in [Thread -> {"none", "raise", "kill"}] /\ to_kill \in [Thread -> BOOLEAN]
    /\ living \subseteq Thread
    /\ join_list \in [Thread -> SUBSET Thread]
    /\ target \in [Thread -> Thread \cup {NoThread}]
    /\ fatal \in BOOLEAN

\* Where a thread is, the trap handler it may be running set aside.
At(t) == IF pc[t] = "trap" THEN saved.pc ELSE pc[t]

SleepFrame == Frame \ {"none", "lock", "synchronize"}

\* What the place of a thread says about it, and about the call it is in.
PlaceFits(t) ==
    /\ pc[t] \in {"trap", "term", "terminated"} => t = Main
    /\ At(t) \in {"new", "run", "term", "terminated", "dead"} => frame[t] = "none"
    /\ At(t) \in {"check", "asleep", "woken", "back"} => frame[t] \in SleepFrame
    /\ At(t) \in {"lock_sleep", "lock_check"} => frame[t] \in {"lock", "synchronize"}
    /\ status[t] = "KILLED" <=> pc[t] \in {"term", "terminated", "dead"}

Places ==
    /\ \A t \in Thread : PlaceFits(t) /\ (t \in living <=> pc[t] \notin {"new", "dead"})
    /\ Main \in living
    /\ saved.pc \in {"run", "check", "woken", "lock_check"}
    /\ pc[Main] = "trap" => saved.status # "KILLED"
    /\ signals = 0 => ~trap /\ pc[Main] # "trap"

Joining(t) == frame[t] \in {"join", "timed_join"}

\* The nodes of the join lists are those of the threads in thread_join.
JoinLists ==
    /\ \A t \in Thread : Joining(t) => /\ target[t] \in Thread \ {Main}
                                       /\ \/ status[target[t]] = "KILLED"
                                          \/ t \in join_list[target[t]]
    /\ \A u \in living : \A t \in join_list[u] : target[t] = u /\ Joining(t) /\ t \in living
    /\ \A u \in Thread : pc[u] = "new" => join_list[u] = {}
    /\ join_list[Main] = {}

\* A thread that joins an ended one does not sleep, nor will its sleep function let it.
SeesEnd(t) ==
    frame[t] = "join" /\ status[target[t]] = "KILLED" =>
        ~Slumbering(t) /\ (pc[t] = "check" => status[t] # "STOPPED_FOREVER")

JoinersSeeEnd == signals = 0 => \A t \in Thread : SeesEnd(t)

\* The threads vm->sleeper counts.
Counts(t) == (pc[t] = "asleep" /\ frame[t] \in Deadlockable) \/ pc[t] = "lock_sleep"
Counted == {t \in living : Counts(t)}

\* Raising fatal leaves the counter one too low, for good.
SleeperCount ==
    /\ sleeper \in {Cardinality(Counted), Cardinality(Counted) - 1}
    /\ ~fatal => sleeper = Cardinality(Counted)

TInv == Typed /\ Places /\ JoinLists /\ JoinersSeeEnd /\ WakeupReachesSleeper /\ SleeperCount
-----------------------------------------------------------------------------
(* Counting. *)

\* The sleepers can be counted.
LEMMA CountedFinite ==
    ASSUME Typed
    PROVE  /\ IsFiniteSet(Counted) /\ Cardinality(Counted) \in Nat
           /\ IsFiniteSet(living) /\ Cardinality(living) \in Nat
           /\ Cardinality(Counted) <= Cardinality(living)
           /\ Cardinality(living) <= Cardinality(Thread)
           /\ Cardinality(Thread) \in Nat
  <1>1. Counted \subseteq living /\ living \subseteq Thread /\ IsFiniteSet(Thread)
    BY ThreadsAssumption DEF Counted, Typed
  <1>2. IsFiniteSet(living) /\ Cardinality(living) <= Cardinality(Thread)
    BY <1>1, FS_Subset
  <1>3. IsFiniteSet(Counted) /\ Cardinality(Counted) <= Cardinality(living)
    BY <1>1, <1>2, FS_Subset
  <1> QED  BY <1>1, <1>2, <1>3, FS_CardinalityType

\* The invariant bounds vm->sleeper.
LEMMA TInvTypeOK == TInv => TypeOK
  <1> SUFFICES ASSUME TInv PROVE TypeOK
    OBVIOUS
  <1>1. sleeper \in -1..Cardinality(Thread)
    BY CountedFinite DEF TInv, SleeperCount
  <1> QED  BY <1>1 DEF TInv, Typed, TypeOK

\* Nobody begins to sleep or wakes up.
LEMMA SameCount ==
    ASSUME TInv, UNCHANGED <<sleeper, living, fatal>>,
           \A u \in Thread : Counts(u)' <=> Counts(u)
    PROVE  SleeperCount'
  <1>1. Counted' = Counted  BY DEF Counted, TInv, Typed
  <1> QED  BY <1>1 DEF TInv, SleeperCount
-----------------------------------------------------------------------------
(* Steps of one thread. *)

\* What a step of one thread may do to another: wake it up.
Bystander(u) ==
    /\ pc'[u] = pc[u] /\ frame'[u] = frame[u] /\ target'[u] = target[u]
    /\ flag[u] => flag'[u]
    /\ \/ status'[u] = status[u]
       \/ status'[u] = "RUNNABLE" /\ status[u] # "KILLED" /\ flag'[u]

Others(t) == \A u \in Thread \ {t} : Bystander(u)

\* A step of t leaves every other thread where it is.
LEMMA PlacesKept ==
    ASSUME TInv, Typed', NEW t \in Thread, Others(t), UNCHANGED <<trap, saved, signals, living>>,
           pc[t] \notin {"new", "dead"}, pc'[t] \notin {"new", "dead", "trap"}, PlaceFits(t)'
    PROVE  Places'
  <1> USE DEF TInv
  <1>1. ASSUME NEW u \in Thread \ {t}
        PROVE  PlaceFits(u)' /\ (u \in living' <=> pc'[u] \notin {"new", "dead"})
    BY <1>1 DEF Places, PlaceFits, At, Others, Bystander
  <1>2. t \in living' <=> pc'[t] \notin {"new", "dead"}
    BY DEF Places
  <1>3. pc'[Main] = "trap" => pc[Main] = "trap"
    BY ThreadsAssumption DEF Others, Bystander
  <1> QED  BY <1>1, <1>2, <1>3 DEF Places

\* It neither joins nor leaves a join.
LEMMA JoinListsKept ==
    ASSUME TInv, NEW t \in Thread, Others(t), UNCHANGED <<living, join_list, target>>,
           pc[t] # "new", pc'[t] # "new", Joining(t)' <=> Joining(t),
           t = Main \/ (status'[t] = "KILLED" <=> status[t] = "KILLED")
    PROVE  JoinLists'
  <1> USE DEF TInv
  <1>1. \A u \in Thread : Joining(u)' <=> Joining(u)
    BY DEF Others, Bystander, Joining
  <1>2. \A u \in Thread \ {Main} : status[u] = "KILLED" => status'[u] = "KILLED"
    BY DEF Others, Bystander
  <1>3. \A u \in Thread : pc'[u] = "new" => pc[u] = "new"
    BY DEF Others, Bystander
  <1> QED  BY <1>1, <1>2, <1>3 DEF JoinLists, Typed

\* A step of t that does not begin a join, nor ends a thread, leaves the joiners
\* that see the end of their target as they are.
LEMMA SeesEndKept ==
    ASSUME TInv, NEW t \in Thread, Others(t), UNCHANGED <<trap, signals, target>>,
           Joining(t)' => Joining(t), signals = 0 => SeesEnd(t)',
           t = Main \/ (status'[t] = "KILLED" <=> status[t] = "KILLED")
    PROVE  JoinersSeeEnd'
  <1> USE DEF TInv
  <1>1. \A u \in Thread \ {Main} : status[u] = "KILLED" <=> status'[u] = "KILLED"
    BY DEF Others, Bystander
  <1>2. ASSUME signals = 0, NEW u \in Thread \ {t}
        PROVE  SeesEnd(u)'
    <2>1. frame'[u] = "join" => target[u] \in Thread \ {Main}
      BY DEF JoinLists, Joining, Others, Bystander
    <2> QED  BY <1>1, <1>2, <2>1 DEF JoinersSeeEnd, SeesEnd, Slumbering, Others, Bystander, RUBY_VM_INTERRUPTED
  <1> QED  BY <1>2 DEF JoinersSeeEnd

\* A step of t after which t has not slept past a wakeup.
LEMMA WakeupKept ==
    ASSUME TInv, NEW t \in Thread, Others(t), UNCHANGED trap,
           Slumbering(t)' => status'[t] = SleepStatus(frame'[t])
    PROVE  WakeupReachesSleeper'
  BY DEF TInv, Others, Bystander, WakeupReachesSleeper, Slumbering, RUBY_VM_INTERRUPTED, SleepStatus

\* A step of a thread that does not sleep before or after it, nor joins.
LEMMA AwakeStep ==
    ASSUME TInv, Typed', NEW t \in Thread, Others(t),
           UNCHANGED <<trap, saved, signals, sleeper, living, join_list, target, fatal>>,
           pc[t] \notin {"new", "dead", "asleep", "lock_sleep"},
           pc'[t] \notin {"new", "dead", "asleep", "lock_sleep", "trap"},
           PlaceFits(t)', Joining(t)' <=> Joining(t),
           t = Main \/ (status'[t] = "KILLED" <=> status[t] = "KILLED"),
           signals = 0 /\ pc'[t] = "check" => SeesEnd(t)'
    PROVE  TInv'
  <1>1. Places'  BY PlacesKept
  <1>2. JoinLists'  BY JoinListsKept
  <1>3. JoinersSeeEnd'
    <2>1. pc'[t] # "check" => SeesEnd(t)'  BY DEF SeesEnd, Slumbering
    <2> QED  BY <2>1, SeesEndKept
  <1>4. WakeupReachesSleeper'  BY WakeupKept DEF Slumbering
  <1>5. SleeperCount'
    <2>1. \A u \in Thread : Counts(u)' <=> Counts(u)
      BY DEF Counts, Others, Bystander
    <2> QED  BY <2>1, SameCount
  <1> QED  BY <1>1, <1>2, <1>3, <1>4, <1>5 DEF TInv
-----------------------------------------------------------------------------
(* The parts the steps are made of. *)

\* rb_threadptr_interrupt.
LEMMA InterruptType ==
    ASSUME NEW fl, NEW ts
    PROVE  rb_threadptr_interrupt(fl, ts) \in [Thread -> BOOLEAN]
  BY DEF rb_threadptr_interrupt

\* rb_threadptr_pending_interrupt_enque.
LEMMA EnqueType ==
    ASSUME NEW pq \in [Thread -> Seq({"raise", "kill", "fatal"})], NEW ts,
           NEW err \in {"raise", "kill", "fatal"}
    PROVE  Enque(pq, ts, err) \in [Thread -> Seq({"raise", "kill", "fatal"})]
  <1> DEFINE S == {"raise", "kill", "fatal"}
             new(t) == Append(pq[t], err)
  <1>1. \A t \in Thread : new(t) \in Seq(S)  BY AppendProperties
  <1>2. Enque(pq, ts, err) = [t \in Thread |->
             IF t \notin ts \/ \E i \in DOMAIN pq[t] : pq[t][i] = "kill" THEN pq[t] ELSE new(t)]
    BY DEF Enque
  <1> HIDE DEF new
  <1> QED  BY <1>1, <1>2

\* rb_check_deadlock.
LEMMA CheckDeadlockType ==
    ASSUME TInv, NEW t \in Thread, NEW st, NEW fl \in [Thread -> BOOLEAN], NEW sl, NEW alive,
           NEW served, NEW patrol, NEW d,
           rb_check_deadlock(t, st, fl, sl, alive, served, patrol, d)
    PROVE  /\ pending' \in [Thread -> Seq({"raise", "kill", "fatal"})]
           /\ flag' \in [Thread -> BOOLEAN] /\ \A u \in Thread : fl[u] => flag'[u]
           /\ fatal' \in BOOLEAN /\ (fatal => fatal')
  <1>1. CASE NoLiveThreadLeft(t, st, fl, sl, alive, served, patrol)
    <2>1. /\ pending' = Enque(pending, {Main}, "fatal")
          /\ flag' = rb_threadptr_interrupt(fl, {Main})
          /\ fatal' = TRUE
      BY <1>1 DEF rb_check_deadlock
    <2>2. pending' \in [Thread -> Seq({"raise", "kill", "fatal"})]
      BY <2>1, EnqueType DEF TInv, Typed
    <2>3. flag' \in [Thread -> BOOLEAN] /\ \A u \in Thread : fl[u] => flag'[u]
      BY <2>1 DEF rb_threadptr_interrupt
    <2> QED  BY <2>1, <2>2, <2>3
  <1>2. CASE ~NoLiveThreadLeft(t, st, fl, sl, alive, served, patrol)
    <2>1. flag' = fl /\ UNCHANGED <<pending, fatal>>
      BY <1>2 DEF rb_check_deadlock
    <2> QED  BY <2>1 DEF TInv, Typed
  <1> QED  BY <1>1, <1>2

\* wakeup_one and wakeup_all of thread_sync.c: who leaves the queue is woken, or has
\* ended.
LEMMA WakeupOne ==
    ASSUME TInv, NEW q \in Seq(Thread)
    PROVE  /\ wakeup_one(q) \subseteq ToSet(q) /\ \A u \in wakeup_one(q) : status[u] # "KILLED"
           /\ wakeup_all(q) \subseteq ToSet(q) /\ \A u \in wakeup_all(q) : status[u] # "KILLED"
           /\ AfterWakeupOne(q) \in Seq(Thread) /\ ToSet(AfterWakeupOne(q)) \subseteq ToSet(q)
           /\ IsInjective(q) => IsInjective(AfterWakeupOne(q))
           /\ \A u \in ToSet(q) : \/ status[u] = "KILLED"
                                  \/ u \in wakeup_one(q)
                                  \/ u \in ToSet(AfterWakeupOne(q))
           /\ \A u \in ToSet(q) : status[u] = "KILLED" \/ u \in wakeup_all(q)
  <1>0. DOMAIN q = 1..Len(q) /\ Len(q) \in Nat  BY ToSetElements
  <1>1. /\ wakeup_all(q) \subseteq ToSet(q) /\ \A u \in wakeup_all(q) : status[u] # "KILLED"
        /\ \A u \in ToSet(q) : status[u] = "KILLED" \/ u \in wakeup_all(q)
    BY DEF wakeup_all, LivingWaiters, ToSet
  <1>2. CASE LivingWaiters(q) = {}
    <2>1. wakeup_one(q) = {} /\ AfterWakeupOne(q) = <<>>
      BY <1>2 DEF wakeup_one, AfterWakeupOne
    <2>2. \A u \in ToSet(q) : status[u] = "KILLED"
      BY <1>2 DEF LivingWaiters, ToSet
    <2> QED  BY <1>1, <2>1, <2>2, EmptyElements
  <1>3. CASE LivingWaiters(q) # {}
    <2> DEFINE k == Min(LivingWaiters(q))
    <2>1. LivingWaiters(q) \subseteq Nat  BY <1>0 DEF LivingWaiters
    <2>2. k \in LivingWaiters(q) /\ \A i \in LivingWaiters(q) : k <= i
      BY <1>3, <2>1, MinProperties
    <2>3. wakeup_one(q) = {q[k]} /\ AfterWakeupOne(q) = SubSeq(q, k + 1, Len(q))
      BY <1>3 DEF wakeup_one, AfterWakeupOne
    <2> HIDE DEF k
    <2>4. k \in 1..Len(q) /\ status[q[k]] # "KILLED"  BY <1>0, <2>2 DEF LivingWaiters
    <2>5. k + 1 \in 1..(Len(q) + 1) /\ Len(q) \in ((k + 1) - 1)..Len(q)  BY <1>0, <2>4
    <2>6. /\ AfterWakeupOne(q) \in Seq(Thread)
          /\ ToSet(AfterWakeupOne(q)) = {q[i] : i \in (k + 1)..Len(q)}
          /\ IsInjective(q) => IsInjective(AfterWakeupOne(q))
      BY <2>3, <2>5, SubSeqElements
    <2>7. ToSet(AfterWakeupOne(q)) \subseteq ToSet(q) /\ q[k] \in ToSet(q)
      <3>1. \A i \in (k + 1)..Len(q) : i \in DOMAIN q  BY <1>0, <2>4
      <3>2. k \in DOMAIN q  BY <1>0, <2>4
      <3>3. \A i \in DOMAIN q : q[i] \in ToSet(q)  BY DEF ToSet
      <3> QED  BY <2>6, <3>1, <3>2, <3>3
    <2>8. ASSUME NEW i \in DOMAIN q
          PROVE  \/ status[q[i]] = "KILLED" \/ q[i] \in wakeup_one(q)
                 \/ q[i] \in ToSet(AfterWakeupOne(q))
      <3>1. CASE i \in LivingWaiters(q) /\ i # k
        <4>1. i \in (k + 1)..Len(q)  BY <1>0, <2>2, <2>4, <3>1
        <4> QED  BY <2>6, <4>1
      <3>2. CASE i \notin LivingWaiters(q)  BY <3>2 DEF LivingWaiters
      <3>3. CASE i = k  BY <2>3, <3>3
      <3> QED  BY <3>1, <3>2, <3>3
    <2> QED  BY <1>1, <2>3, <2>4, <2>6, <2>7, <2>8 DEF ToSet
  <1> QED  BY <1>2, <1>3
-----------------------------------------------------------------------------
(* CHECK_INTS. *)

\* rb_threadptr_execute_interrupts raises the next pending interrupt.
LEMMA DeliverInv ==
    ASSUME TInv, NEW t \in Thread, RaiseInterrupt(t)
    PROVE  TInv'
  <1> USE DEF TInv, RaiseInterrupt, Deliver, BlockingCheck
  <1>1. Typed'
    <2>1. pending' \in [Thread -> Seq({"raise", "kill", "fatal"})]
      <3>1. pending[t] \in Seq({"raise", "kill", "fatal"}) /\ pending[t] # <<>>
        BY DEF MustRaise, Due, Typed
      <3>2. <<>> \in Seq({"raise", "kill", "fatal"}) /\ Tail(pending[t]) \in Seq({"raise", "kill", "fatal"})
        BY <3>1, EmptySeq, HeadTailProperties
      <3> QED  BY <3>2 DEF Typed
    <2>2. exc' \in [Thread -> {"none", "raise", "kill"}] /\ status' \in [Thread -> Status]
      BY DEF Typed, Status
    <2>3. to_kill' \in [Thread -> BOOLEAN] /\ flag' \in [Thread -> BOOLEAN]
      BY DEF Typed
    <2> QED  BY <2>1, <2>2, <2>3 DEF Typed, Place
  <1>2. pc'[t] = "unwind" /\ pc[t] \in {"run", "check", "woken", "trap", "lock_check"}
    BY DEF Typed
  <1>3. Others(t)  BY DEF Others, Bystander, Typed
  <1>4. status'[t] # "KILLED" /\ status[t] # "KILLED"
    BY DEF Typed, Places, PlaceFits
  <1>5. PlaceFits(t)'  BY <1>2, <1>4 DEF PlaceFits, At
  <1> QED  BY <1>1, <1>2, <1>3, <1>4, <1>5, AwakeStep DEF Joining

\* CHECK_INTS in running code finds nothing to raise.
LEMMA CheckInCodeInv ==
    ASSUME TInv, NEW t \in Thread, CheckIntsInCode(t)
    PROVE  TInv'
  <1> USE DEF TInv, CheckIntsInCode
  <1>1. Typed'  BY DEF Typed
  <1>2. Places'  BY DEF Places, PlaceFits, At
  <1>3. JoinLists'  BY DEF JoinLists, Joining
  <1>4. \A u \in Thread : Slumbering(u)' => Slumbering(u)
    BY DEF Slumbering, RUBY_VM_INTERRUPTED, Typed
  <1>5. JoinersSeeEnd'  BY <1>4 DEF JoinersSeeEnd, SeesEnd
  <1>6. WakeupReachesSleeper'  BY <1>4 DEF WakeupReachesSleeper
  <1>7. SleeperCount'  BY SameCount DEF Counts
  <1> QED  BY <1>1, <1>2, <1>3, <1>5, <1>6, <1>7

\* A signal arrives.
LEMMA TrapInterruptInv ==
    ASSUME TInv, threadptr_trap_interrupt
    PROVE  TInv'
  <1> USE DEF TInv, threadptr_trap_interrupt
  <1>1. Typed'
    <2>1. signals' \in 0..MaxSignal /\ signals' # 0  BY ThreadsAssumption DEF Typed
    <2>2. trap' \in BOOLEAN  OBVIOUS
    <2> QED  BY <2>1, <2>2 DEF Typed
  <1>0. signals' # 0  BY DEF Typed
  <1>2. Places'  BY <1>0 DEF Places, PlaceFits, At
  <1>3. JoinLists'  BY DEF JoinLists, Joining
  <1>4. \A u \in Thread : Slumbering(u)' => Slumbering(u)
    BY DEF Slumbering, RUBY_VM_INTERRUPTED, Typed
  <1>5. JoinersSeeEnd'  BY <1>0 DEF JoinersSeeEnd
  <1>6. WakeupReachesSleeper'  BY <1>4 DEF WakeupReachesSleeper
  <1>7. SleeperCount'  BY SameCount DEF Counts
  <1> QED  BY <1>1, <1>2, <1>3, <1>5, <1>6, <1>7

\* The main thread begins a trap handler, inside a sleep or not.
LEMMA TrapEnterInv ==
    ASSUME TInv, TrapEnter
    PROVE  TInv'
  <1> USE DEF TInv, TrapEnter, BlockingCheck
  <1>0. Main \in Thread /\ signals # 0  BY ThreadsAssumption DEF Places
  <1>1. Typed'
    <2>1. flag' \in [Thread -> BOOLEAN] /\ trap' \in BOOLEAN  BY DEF Typed
    <2>2. saved' \in [pc : Place, status : Status, pending : BOOLEAN]
      BY <1>0 DEF Typed, Due
    <2> QED  BY <1>0, <2>1, <2>2 DEF Typed, Place, Status
  <1>2. Places'
    <2>1. /\ pc'[Main] = "trap" /\ status'[Main] = "RUNNABLE"
          /\ \A u \in Thread \ {Main} : pc'[u] = pc[u] /\ status'[u] = status[u]
          /\ saved'.pc = pc[Main] /\ saved'.status = status[Main] /\ status[Main] # "KILLED"
      BY <1>0 DEF Typed, Places, PlaceFits
    <2>2. \A u \in Thread \ {Main} : PlaceFits(u)'
      BY <2>1 DEF Places, PlaceFits, At
    <2>3. PlaceFits(Main)'  BY <1>0, <2>1 DEF Places, PlaceFits, At
    <2> QED  BY <1>0, <2>1, <2>2, <2>3 DEF Places
  <1>3. JoinLists'  BY <1>0 DEF JoinLists, Joining, Typed
  <1>4. \A u \in Thread : Slumbering(u)' => Slumbering(u) /\ u # Main
    BY DEF Slumbering, RUBY_VM_INTERRUPTED, Typed
  <1>5. JoinersSeeEnd'  BY <1>0 DEF JoinersSeeEnd
  <1>6. WakeupReachesSleeper'  BY <1>4 DEF WakeupReachesSleeper, Typed
  <1>7. SleeperCount'  BY SameCount DEF Counts, Typed
  <1> QED  BY <1>1, <1>2, <1>3, <1>5, <1>6, <1>7

\* The trap handler is done: the main thread is back in the place it was in.
LEMMA TrapReturnInv ==
    ASSUME TInv, TrapReturn
    PROVE  TInv'
  <1> USE DEF TInv, TrapReturn
  <1>0. /\ Main \in Thread /\ signals # 0 /\ saved.pc \in {"run", "check", "woken", "lock_check"}
        /\ saved.status \in Status /\ saved.status # "KILLED"
    BY ThreadsAssumption DEF Places, Typed
  <1>1. Typed'  BY <1>0 DEF Typed, Place
  <1>2. /\ pc'[Main] = saved.pc /\ status'[Main] = saved.status
        /\ \A u \in Thread \ {Main} : pc'[u] = pc[u] /\ status'[u] = status[u]
    BY <1>0 DEF Typed
  <1>3. Places'
    <2>2. \A u \in Thread \ {Main} : PlaceFits(u)'
      BY <1>2 DEF Places, PlaceFits, At
    <2>3. PlaceFits(Main)'  BY <1>0, <1>2 DEF Places, PlaceFits, At
    <2> QED  BY <1>0, <1>2, <2>2, <2>3 DEF Places
  <1>4. JoinLists'  BY <1>0, <1>2 DEF JoinLists, Joining, Typed
  <1>5. JoinersSeeEnd'  BY <1>0 DEF JoinersSeeEnd
  <1>6. WakeupReachesSleeper'
    BY <1>0, <1>2 DEF WakeupReachesSleeper, Slumbering, RUBY_VM_INTERRUPTED
  <1>7. SleeperCount'  BY <1>0, <1>2, SameCount DEF Counts
  <1> QED  BY <1>1, <1>3, <1>4, <1>5, <1>6, <1>7
-----------------------------------------------------------------------------
(* Sleeping. *)

\* A thread that goes to sleep.
LEMMA OneMoreCounted ==
    ASSUME TInv, NEW t \in Thread, t \in living, living' = living, ~Counts(t), Counts(t)',
           \A u \in Thread \ {t} : Counts(u)' <=> Counts(u)
    PROVE  Cardinality(Counted') = Cardinality(Counted) + 1
  <1>1. Counted' = Counted \cup {t} /\ t \notin Counted
    BY DEF Counted, TInv, Typed
  <1>2. IsFiniteSet(Counted)  BY CountedFinite DEF TInv
  <1> QED  BY <1>1, <1>2, FS_AddElement

\* A thread that wakes up.
LEMMA OneLessCounted ==
    ASSUME TInv, NEW t \in Thread, t \in living, living' = living, Counts(t), ~Counts(t)',
           \A u \in Thread \ {t} : Counts(u)' <=> Counts(u)
    PROVE  Cardinality(Counted') = Cardinality(Counted) - 1
  <1>1. Counted' = Counted \ {t} /\ t \in Counted
    BY DEF Counted, TInv, Typed
  <1>2. IsFiniteSet(Counted)  BY CountedFinite DEF TInv
  <1> QED  BY <1>1, <1>2, FS_RemoveElement

\* rb_check_deadlock makes the counter one too low at most once.
LEMMA CheckedCount ==
    ASSUME NEW t, NEW st, NEW fl, NEW sl \in Int, NEW alive, NEW served, NEW patrol, NEW d \in Nat,
           rb_check_deadlock(t, st, fl, sl, alive, served, patrol, d),
           Cardinality(Counted') \in Nat, Cardinality(alive) \in Nat,
           sl - d \in {Cardinality(Counted'), Cardinality(Counted') - 1},
           ~fatal => sl - d = Cardinality(Counted'),
           Cardinality(Counted') + d <= Cardinality(alive)
    PROVE  SleeperCount'
  <1>1. CASE NoLiveThreadLeft(t, st, fl, sl, alive, served, patrol)
    <2>1. sleeper' = sl - 1 - d /\ fatal'
      BY <1>1 DEF rb_check_deadlock
    <2>2. Cardinality(alive) <= sl
      BY <1>1 DEF NoLiveThreadLeft
    <2> QED  BY <2>1, <2>2 DEF SleeperCount
  <1>2. CASE ~NoLiveThreadLeft(t, st, fl, sl, alive, served, patrol)
    <2>1. sleeper' = sl - d /\ fatal' = fatal
      BY <1>2 DEF rb_check_deadlock
    <2> QED  BY <2>1 DEF SleeperCount
  <1> QED  BY <1>1, <1>2

\* A thread goes into native_sleep.
LEMMA NativeSleepInv ==
    ASSUME TInv, NEW t \in Thread, NEW served, NEW patrol, NativeSleep(t, served, patrol)
    PROVE  TInv'
  <1> USE DEF TInv
  <1> DEFINE fl == [flag EXCEPT ![t] = FALSE]
  <1>1. /\ pc[t] = "check" \/ (pc[t] = "woken" /\ frame[t] \in SpuriousCheck)
        /\ status[t] = SleepStatus(frame[t])
        /\ IF frame[t] \in Deadlockable
           THEN rb_check_deadlock(t, status, fl, sleeper + 1, living, served, patrol, 0)
           ELSE flag' = fl /\ UNCHANGED <<pending, sleeper, fatal>>
        /\ pc' = [pc EXCEPT ![t] = "asleep"] /\ running' = NoThread
        /\ UNCHANGED <<frame, status, trap, saved, signals, exc, to_kill, living, join_list, target>>
    BY DEF NativeSleep
  <1>2. fl \in [Thread -> BOOLEAN] /\ \A u \in Thread \ {t} : fl[u] = flag[u]
    BY DEF Typed
  <1> HIDE DEF fl
  <1>3. /\ pending' \in [Thread -> Seq({"raise", "kill", "fatal"})]
        /\ flag' \in [Thread -> BOOLEAN] /\ (\A u \in Thread : fl[u] => flag'[u])
        /\ fatal' \in BOOLEAN
    <2>1. CASE frame[t] \in Deadlockable
      BY <1>1, <1>2, <2>1, CheckDeadlockType
    <2>2. CASE frame[t] \notin Deadlockable
      BY <1>1, <1>2, <2>2 DEF Typed
    <2> QED  BY <2>1, <2>2
  <1>4. Typed'  BY <1>1, <1>3 DEF Typed, Place
  <1>5. pc'[t] = "asleep" /\ Others(t)
    BY <1>1, <1>2, <1>3 DEF Others, Bystander, Typed
  <1>6. PlaceFits(t)'
    BY <1>1, <1>5 DEF Places, PlaceFits, At
  <1>7. Places'  BY <1>1, <1>4, <1>5, <1>6, PlacesKept
  <1>8. JoinLists'  BY <1>1, <1>5, JoinListsKept DEF Joining
  <1>9. JoinersSeeEnd'
    <2>1. signals = 0 => SeesEnd(t)'
      BY <1>1 DEF JoinersSeeEnd, SeesEnd, SleepStatus, SpuriousCheck, Deadlockable
    <2> QED  BY <1>1, <1>5, <2>1, SeesEndKept DEF Joining
  <1>10. WakeupReachesSleeper'  BY <1>1, <1>5, WakeupKept
  <1>11. t \in living /\ ~Counts(t) /\ \A u \in Thread \ {t} : Counts(u)' <=> Counts(u)
    BY <1>1, <1>5 DEF Counts, Others, Bystander, Places
  <1>12. SleeperCount'
    <2>1. CASE frame[t] \in Deadlockable
      <3>1. Counts(t)'  BY <1>1, <1>5, <2>1 DEF Counts
      <3>2. Cardinality(Counted') = Cardinality(Counted) + 1
        BY <1>1, <1>11, <3>1, OneMoreCounted
      <3>3. Cardinality(Counted) \in Nat  BY CountedFinite
      <3>4. Cardinality(living) \in Nat /\ Cardinality(Counted') <= Cardinality(living)
        <4>1. Counted' \subseteq living  BY <1>1 DEF Counted
        <4> QED  BY <4>1, CountedFinite, FS_Subset
      <3>5. rb_check_deadlock(t, status, fl, sleeper + 1, living, served, patrol, 0)
        BY <1>1, <2>1
      <3>6. /\ sleeper + 1 \in Int /\ 0 \in Nat /\ Cardinality(Counted') \in Nat
            /\ (sleeper + 1) - 0 \in {Cardinality(Counted'), Cardinality(Counted') - 1}
            /\ ~fatal => (sleeper + 1) - 0 = Cardinality(Counted')
            /\ Cardinality(Counted') + 0 <= Cardinality(living)
        BY <3>2, <3>3, <3>4 DEF SleeperCount
      <3> QED  BY <3>4, <3>5, <3>6, CheckedCount
    <2>2. CASE frame[t] \notin Deadlockable
      <3>1. ~Counts(t)'  BY <1>1, <1>5, <2>2 DEF Counts
      <3> QED  BY <1>1, <1>11, <2>2, <3>1, SameCount
    <2> QED  BY <2>1, <2>2
  <1> QED  BY <1>4, <1>7, <1>8, <1>9, <1>10, <1>12

\* A thread comes back from native_sleep.
LEMMA WakeUpInv ==
    ASSUME TInv, NEW t \in Thread, InterruptedWakeUp(t) \/ TimeoutWakeUp(t) \/ SpuriousWakeUp(t)
    PROVE  TInv'
  <1> USE DEF TInv
  <1>1. /\ pc[t] = "asleep" /\ running' = NoThread
        /\ sleeper' = sleeper - (IF frame[t] \in Deadlockable THEN 1 ELSE 0)
        /\ pc' = [pc EXCEPT ![t] = "woken"]
        /\ UNCHANGED <<frame, status, flag, trap, saved, signals, pending, exc, to_kill,
                       living, join_list, target, fatal>>
    BY DEF InterruptedWakeUp, TimeoutWakeUp, SpuriousWakeUp, WakeUp
  <1>2. Typed'  BY <1>1 DEF Typed, Place
  <1>3. pc'[t] = "woken" /\ Others(t)  BY <1>1 DEF Others, Bystander, Typed
  <1>4. PlaceFits(t)'  BY <1>1, <1>3 DEF Places, PlaceFits, At
  <1>5. Places'  BY <1>1, <1>2, <1>3, <1>4, PlacesKept
  <1>6. JoinLists'  BY <1>1, <1>3, JoinListsKept DEF Joining
  <1>7. JoinersSeeEnd'
    <2>1. SeesEnd(t)'  BY <1>3 DEF SeesEnd, Slumbering
    <2> QED  BY <1>1, <1>3, <2>1, SeesEndKept DEF Joining
  <1>8. WakeupReachesSleeper'  BY <1>1, <1>3, WakeupKept DEF Slumbering
  <1>9. t \in living /\ ~Counts(t)' /\ \A u \in Thread \ {t} : Counts(u)' <=> Counts(u)
    BY <1>1, <1>3 DEF Counts, Others, Bystander, Places
  <1>10. SleeperCount'
    <2>1. CASE frame[t] \in Deadlockable
      <3>1. Counts(t)  BY <1>1, <2>1 DEF Counts
      <3>2. Cardinality(Counted') = Cardinality(Counted) - 1
        BY <1>1, <1>9, <3>1, OneLessCounted
      <3>3. Cardinality(Counted) \in Nat  BY CountedFinite
      <3> QED  BY <1>1, <2>1, <3>2, <3>3 DEF SleeperCount
    <2>2. CASE frame[t] \notin Deadlockable
      <3>1. ~Counts(t) /\ sleeper' = sleeper
        BY <1>1, <2>2, CountedFinite DEF Counts, SleeperCount
      <3> QED  BY <1>1, <1>9, <3>1, SameCount
    <2> QED  BY <2>1, <2>2
  <1> QED  BY <1>2, <1>5, <1>6, <1>7, <1>8, <1>10

\* A thread leaves the loop of its sleep function, or the function.
LEMMA SleepEndInv ==
    ASSUME TInv, NEW t \in Thread, SleepEnd(t)
    PROVE  TInv'
  <1> USE DEF TInv, SleepEnd
  <1>1. Typed'
    <2>1. flag' \in [Thread -> BOOLEAN]  BY DEF Typed
    <2> QED  BY <2>1 DEF Typed, Place, Status
  <1>2. pc'[t] = "back" /\ status'[t] = "RUNNABLE" /\ Others(t)
    BY DEF Others, Bystander, Typed
  <1>3. PlaceFits(t)' /\ status[t] # "KILLED"  BY <1>2 DEF Places, PlaceFits, At
  <1> QED  BY <1>1, <1>2, <1>3, AwakeStep DEF Joining

\* Thread.stop and Kernel#sleep return.
LEMMA SleepReturnInv ==
    ASSUME TInv, NEW t \in Thread, SleepReturn(t)
    PROVE  TInv'
  <1> USE DEF TInv, SleepReturn
  <1>1. Typed'  BY DEF Typed, Place, Frame
  <1>2. pc'[t] = "run" /\ frame'[t] = "none" /\ Others(t)
    BY DEF Others, Bystander, Typed
  <1>3. PlaceFits(t)' /\ status[t] # "KILLED"  BY <1>2 DEF Places, PlaceFits, At
  <1> QED  BY <1>1, <1>2, <1>3, AwakeStep DEF Joining

\* A thread begins to sleep, for any reason but to join another.
LEMMA SleepBeginInv ==
    ASSUME TInv, NEW t \in Thread, NEW f \in SleepFrame \ {"join", "timed_join"},
           pc[t] \notin {"new", "dead", "asleep", "lock_sleep"}, status[t] # "KILLED", ~Joining(t),
           SleepBegin(t, f),
           flag' \in [Thread -> BOOLEAN], \A u \in Thread : flag[u] => flag'[u],
           UNCHANGED <<trap, saved, signals, pending, exc, to_kill, sleeper, living, join_list,
                       target, fatal>>
    PROVE  TInv'
  <1> USE DEF TInv, SleepBegin
  <1>1. Typed'  BY DEF Typed, Place, Status, SleepStatus, SleepFrame
  <1>2. pc'[t] = "check" /\ frame'[t] = f /\ Others(t) /\ status'[t] # "KILLED"
    BY DEF Others, Bystander, Typed, SleepStatus
  <1>3. PlaceFits(t)'  BY <1>2 DEF PlaceFits, At
  <1>4. SeesEnd(t)'  BY <1>2 DEF SeesEnd
  <1> QED  BY <1>1, <1>2, <1>3, <1>4, AwakeStep DEF Joining

\* A call raises.
LEMMA CallRaisesInv ==
    ASSUME TInv, NEW t \in Thread, CallRaises(t)
    PROVE  TInv'
  <1> USE DEF TInv, CallRaises, RaiseError, Idle
  <1>1. Typed'  BY DEF Typed, Place
  <1>2. pc[t] = "run" /\ pc'[t] = "unwind" /\ Others(t)  BY DEF Others, Bystander, Typed
  <1>3. PlaceFits(t)'  BY <1>2 DEF Places, PlaceFits, At
  <1> QED  BY <1>1, <1>2, <1>3, AwakeStep DEF Joining

\* Thread.stop and Kernel#sleep begin.
LEMMA SleepInv ==
    ASSUME TInv, NEW t \in Thread, rb_thread_stop(t) \/ rb_f_sleep(t), ~CallRaises(t)
    PROVE  TInv'
  <1>1. /\ pc[t] = "run"
        /\ UNCHANGED <<flag, trap, saved, signals, pending, exc, to_kill, sleeper, living, join_list,
                       target, fatal>>
    BY DEF rb_thread_stop, rb_f_sleep, Idle
  <1>2. PICK f \in {"stop", "sleep", "timed_sleep"} : SleepBegin(t, f)
    BY DEF rb_thread_stop, rb_f_sleep
  <1>3. status[t] # "KILLED" /\ ~Joining(t)
    BY <1>1 DEF TInv, Places, PlaceFits, At, Joining
  <1>4. f \in SleepFrame \ {"join", "timed_join"}  BY DEF SleepFrame, Frame
  <1>5. flag' \in [Thread -> BOOLEAN]  BY <1>1 DEF TInv, Typed
  <1> QED  BY <1>1, <1>2, <1>3, <1>4, <1>5, SleepBeginInv
-----------------------------------------------------------------------------
(* What running code calls. *)

\* Thread#wakeup.
LEMMA WakeupInv ==
    ASSUME TInv, NEW t \in Thread, NEW u \in Thread, rb_thread_wakeup(t, u)
    PROVE  TInv'
  <1> USE DEF TInv, rb_thread_wakeup
  <1>1. flag' \in [Thread -> BOOLEAN] /\ flag'[u] /\ \A v \in Thread : flag[v] => flag'[v]
    BY DEF rb_threadptr_interrupt
  <1>2. Typed'  BY <1>1 DEF Typed, Status
  <1>3. pc[t] = "run"  BY DEF Idle
  <1>4. Others(t)  BY <1>1 DEF Others, Bystander, Typed
  <1>5. status'[t] # "KILLED" /\ status[t] # "KILLED"
    BY <1>3 DEF Typed, Places, PlaceFits
  <1>6. PlaceFits(t)'  BY <1>3, <1>5 DEF Places, PlaceFits, At
  <1> QED  BY <1>2, <1>3, <1>4, <1>5, <1>6, AwakeStep DEF Joining

\* Thread#raise.
LEMMA RaiseInv ==
    ASSUME TInv, NEW t \in Thread, NEW u \in Thread, rb_threadptr_raise(t, u)
    PROVE  TInv'
  <1> USE DEF TInv, rb_threadptr_raise
  <1>1. flag' \in [Thread -> BOOLEAN] /\ \A v \in Thread : flag[v] => flag'[v]
    BY DEF rb_threadptr_interrupt
  <1>2. pending' \in [Thread -> Seq({"raise", "kill", "fatal"})]  BY EnqueType DEF Typed
  <1>3. Typed'  BY <1>1, <1>2 DEF Typed
  <1>4. pc[t] = "run"  BY DEF Idle
  <1>5. Others(t)  BY <1>1 DEF Others, Bystander
  <1>6. PlaceFits(t)'  BY <1>4 DEF Places, PlaceFits, At
  <1> QED  BY <1>3, <1>4, <1>5, <1>6, AwakeStep DEF Joining

\* Thread#kill, of another thread and of the caller.
LEMMA KillInv ==
    ASSUME TInv, NEW t \in Thread, NEW u \in Thread, rb_thread_kill(t, u)
    PROVE  TInv'
  <1> USE DEF TInv, rb_thread_kill
  <1>1. CASE u # t
    <2>1. flag' \in [Thread -> BOOLEAN] /\ \A v \in Thread : flag[v] => flag'[v]
      BY <1>1 DEF rb_threadptr_interrupt
    <2>2. pending' \in [Thread -> Seq({"raise", "kill", "fatal"})]
      <3>1. pending' = Enque(pending, {u}, "kill")  BY <1>1
      <3>2. pending \in [Thread -> Seq({"raise", "kill", "fatal"})]  BY DEF Typed
      <3> QED  BY <3>1, <3>2, EnqueType
    <2>3. Typed'  BY <1>1, <2>1, <2>2 DEF Typed
    <2>4. pc[t] = "run" /\ pc' = pc  BY <1>1 DEF Idle
    <2>5. Others(t)  BY <2>1, <2>4 DEF Others, Bystander
    <2>6. PlaceFits(t)'  BY <2>4 DEF Places, PlaceFits, At
    <2> QED  BY <2>3, <2>4, <2>5, <2>6, AwakeStep DEF Joining
  <1>2. CASE u = t
    <2>1. pc[t] = "run" /\ pc'[t] = "unwind"  BY <1>2 DEF Idle, Typed
    <2>2. Typed'
      <3>1. <<>> \in Seq({"raise", "kill", "fatal"})  BY EmptySeq
      <3>2. to_kill' \in [Thread -> BOOLEAN]  BY <1>2 DEF Typed
      <3>3. pending' = [pending EXCEPT ![t] = <<>>]  BY <1>2
      <3>4. pending' \in [Thread -> Seq({"raise", "kill", "fatal"})]  BY <3>1, <3>3 DEF Typed
      <3> QED  BY <1>2, <3>2, <3>4 DEF Typed, Place
    <2>3. Others(t)  BY <1>2 DEF Others, Bystander, Typed
    <2>4. PlaceFits(t)'  BY <2>1 DEF Places, PlaceFits, At
    <2> QED  BY <2>1, <2>2, <2>3, <2>4, AwakeStep DEF Joining
  <1> QED  BY <1>1, <1>2

\* The program rescues an exception.
LEMMA RescueInv ==
    ASSUME TInv, NEW t \in Thread, Rescue(t)
    PROVE  TInv'
  <1> USE DEF TInv, Rescue
  <1>1. Typed'  BY DEF Typed, Place
  <1>2. pc'[t] = "run" /\ Others(t)  BY DEF Others, Bystander, Typed
  <1>3. PlaceFits(t)'  BY <1>2 DEF Places, PlaceFits, At
  <1> QED  BY <1>1, <1>2, <1>3, AwakeStep DEF Joining

\* thread_join puts the caller on the list of the thread it joins.
LEMMA JoinInv ==
    ASSUME TInv, NEW t \in Thread, NEW u \in Thread, thread_join(t, u)
    PROVE  TInv'
  <1> USE DEF TInv
  <1>1. PICK f \in {"join", "timed_join"} : SleepBegin(t, f)
    BY DEF thread_join
  <1>2. /\ pc[t] = "run" /\ u \notin {t, Main} /\ pc[u] # "new" /\ status[u] # "KILLED"
        /\ frame' = [frame EXCEPT ![t] = f]
        /\ status' = [status EXCEPT ![t] = SleepStatus(f)]
        /\ pc' = [pc EXCEPT ![t] = "check"] /\ running' = NoThread
        /\ join_list' = [join_list EXCEPT ![u] = @ \cup {t}]
        /\ target' = [target EXCEPT ![t] = u]
        /\ UNCHANGED <<flag, trap, saved, signals, pending, exc, to_kill, sleeper, living, fatal>>
    BY <1>1 DEF thread_join, SleepBegin, Idle
  <1>3. f \in SleepFrame /\ SleepStatus(f) \in Status \ {"KILLED"}
    BY DEF SleepFrame, Frame, SleepStatus, Status
  <1>4. Typed'  BY <1>2, <1>3 DEF Typed, Place, SleepFrame
  <1>5. /\ pc'[t] = "check" /\ frame'[t] = f /\ target'[t] = u
        /\ status'[t] # "KILLED" /\ status[t] # "KILLED" /\ t \in living
    BY <1>2, <1>3 DEF Typed, Places, PlaceFits
  <1>6. Others(t)  BY <1>2 DEF Others, Bystander, Typed
  <1>7. PlaceFits(t)'  BY <1>3, <1>5 DEF PlaceFits, At
  <1>8. Places'  BY <1>2, <1>4, <1>5, <1>6, <1>7, PlacesKept
  <1>9. ~Joining(t) /\ \A v \in Thread \ {t} : /\ Joining(v)' <=> Joining(v)
                                               /\ target'[v] = target[v]
    BY <1>2, <1>6 DEF Joining, Places, PlaceFits, At, Others, Bystander
  <1>10. /\ join_list'[u] = join_list[u] \cup {t}
         /\ \A v \in Thread \ {u} : join_list'[v] = join_list[v]
    BY <1>2 DEF Typed
  <1>11. JoinLists'
    <2>1. ASSUME NEW v \in Thread, Joining(v)'
          PROVE  /\ target'[v] \in Thread \ {Main}
                 /\ status'[target'[v]] = "KILLED" \/ v \in join_list'[target'[v]]
      BY <1>2, <1>5, <1>6, <1>9, <1>10, <2>1 DEF JoinLists, Others, Bystander
    <2>2. ASSUME NEW v \in living', NEW w \in join_list'[v]
          PROVE  target'[w] = v /\ Joining(w)' /\ w \in living'
      BY <1>2, <1>5, <1>9, <1>10, <2>2 DEF JoinLists, Joining, Typed
    <2>3. \A v \in Thread : pc'[v] = "new" => join_list'[v] = {}
      BY <1>2, <1>10 DEF JoinLists, Typed
    <2>4. join_list'[Main] = {}
      BY <1>2, <1>10, ThreadsAssumption DEF JoinLists
    <2> QED  BY <2>1, <2>2, <2>3, <2>4 DEF JoinLists
  <1>12. JoinersSeeEnd'
    <2>1. SeesEnd(t)'
      BY <1>2, <1>5, <1>6 DEF SeesEnd, Others, Bystander
    <2>2. ASSUME signals = 0, NEW v \in Thread \ {t} PROVE SeesEnd(v)'
      <3>1. frame[v] = "join" => target[v] \in Thread  BY DEF JoinLists, Joining
      <3> QED  BY <1>2, <1>5, <1>6, <2>2, <3>1
               DEF JoinersSeeEnd, SeesEnd, Slumbering, RUBY_VM_INTERRUPTED, Others, Bystander
    <2> QED  BY <1>2, <2>1, <2>2 DEF JoinersSeeEnd
  <1>13. WakeupReachesSleeper'  BY <1>2, <1>5, <1>6, WakeupKept DEF Slumbering
  <1>14. SleeperCount'
    <2>1. \A v \in Thread : Counts(v)' <=> Counts(v)
      BY <1>2, <1>5, <1>6 DEF Counts, Others, Bystander
    <2> QED  BY <1>2, <2>1, SameCount
  <1> QED  BY <1>4, <1>8, <1>11, <1>12, <1>13, <1>14

\* thread_join_sleep sleeps again.
LEMMA JoinAgainInv ==
    ASSUME TInv, NEW t \in Thread, JoinAgain(t)
    PROVE  TInv'
  <1> USE DEF TInv
  <1>1. /\ pc[t] = "back" /\ Joining(t) /\ status[target[t]] # "KILLED"
        /\ frame' = frame
        /\ status' = [status EXCEPT ![t] = SleepStatus(frame[t])]
        /\ pc' = [pc EXCEPT ![t] = "check"] /\ running' = NoThread
        /\ UNCHANGED <<flag, trap, saved, signals, pending, exc, to_kill, sleeper, living,
                       join_list, target, fatal>>
    BY DEF JoinAgain, SleepBegin, Joining, Typed
  <1>2. SleepStatus(frame[t]) \in Status \ {"KILLED"}
    BY DEF SleepStatus, Status
  <1>3. Typed'  BY <1>1, <1>2 DEF Typed, Place
  <1>4. pc'[t] = "check" /\ status'[t] # "KILLED" /\ status[t] # "KILLED"
    BY <1>1, <1>2 DEF Typed, Places, PlaceFits
  <1>5. Others(t)  BY <1>1 DEF Others, Bystander, Typed
  <1>6. PlaceFits(t)'  BY <1>1, <1>4 DEF PlaceFits, At, Places
  <1>7. SeesEnd(t)'  BY <1>1, <1>4, <1>5 DEF SeesEnd, Typed
  <1> QED  BY <1>1, <1>3, <1>4, <1>5, <1>6, <1>7, AwakeStep DEF Joining

\* remove_from_join_list takes the node off the list, unless the list is not used again.
LEMMA LeaveJoin ==
    ASSUME TInv, Typed', NEW t \in Thread, Joining(t), remove_from_join_list(t),
           pc[t] \in {"back", "unwind"}, pc'[t] \in {"run", "unwind"},
           \A u \in Thread \ {t} : pc'[u] = pc[u],
           UNCHANGED <<status, flag, trap, saved, signals, sleeper, living, fatal>>
    PROVE  TInv'
  <1> USE DEF TInv
  <1>1. /\ frame'[t] = "none"
        /\ \A u \in Thread \ {t} : frame'[u] = frame[u] /\ target'[u] = target[u]
    BY DEF remove_from_join_list, Typed
  <1>2. Others(t)  BY <1>1 DEF Others, Bystander
  <1>3. PlaceFits(t)'  BY <1>1 DEF Places, PlaceFits, At
  <1>4. Places'  BY <1>2, <1>3, PlacesKept
  <1>5. ~Joining(t)' /\ \A u \in Thread \ {t} : Joining(u)' <=> Joining(u)
    BY <1>1 DEF Joining
  <1>6. target[t] \in Thread \ {Main}  BY DEF JoinLists
  <1>7. \A u \in Thread : /\ join_list'[u] \subseteq join_list[u]
                          /\ join_list[u] \ {t} \subseteq join_list'[u]
    BY <1>6 DEF remove_from_join_list, Typed
  <1>8. JoinLists'
    <2>1. ASSUME NEW v \in Thread, Joining(v)'
          PROVE  /\ target'[v] \in Thread \ {Main}
                 /\ status'[target'[v]] = "KILLED" \/ v \in join_list'[target'[v]]
      BY <1>1, <1>5, <1>7, <2>1 DEF JoinLists
    <2>2. ASSUME NEW v \in living', NEW w \in join_list'[v]
          PROVE  target'[w] = v /\ Joining(w)' /\ w \in living'
      <3>1. target[w] = v /\ Joining(w) /\ w \in living /\ w \in Thread /\ v \in Thread
        BY <1>7, <2>2 DEF JoinLists, Typed
      <3>2. CASE w # t  BY <1>1, <1>5, <3>1, <3>2
      <3>3. CASE w = t
        <4>1. status[v] # "KILLED"  BY <1>6, <3>1, <3>3 DEF Places, PlaceFits
        <4>2. t \notin join_list'[v]  BY <3>1, <3>3, <4>1 DEF remove_from_join_list, Typed
        <4> QED  BY <3>3, <4>2
      <3> QED  BY <3>2, <3>3
    <2>3. ASSUME NEW v \in Thread, pc'[v] = "new" PROVE join_list'[v] = {}
      <3>1. pc[v] = "new"  BY <2>3
      <3> QED  BY <1>7, <3>1 DEF JoinLists
    <2>4. join_list'[Main] = {}
      BY <1>7, ThreadsAssumption DEF JoinLists
    <2> QED  BY <2>1, <2>2, <2>3, <2>4 DEF JoinLists
  <1>9. JoinersSeeEnd'
    <2>1. SeesEnd(t)'  BY <1>1 DEF SeesEnd
    <2>2. ASSUME signals = 0, NEW v \in Thread \ {t} PROVE SeesEnd(v)'
      BY <1>1, <2>2 DEF JoinersSeeEnd, SeesEnd, Slumbering, RUBY_VM_INTERRUPTED
    <2> QED  BY <2>1, <2>2 DEF JoinersSeeEnd
  <1>10. WakeupReachesSleeper'  BY <1>2, WakeupKept DEF Slumbering
  <1>11. SleeperCount'
    <2>1. \A v \in Thread : Counts(v)' <=> Counts(v)
      BY <1>1 DEF Counts
    <2> QED  BY <2>1, SameCount
  <1> QED  BY <1>4, <1>8, <1>9, <1>10, <1>11

\* thread_join returns.
LEMMA JoinReturnInv ==
    ASSUME TInv, NEW t \in Thread, JoinReturn(t)
    PROVE  TInv'
  <1>1. Joining(t) /\ target[t] \in Thread
    BY DEF JoinReturn, TInv, JoinLists, Joining
  <1>2. Typed'
    BY <1>1 DEF JoinReturn, RaiseError, remove_from_join_list, TInv, Typed, Place, Frame
  <1>3. pc'[t] \in {"run", "unwind"} /\ \A u \in Thread \ {t} : pc'[u] = pc[u]
    BY DEF JoinReturn, RaiseError, TInv, Typed
  <1> QED  BY <1>1, <1>2, <1>3, LeaveJoin DEF JoinReturn

\* An exception leaves a sleep or a join.
LEMMA UnwindSleepInv ==
    ASSUME TInv, NEW t \in Thread, UnwindSleep(t)
    PROVE  TInv'
  <1>1. CASE Joining(t)
    <2>1. remove_from_join_list(t) /\ target[t] \in Thread
      BY <1>1 DEF UnwindSleep, Joining, TInv, JoinLists
    <2>2. Typed'
      BY <2>1 DEF UnwindSleep, remove_from_join_list, TInv, Typed, Frame
    <2> QED  BY <1>1, <2>1, <2>2, LeaveJoin DEF UnwindSleep
  <1>2. CASE ~Joining(t)
    <2> USE DEF TInv
    <2>1. /\ pc[t] = "unwind" /\ frame' = [frame EXCEPT ![t] = "none"]
          /\ UNCHANGED <<running, pc, status, flag, trap, saved, signals, pending, exc,
                         to_kill, sleeper, living, join_list, target, fatal>>
      BY <1>2 DEF UnwindSleep, Joining
    <2>2. Typed'  BY <2>1 DEF Typed, Frame
    <2>3. Others(t) /\ frame'[t] = "none"  BY <2>1 DEF Others, Bystander, Typed
    <2>4. PlaceFits(t)'  BY <2>1 DEF Places, PlaceFits, At
    <2> QED  BY <1>2, <2>1, <2>2, <2>3, <2>4, AwakeStep DEF Joining
  <1> QED  BY <1>1, <1>2
-----------------------------------------------------------------------------
(* Beginning and end. *)

\* Thread.new: nobody joins, or counts, a thread that has not begun.
LEMMA CreateInv ==
    ASSUME TInv, NEW t \in Thread, NEW u \in Thread, thread_create_core(t, u)
    PROVE  TInv'
  <1> USE DEF TInv, thread_create_core
  <1>1. /\ pc'[u] = "run" /\ \A v \in Thread \ {u} : pc'[v] = pc[v]
        /\ u \notin living /\ u # Main /\ frame[u] = "none" /\ status[u] # "KILLED"
    BY DEF Typed, Places, PlaceFits, At
  <1>2. Typed'  BY DEF Typed, Place
  <1>3. Places'
    <2>1. PlaceFits(u)'  BY <1>1 DEF PlaceFits, At
    <2>2. \A v \in Thread \ {u} : PlaceFits(v)'  BY <1>1 DEF Places, PlaceFits, At
    <2>3. \A v \in Thread : v \in living' <=> pc'[v] \notin {"new", "dead"}
      BY <1>1 DEF Places
    <2> QED  BY <1>1, <2>1, <2>2, <2>3, ThreadsAssumption DEF Places
  <1>4. JoinLists'
    <2>1. join_list[u] = {}  BY DEF JoinLists
    <2> QED  BY <1>1, <2>1 DEF JoinLists, Joining
  <1>5. JoinersSeeEnd'
    BY <1>1 DEF JoinersSeeEnd, SeesEnd, Slumbering, RUBY_VM_INTERRUPTED
  <1>6. WakeupReachesSleeper'
    BY <1>1 DEF WakeupReachesSleeper, Slumbering, RUBY_VM_INTERRUPTED
  <1>7. SleeperCount'
    <2>1. Counted' = Counted  BY <1>1 DEF Counted, Counts, Typed
    <2> QED  BY <2>1 DEF SleeperCount
  <1> QED  BY <1>2, <1>3, <1>4, <1>5, <1>6, <1>7

\* What the end of thread t does to the flags, the status and the queues.
EndEffect(t) ==
    /\ pc'[t] = "dead" /\ \A v \in Thread \ {t} : pc'[v] = pc[v]
    /\ frame' = frame
    /\ status'[t] = "KILLED"
    /\ \A v \in Thread \ {t} : \/ status'[v] = status[v] /\ v \notin join_list[t]
                               \/ status'[v] = status[v] /\ status[v] \notin {"STOPPED", "STOPPED_FOREVER"}
                               \/ status'[v] = "RUNNABLE" /\ v \in join_list[t] /\ status[v] # "KILLED"
    /\ \A v \in Thread : flag[v] \/ v \in join_list[t] => flag'[v]
    /\ living' = living \ {t}
    /\ UNCHANGED <<trap, saved, signals, join_list, target>>

\* It runs rb_check_deadlock with the flags of those it has interrupted.
EndChecks(t, unlocked, served, patrol) ==
    \E fl \in [Thread -> BOOLEAN] :
        /\ fl = flag' \/ fatal'
        /\ \A v \in Thread : flag[v] \/ v \in unlocked => fl[v]
        /\ rb_check_deadlock(t, status', fl, sleeper, living', served, patrol, 0)

\* What the end of a thread changes, and that rb_check_deadlock is the last thing it
\* does unless abort_on_exception makes it interrupt the main thread instead.
LEMMA ThreadEndEffect ==
    ASSUME TInv, NEW t \in Thread, NEW abort \in BOOLEAN, NEW unlocked, NEW served, NEW patrol,
           ThreadEnd(t, abort, unlocked, served, patrol)
    PROVE  /\ Typed' /\ EndEffect(t)
           /\ \/ UNCHANGED <<sleeper, fatal>> /\ flag'[Main]
              \/ EndChecks(t, unlocked, served, patrol)
  <1> USE DEF TInv
  <1> DEFINE joiners == join_list[t]
             last == IF status[Main] = "KILLED" /\ Cardinality(living \ {t}) = 1 THEN {Main} ELSE {}
             raised == IF abort THEN {Main} ELSE {}
             st == [u \in Thread |->
                      IF u = t THEN "KILLED"
                      ELSE IF u \in joiners /\ status[u] \in {"STOPPED", "STOPPED_FOREVER"}
                           THEN "RUNNABLE" ELSE status[u]]
             fl == rb_threadptr_interrupt(flag, joiners \cup last \cup raised \cup unlocked)
  <1>1. /\ living' = living \ {t} /\ status' = st
        /\ IF abort
           THEN /\ pending' = Enque(pending, {Main}, "raise")
                /\ flag' = fl
                /\ UNCHANGED <<sleeper, fatal>>
           ELSE rb_check_deadlock(t, st, fl, sleeper, living \ {t}, served, patrol, 0)
        /\ pc' = [pc EXCEPT ![t] = "dead"]
        /\ exc' = [exc EXCEPT ![t] = "none"] /\ running' = NoThread
        /\ UNCHANGED <<frame, trap, saved, signals, to_kill, join_list, target>>
    BY DEF ThreadEnd
  <1>2. /\ fl \in [Thread -> BOOLEAN]
        /\ \A v \in Thread : flag[v] \/ v \in joiners \/ v \in unlocked => fl[v]
    BY DEF rb_threadptr_interrupt
  <1>3. abort => fl[Main]
    BY ThreadsAssumption DEF rb_threadptr_interrupt
  <1>4. st \in [Thread -> Status]  BY DEF Typed, Status
  <1> HIDE DEF fl
  <1>5. /\ pending' \in [Thread -> Seq({"raise", "kill", "fatal"})]
        /\ flag' \in [Thread -> BOOLEAN] /\ (\A v \in Thread : fl[v] => flag'[v])
        /\ fatal' \in BOOLEAN
    <2>1. CASE abort
      <3>1. pending' \in [Thread -> Seq({"raise", "kill", "fatal"})]
        <4>1. pending' = Enque(pending, {Main}, "raise")  BY <1>1, <2>1
        <4>2. pending \in [Thread -> Seq({"raise", "kill", "fatal"})]  BY DEF Typed
        <4> QED  BY <4>1, <4>2, EnqueType
      <3> QED  BY <1>1, <1>2, <2>1, <3>1 DEF Typed
    <2>2. CASE ~abort
      BY <1>1, <1>2, <2>2, CheckDeadlockType
    <2> QED  BY <2>1, <2>2
  <1>6. Typed'  BY <1>1, <1>4, <1>5 DEF Typed, Place
  <1>7. EndEffect(t)
    <2>1. pc'[t] = "dead" /\ \A v \in Thread \ {t} : pc'[v] = pc[v]  BY <1>1 DEF Typed
    <2>2. /\ status'[t] = "KILLED"
          /\ \A v \in Thread \ {t} :
               \/ status'[v] = status[v] /\ v \notin join_list[t]
               \/ status'[v] = status[v] /\ status[v] \notin {"STOPPED", "STOPPED_FOREVER"}
               \/ status'[v] = "RUNNABLE" /\ v \in join_list[t] /\ status[v] # "KILLED"
      BY <1>1 DEF Typed
    <2>3. \A v \in Thread : flag[v] \/ v \in join_list[t] => flag'[v]
      BY <1>2, <1>5
    <2> QED  BY <1>1, <2>1, <2>2, <2>3 DEF EndEffect
  <1>8. CASE abort
    BY <1>1, <1>3, <1>6, <1>7, <1>8
  <1>9. CASE ~abort
    <2>1. rb_check_deadlock(t, status', fl, sleeper, living', served, patrol, 0)
      BY <1>1, <1>9
    <2>2. fl = flag' \/ fatal'  BY <2>1 DEF rb_check_deadlock
    <2>3. EndChecks(t, unlocked, served, patrol)  BY <1>2, <2>1, <2>2 DEF EndChecks
    <2> QED  BY <1>6, <1>7, <2>3
  <1> QED  BY <1>8, <1>9

\* A thread ends: it interrupts all threads on its join_list, so they see its end.
LEMMA ThreadEndInv ==
    ASSUME TInv, NEW t \in Thread, NEW abort \in BOOLEAN, NEW unlocked, NEW served, NEW patrol,
           ThreadEnd(t, abort, unlocked, served, patrol)
    PROVE  TInv'
  <1> USE DEF TInv
  <1>1. Typed' /\ EndEffect(t)  BY ThreadEndEffect
  <1>2. /\ t # Main /\ frame[t] = "none" /\ pc[t] \in {"run", "unwind"}
        /\ t \in living /\ status[t] # "KILLED"
    BY DEF ThreadEnd, Places, PlaceFits
  <1>3. Others(t)  BY <1>1 DEF Others, Bystander, EndEffect
  <1>4. Places'
    <2>1. \A v \in Thread \ {t} : PlaceFits(v)'
      BY <1>1, <1>3 DEF EndEffect, Others, Bystander, Places, PlaceFits, At
    <2>2. PlaceFits(t)'  BY <1>1, <1>2 DEF EndEffect, PlaceFits, At
    <2>3. \A v \in Thread : v \in living' <=> pc'[v] \notin {"new", "dead"}
      BY <1>1 DEF EndEffect, Places
    <2>4. pc'[Main] = pc[Main] /\ Main \in living'
      BY <1>1, <1>2, ThreadsAssumption DEF EndEffect, Places
    <2> QED  BY <1>1, <2>1, <2>2, <2>3, <2>4 DEF EndEffect, Places
  <1>5. \A v \in Thread : status[v] = "KILLED" => status'[v] = "KILLED"
    BY <1>1 DEF EndEffect
  <1>6. \A v \in Thread : status'[v] = "KILLED" => status[v] = "KILLED" \/ v = t
    BY <1>1 DEF EndEffect
  <1>7. JoinLists'
    <2>1. \A v \in Thread : Joining(v)' <=> Joining(v)  BY <1>1 DEF EndEffect, Joining
    <2>2. ~Joining(t)  BY <1>2 DEF Joining
    <2>3. \A v \in Thread : pc'[v] = "new" => pc[v] = "new"  BY <1>1 DEF EndEffect
    <2> QED  BY <1>1, <1>5, <2>1, <2>2, <2>3 DEF EndEffect, JoinLists, Typed
  <1>8. JoinersSeeEnd'
    <2> SUFFICES ASSUME signals = 0, NEW v \in Thread, frame[v] = "join",
                        status'[target[v]] = "KILLED"
                 PROVE  ~Slumbering(v)' /\ (pc'[v] = "check" => status'[v] # "STOPPED_FOREVER")
      BY <1>1 DEF EndEffect, JoinersSeeEnd, SeesEnd
    <2>1. v # t /\ target[v] \in Thread  BY <1>2 DEF JoinLists, Joining
    <2>2. CASE status[target[v]] = "KILLED"
      <3>1. ~Slumbering(v) /\ (pc[v] = "check" => status[v] # "STOPPED_FOREVER")
        BY <2>2 DEF JoinersSeeEnd, SeesEnd
      <3> QED  BY <1>1, <2>1, <3>1 DEF EndEffect, Slumbering, RUBY_VM_INTERRUPTED
    <2>3. CASE target[v] = t
      <3>1. v \in join_list[t]  BY <1>2, <2>1, <2>3 DEF JoinLists, Joining
      <3> QED  BY <1>1, <2>1, <3>1 DEF EndEffect, Slumbering, RUBY_VM_INTERRUPTED
    <2> QED  BY <1>6, <2>1, <2>2, <2>3
  <1>9. WakeupReachesSleeper'
    BY <1>1, <1>3, WakeupKept DEF EndEffect, Slumbering
  <1>10. SleeperCount'
    <2>1. Counted' = Counted
      BY <1>1, <1>2 DEF EndEffect, Counted, Counts, Typed
    <2>2. CASE UNCHANGED <<sleeper, fatal>>
      BY <2>1, <2>2 DEF SleeperCount
    <2>3. CASE \E fl \in [Thread -> BOOLEAN] :
                  rb_check_deadlock(t, status', fl, sleeper, living', served, patrol, 0)
      <3>1. PICK fl \in [Thread -> BOOLEAN] :
                    rb_check_deadlock(t, status', fl, sleeper, living', served, patrol, 0)
        BY <2>3
      <3>2. /\ IsFiniteSet(living') /\ Cardinality(living') \in Nat
            /\ Cardinality(Counted') <= Cardinality(living')
        <4>1. Counted' \subseteq living' /\ living' \subseteq living
          BY <1>1 DEF Counted, EndEffect
        <4>2. IsFiniteSet(living')  BY <4>1, CountedFinite, FS_Subset
        <4> QED  BY <4>1, <4>2, FS_Subset, FS_CardinalityType
      <3>3. Cardinality(Counted') \in Nat  BY <2>1, CountedFinite
      <3> DEFINE st == status'
                 alive == living'
      <3>4. /\ rb_check_deadlock(t, st, fl, sleeper, alive, served, patrol, 0)
            /\ Cardinality(alive) \in Nat /\ Cardinality(Counted') + 0 <= Cardinality(alive)
        BY <3>1, <3>2, <3>3
      <3>5. /\ sleeper \in Int /\ 0 \in Nat
            /\ sleeper - 0 \in {Cardinality(Counted'), Cardinality(Counted') - 1}
            /\ ~fatal => sleeper - 0 = Cardinality(Counted')
        BY <2>1, <3>3 DEF SleeperCount
      <3> HIDE DEF st, alive
      <3> QED  BY <3>3, <3>4, <3>5, CheckedCount
    <2> QED  BY <2>2, <2>3, ThreadEndEffect DEF EndChecks
  <1> QED  BY <1>1, <1>4, <1>7, <1>8, <1>9, <1>10

\* The main thread begins to terminate the others.
LEMMA TerminateAllInv ==
    ASSUME TInv, NEW unlocked, TerminateAll(unlocked)
    PROVE  TInv'
  <1> USE DEF TInv, TerminateAll
  <1>0. Main \in Thread  BY ThreadsAssumption
  <1>1. flag' \in [Thread -> BOOLEAN] /\ \A v \in Thread \ {Main} : flag[v] => flag'[v]
    BY DEF rb_threadptr_interrupt, Typed
  <1>2. pending' \in [Thread -> Seq({"raise", "kill", "fatal"})]
    <2>1. pending' = Enque(TakeOne(Main), living \ {Main}, "kill")  OBVIOUS
    <2>2. TakeOne(Main) \in [Thread -> Seq({"raise", "kill", "fatal"})]
      BY <1>0, HeadTailProperties DEF Typed, TakeOne
    <2> QED  BY <2>1, <2>2, EnqueType
  <1>3. Typed'  BY <1>1, <1>2 DEF Typed, Place, Status
  <1>4. /\ pc[Main] \in {"run", "unwind"} /\ pc'[Main] = "term" /\ status'[Main] = "KILLED"
        /\ frame'[Main] = "none"
    BY <1>0 DEF Typed
  <1>5. Others(Main)  BY <1>0, <1>1 DEF Others, Bystander, Typed
  <1>6. PlaceFits(Main)'  BY <1>4 DEF PlaceFits, At
  <1> QED  BY <1>0, <1>3, <1>4, <1>5, <1>6, AwakeStep DEF Joining

\* A turn of the loop of rb_thread_terminate_all.
LEMMA TerminateLoopInv ==
    ASSUME TInv, TerminateLoop
    PROVE  TInv'
  <1> USE DEF TInv
  <1>0. Main \in Thread  BY ThreadsAssumption
  <1>1. /\ pc[Main] = "term"
        /\ UNCHANGED <<running, frame, status, trap, saved, signals, exc, to_kill, sleeper,
                       living, join_list, target, fatal>>
    BY DEF TerminateLoop
  <1>2. /\ flag' \in [Thread -> BOOLEAN] /\ (\A v \in Thread \ {Main} : flag[v] => flag'[v])
        /\ pc' \in [Thread -> Place] /\ (\A v \in Thread \ {Main} : pc'[v] = pc[v])
        /\ pc'[Main] \in {"term", "terminated"}
        /\ pending' \in [Thread -> Seq({"raise", "kill", "fatal"})]
    <2>1. CASE pending[Main] # <<>>
      <3> DEFINE pq == [pending EXCEPT ![Main] = Tail(@)]
                 fl == rb_threadptr_interrupt(flag, living \ {Main})
      <3>1. /\ pending' = Enque(pq, living \ {Main}, "kill")
            /\ flag' = [fl EXCEPT ![Main] = FALSE]
            /\ pc' = pc
        BY <2>1 DEF TerminateLoop
      <3>2. pq \in [Thread -> Seq({"raise", "kill", "fatal"})]
        <4>1. Tail(pending[Main]) \in Seq({"raise", "kill", "fatal"})
          BY <1>0, <2>1, HeadTailProperties DEF Typed
        <4> QED  BY <4>1 DEF Typed
      <3>3. fl \in [Thread -> BOOLEAN] /\ \A v \in Thread : flag[v] => fl[v]
        BY DEF rb_threadptr_interrupt
      <3> HIDE DEF pq, fl
      <3>4. flag' \in [Thread -> BOOLEAN] /\ \A v \in Thread \ {Main} : flag[v] => flag'[v]
        BY <3>1, <3>3
      <3>5. pending' \in [Thread -> Seq({"raise", "kill", "fatal"})]
        BY <3>1, <3>2, EnqueType
      <3> QED  BY <1>1, <3>1, <3>4, <3>5 DEF Typed
    <2>2. CASE pending[Main] = <<>>
      <3>1. /\ flag' = [flag EXCEPT ![Main] = FALSE]
            /\ pc' = [pc EXCEPT ![Main] = IF living = {Main} THEN "terminated" ELSE @]
            /\ pending' = pending
        BY <2>2 DEF TerminateLoop
      <3>2. flag' \in [Thread -> BOOLEAN]  BY <3>1 DEF Typed
      <3> QED  BY <1>0, <1>1, <3>1, <3>2 DEF Typed, Place
    <2> QED  BY <2>1, <2>2
  <1>3. Typed'  BY <1>1, <1>2 DEF Typed
  <1>4. Others(Main)  BY <1>1, <1>2 DEF Others, Bystander
  <1>5. PlaceFits(Main)'  BY <1>0, <1>1, <1>2 DEF Places, PlaceFits, At
  <1> QED  BY <1>0, <1>1, <1>2, <1>3, <1>4, <1>5, AwakeStep DEF Joining

\* rb_thread_atfork: nobody is left but the main thread, which does not sleep.
LEMMA ForkInv ==
    ASSUME TInv, rb_thread_atfork
    PROVE  TInv'
  <1> USE DEF TInv, rb_thread_atfork
  <1>0. Main \in Thread /\ pc[Main] = "run" /\ frame[Main] = "none"
    BY ThreadsAssumption DEF Places, PlaceFits, At
  <1>1. Typed'
    BY <1>0 DEF Typed, Place, Frame, Status
  <1>2. \A u \in Thread \ {Main} :
           /\ u \in living => pc'[u] = "dead" /\ frame'[u] = "none" /\ status'[u] = "KILLED"
           /\ u \notin living => /\ pc'[u] = pc[u] /\ frame'[u] = frame[u] /\ status'[u] = status[u]
                                 /\ pc[u] \in {"new", "dead"} /\ frame[u] = "none"
    BY DEF Places, PlaceFits, At
  <1>3. pc'[Main] = "run" /\ frame'[Main] = "none" /\ status'[Main] = status[Main]
    BY <1>0
  <1>4. Places'
    <2>1. PlaceFits(Main)'  BY <1>0, <1>3 DEF Places, PlaceFits, At
    <2>2. \A u \in Thread \ {Main} : PlaceFits(u)'  BY <1>2 DEF Places, PlaceFits, At
    <2>3. \A u \in Thread : u \in living' <=> pc'[u] \notin {"new", "dead"}
      BY <1>2, <1>3
    <2> QED  BY <1>0, <1>3, <2>1, <2>2, <2>3 DEF Places
  <1>5. JoinLists'
    <2>1. \A u \in Thread : frame'[u] = "none"  BY <1>2, <1>3
    <2>2. \A u \in Thread : pc'[u] = "new" => pc[u] = "new" /\ u # Main  BY <1>2, <1>3
    <2>3. join_list'[Main] = {} /\ \A u \in Thread \ {Main} : join_list'[u] = join_list[u]
      BY <1>0 DEF Typed
    <2> QED  BY <2>1, <2>2, <2>3 DEF JoinLists, Joining
  <1>6. \A u \in Thread : pc'[u] \notin {"asleep", "lock_sleep"} /\ frame'[u] # "join"
    BY <1>2, <1>3
  <1>7. JoinersSeeEnd'  BY <1>6 DEF JoinersSeeEnd, SeesEnd
  <1>8. WakeupReachesSleeper'  BY <1>6 DEF WakeupReachesSleeper, Slumbering
  <1>9. SleeperCount'
    <2>1. Counted' = {}  BY <1>1, <1>6 DEF Counted, Counts, Typed
    <2> QED  BY <2>1, FS_EmptySet DEF SleeperCount
  <1> QED  BY <1>1, <1>4, <1>5, <1>7, <1>8, <1>9
-----------------------------------------------------------------------------
\* The process begins with the main thread alone.
LEMMA InitTInv == Init => TInv
  <1> SUFFICES ASSUME Init PROVE TInv
    OBVIOUS
  <1> USE DEF Init
  <1>1. Typed
    <2>1. <<>> \in Seq({"raise", "kill", "fatal"})  BY EmptySeq
    <2>2. flag \in [Thread -> BOOLEAN] /\ to_kill \in [Thread -> BOOLEAN] /\ trap \in BOOLEAN
          /\ fatal \in BOOLEAN
      OBVIOUS
    <2> QED  BY <2>1, <2>2, ThreadsAssumption DEF Typed, Place, Frame, Status
  <1>2. Places  BY ThreadsAssumption DEF Places, PlaceFits, At
  <1>3. JoinLists  BY ThreadsAssumption DEF JoinLists, Joining
  <1>4. JoinersSeeEnd  BY DEF JoinersSeeEnd, SeesEnd
  <1>5. WakeupReachesSleeper  BY DEF WakeupReachesSleeper, Slumbering
  <1>6. SleeperCount
    <2>1. Counted = {}  BY ThreadsAssumption DEF Counted, Counts
    <2> QED  BY <2>1, FS_EmptySet DEF SleeperCount
  <1> QED  BY <1>1, <1>2, <1>3, <1>4, <1>5, <1>6 DEF TInv

\* The steps that the modules above this one share.
LEMMA ProgramInv ==
    ASSUME TInv, NEW t \in Thread, Program(t)
    PROVE  TInv'
  <1>0. CASE CallRaises(t)  BY <1>0, CallRaisesInv
  <1>1. CASE ~CallRaises(t) /\ (rb_thread_stop(t) \/ rb_f_sleep(t))  BY <1>1, SleepInv
  <1>2. CASE Rescue(t)  BY <1>2, RescueInv
  <1>3. CASE \E u \in Thread : rb_thread_wakeup(t, u)  BY <1>3, WakeupInv
  <1>4. CASE \E u \in Thread : rb_threadptr_raise(t, u)  BY <1>4, RaiseInv
  <1>5. CASE \E u \in Thread : rb_thread_kill(t, u)  BY <1>5, KillInv
  <1>6. CASE \E u \in Thread : thread_join(t, u)  BY <1>6, JoinInv
  <1>7. CASE \E u \in Thread : thread_create_core(t, u)  BY <1>7, CreateInv
  <1> QED  BY <1>0, <1>1, <1>2, <1>3, <1>4, <1>5, <1>6, <1>7 DEF Program, thread_join_ended

\* What a thread does on its own, but for going into native_sleep.
LEMMA ProceedInv ==
    ASSUME TInv, NEW t \in Thread,
           \/ RaiseInterrupt(t) \/ CheckIntsInCode(t) \/ InterruptedWakeUp(t) \/ TimeoutWakeUp(t)
           \/ SpuriousWakeUp(t) \/ SleepEnd(t) \/ SleepReturn(t) \/ JoinAgain(t) \/ JoinReturn(t)
           \/ UnwindSleep(t)
    PROVE  TInv'
  <1>1. CASE RaiseInterrupt(t)  BY <1>1, DeliverInv
  <1>2. CASE CheckIntsInCode(t)  BY <1>2, CheckInCodeInv
  <1>3. CASE InterruptedWakeUp(t) \/ TimeoutWakeUp(t) \/ SpuriousWakeUp(t)  BY <1>3, WakeUpInv
  <1>4. CASE SleepEnd(t)  BY <1>4, SleepEndInv
  <1>5. CASE SleepReturn(t)  BY <1>5, SleepReturnInv
  <1>6. CASE JoinAgain(t)  BY <1>6, JoinAgainInv
  <1>7. CASE JoinReturn(t)  BY <1>7, JoinReturnInv
  <1>8. CASE UnwindSleep(t)  BY <1>8, UnwindSleepInv
  <1> QED  BY <1>1, <1>2, <1>3, <1>4, <1>5, <1>6, <1>7, <1>8

\* The steps of a signal.
LEMMA SignalledInv ==
    ASSUME TInv, Signalled
    PROVE  TInv'
  BY TrapInterruptInv, TrapEnterInv, TrapReturnInv DEF Signalled

\* Steps that leave the threads alone.
LEMMA SameTInv ==
    ASSUME TInv, UNCHANGED core
    PROVE  TInv'
  <1> USE DEF TInv, core
  <1>1. Typed'  BY DEF Typed
  <1>2. Places'  BY DEF Places, PlaceFits, At
  <1>3. JoinLists'  BY DEF JoinLists, Joining
  <1>4. JoinersSeeEnd'  BY DEF JoinersSeeEnd, SeesEnd, Slumbering, RUBY_VM_INTERRUPTED
  <1>5. WakeupReachesSleeper'  BY DEF WakeupReachesSleeper, Slumbering, RUBY_VM_INTERRUPTED
  <1>6. SleeperCount'  BY SameCount DEF Counts
  <1> QED  BY <1>1, <1>2, <1>3, <1>4, <1>5, <1>6

\* Every step of Threads keeps the invariant.
LEMMA NextTInv == TInv /\ [Next]_core => TInv'
  <1> SUFFICES ASSUME TInv, [Next]_core PROVE TInv'
    OBVIOUS
  <1>1. CASE UNCHANGED core  BY <1>1, SameTInv
  <1>2. CASE \E t \in Thread : Proceed(t) \/ Program(t) \/ End(t) \/ SpuriousWakeUp(t)
    <2>1. PICK t \in Thread : Proceed(t) \/ Program(t) \/ End(t) \/ SpuriousWakeUp(t)
      BY <1>2
    <2>2. CASE Proceed(t)  BY <2>2, ProceedInv, NativeSleepInv DEF Proceed
    <2>3. CASE Program(t)  BY <2>3, ProgramInv
    <2>4. CASE End(t)
      <3>1. PICK abort \in BOOLEAN : ThreadEnd(t, abort, {}, {}, NoThread)
        BY <2>4, Zenon DEF End
      <3> QED  BY <3>1, ThreadEndInv, Zenon
    <2>5. CASE SpuriousWakeUp(t)  BY <2>5, ProceedInv
    <2> QED  BY <2>1, <2>2, <2>3, <2>4, <2>5
  <1>3. CASE Signalled  BY <1>3, SignalledInv
  <1>4. CASE TerminateAll({})  BY <1>4, TerminateAllInv
  <1>5. CASE TerminateLoop  BY <1>5, TerminateLoopInv
  <1>6. CASE rb_thread_atfork  BY <1>6, ForkInv
  <1> QED  BY <1>1, <1>2, <1>3, <1>4, <1>5, <1>6 DEF Next

\* The inductive invariant holds in every state of every behaviour of the threads of
\* thread.c: the counter vm->sleeper, the join lists and the places of the threads.
THEOREM ThreadsInvariance == Spec => []TInv
  BY InitTInv, NextTInv, PTL DEF Spec
-----------------------------------------------------------------------------
(* Deadlocks. *)

\* t sleeps until another thread wakes it up, and rb_check_deadlock counts it.
Stuck(t) == Slumbering(t) /\ frame[t] \in Deadlockable

\* A thread that goes to sleep as the last one finds that out.
LEMMA NativeSleepReports ==
    ASSUME TInv, DeadlockIsReported, NEW t \in Thread, NativeSleep(t, {}, NoThread)
    PROVE  DeadlockIsReported'
  <1> USE DEF TInv
  <1> SUFFICES ASSUME ~fatal', \A u \in living' : Stuck(u)'
               PROVE  FALSE
    BY DEF DeadlockIsReported, Stuck
  <1> DEFINE fl == [flag EXCEPT ![t] = FALSE]
  <1>1. /\ pc[t] \in {"check", "woken"} /\ t \in living
        /\ status[t] = SleepStatus(frame[t])
        /\ IF frame[t] \in Deadlockable
           THEN rb_check_deadlock(t, status, fl, sleeper + 1, living, {}, NoThread, 0)
           ELSE flag' = fl /\ UNCHANGED <<pending, sleeper, fatal>>
        /\ pc' = [pc EXCEPT ![t] = "asleep"]
        /\ UNCHANGED <<frame, status, trap, living>>
    BY DEF NativeSleep, Places
  <1>2. frame[t] \in Deadlockable  BY <1>1 DEF Stuck
  <1>3. /\ ~NoLiveThreadLeft(t, status, fl, sleeper + 1, living, {}, NoThread)
        /\ flag' = fl /\ ~fatal
    BY <1>1, <1>2 DEF rb_check_deadlock
  <1>4. \A u \in living \ {t} : Stuck(u)
    BY <1>1, <1>3 DEF Stuck, Slumbering, RUBY_VM_INTERRUPTED, Typed
  <1>5. \A u \in living : status[u] = "STOPPED_FOREVER"
    BY <1>1, <1>2, <1>4 DEF Stuck, WakeupReachesSleeper, SleepStatus, Typed
  <1>6. \A u \in living : ~RUBY_VM_INTERRUPTED(u, fl)
    BY <1>1, <1>3 DEF Stuck, Slumbering, RUBY_VM_INTERRUPTED, Typed
  <1>7. Cardinality(living) <= sleeper + 1
    <2>1. living = Counted \cup {t} /\ t \notin Counted
      BY <1>1, <1>4 DEF Counted, Counts, Stuck, Slumbering
    <2>2. Cardinality(living) = Cardinality(Counted) + 1
      BY <2>1, CountedFinite, FS_AddElement
    <2> QED  BY <1>3, <2>2, CountedFinite DEF SleeperCount
  <1> QED  BY <1>3, <1>5, <1>6, <1>7 DEF NoLiveThreadLeft

\* A thread that ends and leaves only sleepers behind finds that out.
LEMMA ThreadEndReports ==
    ASSUME TInv, DeadlockIsReported, NEW t \in Thread, NEW abort \in BOOLEAN,
           ThreadEnd(t, abort, {}, {}, NoThread)
    PROVE  DeadlockIsReported'
  <1> USE DEF TInv
  <1> SUFFICES ASSUME ~fatal', \A u \in living' : Stuck(u)'
               PROVE  FALSE
    BY DEF DeadlockIsReported, Stuck
  <1>1. EndEffect(t) /\ t # Main /\ pc[t] \in {"run", "unwind"}
    <2>1. EndEffect(t)  BY ThreadEndEffect
    <2> QED  BY <2>1 DEF ThreadEnd
  <1>2. \/ UNCHANGED <<sleeper, fatal>> /\ flag'[Main]
        \/ \E fl \in [Thread -> BOOLEAN] :
             /\ fl = flag' \/ fatal'
             /\ rb_check_deadlock(t, status', fl, sleeper, living', {}, NoThread, 0)
    BY ThreadEndEffect DEF EndChecks
  <1>3. ~flag'[Main]
    <2>1. Main \in living'  BY <1>1 DEF EndEffect, Places
    <2> QED  BY <2>1 DEF Stuck, Slumbering, RUBY_VM_INTERRUPTED
  <1>4. rb_check_deadlock(t, status', flag', sleeper, living', {}, NoThread, 0)
    BY <1>2, <1>3
  <1>5. ~NoLiveThreadLeft(t, status', flag', sleeper, living', {}, NoThread) /\ ~fatal
    BY <1>4 DEF rb_check_deadlock
  <1>6. \A u \in living' : u \in living /\ u # t /\ Stuck(u)
    BY <1>1 DEF EndEffect, Stuck, Slumbering, RUBY_VM_INTERRUPTED, Typed
  <1>7. \A u \in living' : status'[u] = "STOPPED_FOREVER"
    <2> SUFFICES ASSUME NEW u \in living' PROVE status'[u] = "STOPPED_FOREVER"
      OBVIOUS
    <2>1. status[u] = "STOPPED_FOREVER"
      BY <1>6 DEF Stuck, WakeupReachesSleeper, SleepStatus, Typed
    <2>2. u \notin join_list[t]
      BY <1>1, <1>6 DEF EndEffect, Stuck, Slumbering, RUBY_VM_INTERRUPTED, Typed
    <2> QED  BY <1>1, <1>6, <2>1, <2>2 DEF EndEffect, Typed
  <1>8. \A u \in living' : ~RUBY_VM_INTERRUPTED(u, flag')
    BY <1>1 DEF EndEffect, Stuck, Slumbering, RUBY_VM_INTERRUPTED
  <1>9. Cardinality(living') <= sleeper
    <2>1. living' \subseteq Counted
      BY <1>6 DEF Counted, Counts, Stuck, Slumbering
    <2>2. Cardinality(living') <= Cardinality(Counted)
      BY <2>1, CountedFinite, FS_Subset
    <2> QED  BY <1>5, <2>2 DEF SleeperCount
  <1> QED  BY <1>5, <1>7, <1>8, <1>9 DEF NoLiveThreadLeft

\* No other step lets a thread fall asleep for ever.
NoneFallsAsleep == /\ living \subseteq living' /\ (fatal => fatal')
                   /\ \A u \in Thread : Stuck(u)' => Stuck(u)

\* A step after which no other thread sleeps for ever leaves DeadlockIsReported true.
LEMMA NoneAsleepReports ==
    ASSUME TInv, DeadlockIsReported, NoneFallsAsleep
    PROVE  DeadlockIsReported'
  BY DEF DeadlockIsReported, NoneFallsAsleep, Stuck, TInv, Typed

\* CHECK_INTS puts nobody to sleep.
LEMMA CheckIntsAsleep ==
    ASSUME TInv, NEW t \in Thread,
           RaiseInterrupt(t) \/ CheckIntsInCode(t) \/ SleepEnd(t)
    PROVE  NoneFallsAsleep
  BY DEF TInv, Typed, RaiseInterrupt, Deliver, CheckIntsInCode, SleepEnd,
         NoneFallsAsleep, Stuck, Slumbering, RUBY_VM_INTERRUPTED

\* Waking up, and leaving a sleep or a join, put nobody to sleep.
LEMMA SleepersAsleep ==
    ASSUME TInv, NEW t \in Thread,
           \/ InterruptedWakeUp(t) \/ TimeoutWakeUp(t) \/ SpuriousWakeUp(t)
           \/ SleepReturn(t) \/ JoinAgain(t) \/ JoinReturn(t) \/ UnwindSleep(t)
    PROVE  NoneFallsAsleep
  <1>1. CASE InterruptedWakeUp(t) \/ TimeoutWakeUp(t) \/ SpuriousWakeUp(t)
    BY <1>1 DEF TInv, Typed, InterruptedWakeUp, TimeoutWakeUp, SpuriousWakeUp, WakeUp,
         NoneFallsAsleep, Stuck, Slumbering, RUBY_VM_INTERRUPTED
  <1>2. CASE SleepReturn(t) \/ JoinAgain(t)
    BY <1>2 DEF TInv, Typed, SleepReturn, JoinAgain, SleepBegin,
         NoneFallsAsleep, Stuck, Slumbering, RUBY_VM_INTERRUPTED
  <1>3. CASE JoinReturn(t) \/ UnwindSleep(t)
    BY <1>3 DEF TInv, Typed, JoinReturn, RaiseError, UnwindSleep, remove_from_join_list,
         NoneFallsAsleep, Stuck, Slumbering, RUBY_VM_INTERRUPTED
  <1> QED  BY <1>1, <1>2, <1>3

\* What the program calls puts nobody to sleep at once.
LEMMA ProgramAsleep ==
    ASSUME TInv, NEW t \in Thread, Program(t)
    PROVE  NoneFallsAsleep
  <1> USE DEF TInv, Typed, Idle, SleepBegin, rb_threadptr_interrupt,
              NoneFallsAsleep, Stuck, Slumbering, RUBY_VM_INTERRUPTED
  <1>1. CASE rb_thread_stop(t) \/ rb_f_sleep(t) \/ Rescue(t)
    BY <1>1 DEF rb_thread_stop, CallRaises, RaiseError, rb_f_sleep, Rescue
  <1>2. ASSUME NEW u \in Thread, rb_thread_wakeup(t, u) \/ rb_threadptr_raise(t, u)
        PROVE  NoneFallsAsleep
    BY <1>2 DEF rb_thread_wakeup, rb_threadptr_raise
  <1>3. ASSUME NEW u \in Thread, rb_thread_kill(t, u)
        PROVE  NoneFallsAsleep
    BY <1>3 DEF rb_thread_kill
  <1>4. ASSUME NEW u \in Thread,
               thread_join(t, u) \/ thread_join_ended(t, u) \/ thread_create_core(t, u)
        PROVE  NoneFallsAsleep
    BY <1>4 DEF thread_join, thread_join_ended, CallRaises, RaiseError, thread_create_core
  <1> QED  BY <1>1, <1>2, <1>3, <1>4 DEF Program

\* Signals and termination put nobody to sleep.
LEMMA MainAsleep ==
    ASSUME TInv, Signalled \/ TerminateAll({}) \/ TerminateLoop
    PROVE  NoneFallsAsleep
  <1> USE DEF TInv, Typed, rb_threadptr_interrupt,
              NoneFallsAsleep, Stuck, Slumbering, RUBY_VM_INTERRUPTED
  <1>0. Main \in Thread  BY ThreadsAssumption
  <1>1. CASE Signalled
    BY <1>0, <1>1 DEF Signalled, threadptr_trap_interrupt, TrapEnter, TrapReturn, Places
  <1>2. CASE TerminateAll({})
    BY <1>0, <1>2 DEF TerminateAll
  <1>3. CASE TerminateLoop
    BY <1>0, <1>3 DEF TerminateLoop
  <1> QED  BY <1>1, <1>2, <1>3

\* Every step leaves somebody awake, or raises fatal (rb_check_deadlock).
LEMMA NextReports == TInv /\ DeadlockIsReported /\ [Next]_core => DeadlockIsReported'
  <1> SUFFICES ASSUME TInv, DeadlockIsReported, [Next]_core PROVE DeadlockIsReported'
    OBVIOUS
  <1>1. CASE UNCHANGED core
    BY <1>1 DEF core, DeadlockIsReported, Slumbering, RUBY_VM_INTERRUPTED
  <1>2. CASE \E t \in Thread : Proceed(t) \/ Program(t) \/ End(t) \/ SpuriousWakeUp(t)
    <2>1. PICK t \in Thread : Proceed(t) \/ Program(t) \/ End(t) \/ SpuriousWakeUp(t)
      BY <1>2
    <2>2. CASE Proceed(t)
      BY <2>2, CheckIntsAsleep, SleepersAsleep, NoneAsleepReports, NativeSleepReports DEF Proceed
    <2>3. CASE Program(t)  BY <2>3, ProgramAsleep, NoneAsleepReports
    <2>4. CASE End(t)
      <3>1. PICK abort \in BOOLEAN : ThreadEnd(t, abort, {}, {}, NoThread)
        BY <2>4, Zenon DEF End
      <3> QED  BY <3>1, ThreadEndReports, Zenon
    <2>5. CASE SpuriousWakeUp(t)  BY <2>5, SleepersAsleep, NoneAsleepReports
    <2> QED  BY <2>1, <2>2, <2>3, <2>4, <2>5
  <1>3. CASE Signalled \/ TerminateAll({}) \/ TerminateLoop
    BY <1>3, MainAsleep, NoneAsleepReports
  <1>4. CASE rb_thread_atfork
    <2>1. Main \in living' /\ pc'[Main] = "run"
      BY <1>4, ThreadsAssumption DEF rb_thread_atfork
    <2> QED  BY <2>1 DEF DeadlockIsReported, Slumbering
  <1> QED  BY <1>1, <1>2, <1>3, <1>4 DEF Next

\* The main thread runs first.
LEMMA InitReports == Init => DeadlockIsReported
  BY ThreadsAssumption DEF Init, DeadlockIsReported, Slumbering

\* The variables keep their types: vm->sleeper in particular is never below -1 nor
\* above the number of threads, whatever order threads sleep, wake, end and fork in.
THEOREM ThreadsTypeCorrect == Spec => []TypeOK
  BY ThreadsInvariance, TInvTypeOK, PTL

\* Thread#wakeup is not lost between the test of th->status in sleep_forever or
\* sleep_timeval and their native_sleep: no thread sleeps on after it was made RUNNABLE.
THEOREM WakeupsReachSleepers == Spec => []WakeupReachesSleeper
  BY ThreadsInvariance, PTL DEF TInv

\* thread_join does not sleep on for a thread that has ended (without signals), and the
\* join_list of a living thread holds only nodes on the stacks of threads that join it.
THEOREM JoinersWoken == Spec => []JoinersAreWoken
  <1>1. TInv => JoinersAreWoken
    BY DEF TInv, JoinLists, Joining, JoinersSeeEnd, SeesEnd, JoinersAreWoken, JoinWaitsForLiving
  <1> QED  BY <1>1, ThreadsInvariance, PTL

\* rb_check_deadlock reports every deadlock: as long as fatal was not raised, some
\* living thread does not sleep for ever, though the counter is only compared by the
\* last thread to sleep or to end.
THEOREM DeadlocksReported == Spec => []DeadlockIsReported
  BY ThreadsInvariance, InitReports, NextReports, PTL DEF Spec
=============================================================================

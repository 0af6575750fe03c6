----------------------------- MODULE GiantLock -----------------------------
(***************************************************************************)
(* What the interpreter expects of the GVL: a lock that at most one thread *)
(* holds, that nobody is given who did not ask for it, that a thread which *)
(* yields it asks for again at once, and that never stays free while a     *)
(* thread asks for it.  How a thread waits is not said.                    *)
(***************************************************************************)
CONSTANT Thread

VARIABLES
    holders,  \* the threads that hold the lock
    asking,   \* the threads that asked for it and have not got it yet
    live      \* the threads that were started and have not ended

lockVars == <<holders, asking, live>>

Init ==
    /\ \E t \in Thread : holders = {t} /\ live = {t}
    /\ asking = {}

\* A thread outside asks; it gets a free lock at once, or later.
Ask(t) ==
    /\ t \in live \ (asking \cup holders)
    /\ \/ holders = {} /\ holders' = {t} /\ UNCHANGED asking
       \/ asking' = asking \cup {t} /\ UNCHANGED holders
    /\ UNCHANGED live

Grant(t) ==
    /\ holders = {}
    /\ t \in asking
    /\ holders' = {t}
    /\ asking' = asking \ {t}
    /\ UNCHANGED live

Release(t) ==
    /\ holders = {t}
    /\ holders' = {}
    /\ UNCHANGED <<asking, live>>

Yield(t) ==
    /\ holders = {t}
    /\ holders' = {}
    /\ asking' = asking \cup {t}
    /\ UNCHANGED live

\* A thread ends, and gives the lock up.
Exit(t) ==
    /\ holders = {t}
    /\ holders' = {}
    /\ live' = live \ {t}
    /\ UNCHANGED asking

\* The thread that holds the lock starts another one.
Start(t) ==
    /\ holders # {}
    /\ t \notin live
    /\ live' = live \cup {t}
    /\ UNCHANGED <<holders, asking>>

\* In the child of a fork the thread that called it is the only one.
Fork(t) ==
    /\ holders = {t}
    /\ asking' = {}
    /\ live' = {t}
    /\ UNCHANGED holders

Next ==
    \E t \in Thread : Ask(t) \/ Grant(t) \/ Release(t) \/ Yield(t) \/ Exit(t) \/ Start(t) \/ Fork(t)

Spec == Init /\ [][Next]_lockVars

\* A free lock that is asked for does not stay free.
Granted == (holders = {} /\ asking # {}) ~> holders # {}
=============================================================================

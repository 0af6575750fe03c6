---------------------------- MODULE MCInterrupts ----------------------------
(* A few threads that interrupt each other. *)
EXTENDS Interrupts

CONSTANT e1

\* StandardError: Thread#raise and IO#close can be masked, Thread#kill cannot.
SomeClasses == {{e1, Closed}}
=============================================================================

---------------------------- MODULE SocketCounter ----------------------------
(***************************************************************************)
(* What _next_socket_path promises its callers (spec §4.3): a process-     *)
(* wide counter, guarded by a mutex, gives each call the next number, in   *)
(* one indivisible step.  Each thread takes a number once.                 *)
(***************************************************************************)
EXTENDS Naturals

CONSTANTS Threads

VARIABLES
    counter,  \* the last number given out
    count,    \* the number each thread got
    taken     \* the thread has got its number

Init ==
    /\ counter = 0
    /\ count = [t \in Threads |-> 0]
    /\ taken = [t \in Threads |-> FALSE]

Take(t) ==
    /\ ~taken[t]
    /\ counter' = counter + 1
    /\ count' = [count EXCEPT ![t] = counter + 1]
    /\ taken' = [taken EXCEPT ![t] = TRUE]

Spec == Init /\ [][\E t \in Threads : Take(t)]_<<counter, count, taken>>
=============================================================================

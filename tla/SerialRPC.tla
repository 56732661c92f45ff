------------------------------ MODULE SerialRPC ------------------------------
(***************************************************************************)
(* What the transport client promises its callers (spec §5, §8): calls on  *)
(* one connection are serial, each is one request and one reply, and a     *)
(* call that returns gets the helper's answer to its own request.  A call  *)
(* may instead fail (the helper died, the client was closed, the socket    *)
(* raised, the call was aborted), and a call in progress always ends.      *)
(*                                                                         *)
(* Replies are opaque: ReplyTo(r) is the request r answers, Payload(r)     *)
(* what the caller gets, IsError(r) whether it is raised as the helper's   *)
(* error.  A request is <<thread, number of the thread's call>>.           *)
(***************************************************************************)
EXTENDS Naturals

CONSTANTS
    Threads, MaxCalls, NoThread,
    Replies,       \* the answers the helper can give
    NoAnswer,      \* no answer yet
    ReplyTo(_), Payload(_), IsError(_)

\* How a call can fail rather than return the helper's answer.
Failures == {"closed", "conn_lost", "oserror", "interrupted"}

VARIABLES
    busy,     \* the thread whose call owns the connection, or NoThread
    closed,   \* the client has been closed
    ncalls,   \* calls each thread has made
    answer,   \* the helper's latest answer to each thread
    result    \* how each thread's latest call ended, and what it got

avars == <<busy, closed, ncalls, answer, result>>

Init ==
    /\ busy = NoThread
    /\ closed = FALSE
    /\ ncalls = [t \in Threads |-> 0]
    /\ answer = [t \in Threads |-> NoAnswer]
    /\ result = [t \in Threads |-> [kind |-> "none", bytes |-> <<>>]]

\* A call starts and has the connection to itself.
Begin(t) ==
    /\ busy = NoThread /\ ~closed /\ ncalls[t] < MaxCalls
    /\ busy' = t
    /\ ncalls' = [ncalls EXCEPT ![t] = @ + 1]
    /\ result' = [result EXCEPT ![t] = [kind |-> "none", bytes |-> <<>>]]
    /\ UNCHANGED <<closed, answer>>

\* A call on a closed client fails at once.
Reject(t) ==
    /\ busy = NoThread /\ closed /\ ncalls[t] < MaxCalls
    /\ ncalls' = [ncalls EXCEPT ![t] = @ + 1]
    /\ result' = [result EXCEPT ![t] = [kind |-> "closed", bytes |-> <<>>]]
    /\ UNCHANGED <<busy, closed, answer>>

\* The helper answers the running call's request.
Serve(t) ==
    /\ busy = t
    /\ \E r \in Replies :
          /\ ReplyTo(r) = <<t, ncalls[t]>>
          /\ answer' = [answer EXCEPT ![t] = r]
    /\ UNCHANGED <<busy, closed, ncalls, result>>

\* The call returns (or raises) the answer to its own request.
Return(t) ==
    /\ busy = t
    /\ answer[t] # NoAnswer /\ ReplyTo(answer[t]) = <<t, ncalls[t]>>
    /\ result' = [result EXCEPT ![t] =
                    [kind |-> IF IsError(answer[t]) THEN "remote_error" ELSE "ok",
                     bytes |-> Payload(answer[t])]]
    /\ busy' = NoThread
    /\ UNCHANGED <<closed, ncalls, answer>>

\* The call fails without an answer.
Fail(t) ==
    /\ busy = t
    /\ \E kind \in Failures : result' = [result EXCEPT ![t] = [kind |-> kind, bytes |-> <<>>]]
    /\ busy' = NoThread
    /\ UNCHANGED <<closed, ncalls, answer>>

Close ==
    /\ ~closed
    /\ closed' = TRUE
    /\ UNCHANGED <<busy, ncalls, answer, result>>

Next ==
    \/ \E t \in Threads : Begin(t) \/ Reject(t) \/ Serve(t) \/ Return(t) \/ Fail(t)
    \/ Close

\* A call in progress ends: it returns or fails.
Spec == Init /\ [][Next]_avars /\ \A t \in Threads : WF_avars(Return(t) \/ Fail(t))
=============================================================================

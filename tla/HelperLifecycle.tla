--------------------------- MODULE HelperLifecycle ---------------------------
(***************************************************************************)
(* Starting, connecting to and tearing down the cc-helper process:         *)
(* spawn_helper, connect_to, IPCClient.close and _remove_socket in         *)
(* src/bindings/python/crumblecracker/_ipc_client.py.                      *)
(*                                                                         *)
(* One connection is made, either by spawning a helper or by connecting    *)
(* to a helper some other process started, and is later closed.  The helper process is modelled from the spec: it  *)
(* binds its socket file, then listens; it may die at any point, leaving   *)
(* the file behind; on a clean exit it may remove it.  Time is counted in  *)
(* polls: each sleep(0.01) of the poll loop is one tick and Deadline ticks *)
(* stand for the 10 s deadline.                                            *)
(***************************************************************************)
EXTENDS Naturals

CONSTANTS
    Deadline,             \* polls before spawn_helper gives up (bound)
    HelperMayCrash,       \* the helper may die on its own
    SocketCreateMayFail,  \* socket.socket() may raise (e.g. EMFILE)
    KillWaitMayTimeout    \* wait(timeout=5) after kill() may expire

ASSUME /\ Deadline \in Nat \ {0}
       /\ HelperMayCrash \in BOOLEAN
       /\ SocketCreateMayFail \in BOOLEAN /\ KillWaitMayTimeout \in BOOLEAN

VARIABLES
    sp,        \* where spawn_helper / connect_to is
    proc,      \* the helper process
    owned,     \* the helper was started by this spawn_helper
    sockFile,  \* the socket file exists at socket_path
    now,       \* polls done (time.monotonic() against the deadline)
    sockBound, \* the local `sock` of spawn_helper has been assigned
    lastErr,   \* a connect error has been recorded in last_err
    cl,        \* where the IPCClient is in its life and in close()
    closed     \* IPCClient._closed

vars == <<sp, proc, owned, sockFile, now, sockBound, lastErr, cl, closed>>

SpStates == {"find", "popen", "poll", "connect", "sleep", "kill", "remove",
             "connect_to", "returned", "raised", "escaped"}
SpEnded == {"returned", "raised", "escaped"}
\* "dying": sent SIGKILL, not reaped (the process is no longer running code).
ProcStates == {"none", "starting", "bound", "listening", "dying", "exited"}
Alive == {"starting", "bound", "listening"}
ClStates == {"none", "open", "wait", "kill", "remove", "closed", "raised"}
Closing == {"wait", "kill", "remove"}

TypeOK ==
    /\ sp \in SpStates /\ proc \in ProcStates /\ owned \in BOOLEAN
    /\ sockFile \in BOOLEAN /\ now \in 0..Deadline
    /\ sockBound \in BOOLEAN /\ lastErr \in BOOLEAN
    /\ cl \in ClStates /\ closed \in BOOLEAN

\* spawn_helper starts with _find_helper; connect_to starts with a helper
\* another process started, listening on its socket file.
Init ==
    /\ \/ sp = "find" /\ proc = "none" /\ sockFile = FALSE
       \/ sp = "connect_to" /\ proc = "listening" /\ sockFile = TRUE
    /\ owned = FALSE
    /\ now = 0 /\ sockBound = FALSE /\ lastErr = FALSE
    /\ cl = "none" /\ closed = FALSE

-----------------------------------------------------------------------------
(* spawn_helper                                                            *)

\* _find_helper(): no helper found raises HelperNotFoundError.
FindHelper ==
    /\ sp = "find"
    /\ sp' \in {"popen", "raised"}
    /\ UNCHANGED <<proc, owned, sockFile, now, sockBound, lastErr, cl, closed>>

\* subprocess.Popen([helper_path, "-socket", socket_path]); an OSError from
\* Popen propagates with nothing started.
Popen ==
    /\ sp = "popen"
    /\ \/ /\ proc' = "starting" /\ owned' = TRUE /\ sp' = "poll"
       \/ /\ sp' = "raised" /\ UNCHANGED <<proc, owned>>
    /\ UNCHANGED <<sockFile, now, sockBound, lastErr, cl, closed>>

\* Mutant: the loop without its deadline.
Poll_nodeadline ==
    /\ sp = "poll"
    /\ sp' = IF sockFile THEN "connect" ELSE "sleep"
    /\ UNCHANGED <<proc, owned, sockFile, now, sockBound, lastErr, cl, closed>>

\* `while time.monotonic() < deadline: if os.path.exists(socket_path):`
Poll ==
    /\ sp = "poll"
    /\ sp' = IF now >= Deadline THEN "kill"
             ELSE IF sockFile THEN "connect" ELSE "sleep"
    /\ UNCHANGED <<proc, owned, sockFile, now, sockBound, lastErr, cl, closed>>

\* sock = socket.socket(AF_UNIX); sock.connect(socket_path); return
\* IPCClient(...).  On OSError: last_err = e; sock.close() -- which raises
\* UnboundLocalError if socket.socket() failed before `sock` was ever
\* assigned; that escapes spawn_helper with the helper left running.
Connect ==
    /\ sp = "connect"
    /\ \/ /\ SocketCreateMayFail
          /\ lastErr' = TRUE
          /\ sp' = IF sockBound THEN "sleep" ELSE "escaped"
          /\ UNCHANGED <<sockBound, cl>>
       \/ /\ sockBound' = TRUE
          /\ IF proc = "listening"
             THEN sp' = "returned" /\ cl' = "open" /\ UNCHANGED lastErr
             ELSE sp' = "sleep" /\ lastErr' = TRUE /\ UNCHANGED cl
    /\ UNCHANGED <<proc, owned, sockFile, now, closed>>

\* time.sleep(0.01)
Sleep ==
    /\ sp = "sleep"
    /\ now' = IF now < Deadline THEN now + 1 ELSE now
    /\ sp' = "poll"
    /\ UNCHANGED <<proc, owned, sockFile, sockBound, lastErr, cl, closed>>

\* Mutant: the process is not killed before giving up.
SpawnKill_nokill ==
    /\ sp = "kill"
    /\ sp' = "remove"
    /\ UNCHANGED <<proc, owned, sockFile, now, sockBound, lastErr, cl, closed>>

\* Deadline passed: process.kill(); process.wait().
SpawnKill ==
    /\ sp = "kill"
    /\ proc' = IF proc \in Alive THEN "exited" ELSE proc
    /\ sp' = "remove"
    /\ UNCHANGED <<owned, sockFile, now, sockBound, lastErr, cl, closed>>

\* Mutant: the socket file is left behind.
SpawnRemove_keep ==
    /\ sp = "remove"
    /\ sp' = "raised"
    /\ UNCHANGED <<proc, owned, sockFile, now, sockBound, lastErr, cl, closed>>

\* _remove_socket(socket_path); raise CCError("Failed to connect ...").
SpawnRemove ==
    /\ sp = "remove"
    /\ sockFile' = FALSE
    /\ sp' = "raised"
    /\ UNCHANGED <<proc, owned, now, sockBound, lastErr, cl, closed>>

\* connect_to(socket_path): connect, or close the socket and raise.
ConnectTo ==
    /\ sp = "connect_to"
    /\ IF proc = "listening" /\ sockFile
       THEN sp' = "returned" /\ cl' = "open"
       ELSE sp' = "raised" /\ UNCHANGED cl
    /\ UNCHANGED <<proc, owned, sockFile, now, sockBound, lastErr, closed>>

-----------------------------------------------------------------------------
(* IPCClient.close (also run by __exit__ and __del__)                      *)

\* `if self._closed: return`; `self._closed = True`; sock.close().  With a
\* process, wait for it; without one, go straight to removing the file.
CloseBegin ==
    /\ cl = "open" /\ ~closed
    /\ closed' = TRUE
    /\ cl' = IF owned THEN "wait" ELSE "remove"
    /\ UNCHANGED <<sp, proc, owned, sockFile, now, sockBound, lastErr>>

\* process.wait(timeout=2): the helper, seeing its connection closed,
\* exits in time (possibly removing its socket file), or TimeoutExpired.
CloseWait ==
    /\ cl = "wait"
    /\ \/ /\ proc \notin Alive
          /\ cl' = "remove" /\ UNCHANGED <<proc, sockFile>>
       \/ /\ proc \in Alive
          /\ proc' = "exited" /\ sockFile' \in {sockFile, FALSE}
          /\ cl' = "remove"
       \/ /\ proc \in Alive
          /\ cl' = "kill" /\ UNCHANGED <<proc, sockFile>>
    /\ UNCHANGED <<sp, owned, now, sockBound, lastErr, closed>>

\* process.kill(); process.wait(timeout=5).  A TimeoutExpired here is not
\* caught: it escapes close() before the socket file is removed.
CloseKill ==
    /\ cl = "kill"
    /\ \/ /\ proc' = "exited" /\ cl' = "remove"
       \/ /\ KillWaitMayTimeout
          /\ proc' = "dying" /\ cl' = "raised"
    /\ UNCHANGED <<sp, owned, sockFile, now, sockBound, lastErr, closed>>

\* `if self._socket_path: _remove_socket(self._socket_path)`; on POSIX an
\* OSError (no such file) is ignored.
CloseRemove ==
    /\ cl = "remove"
    /\ sockFile' = FALSE
    /\ cl' = "closed"
    /\ UNCHANGED <<sp, proc, owned, now, sockBound, lastErr, closed>>

-----------------------------------------------------------------------------
(* The helper process (spec-modelled)                                      *)

\* net.Listen("unix", path): bind creates the file, then listen.
HelperBind ==
    /\ proc = "starting"
    /\ proc' = "bound" /\ sockFile' = TRUE
    /\ UNCHANGED <<sp, owned, now, sockBound, lastErr, cl, closed>>

HelperListen ==
    /\ proc = "bound"
    /\ proc' = "listening"
    /\ UNCHANGED <<sp, owned, sockFile, now, sockBound, lastErr, cl, closed>>

\* It dies on its own; the socket file stays.
HelperCrash ==
    /\ HelperMayCrash /\ proc \in Alive
    /\ proc' = "exited"
    /\ UNCHANGED <<sp, owned, sockFile, now, sockBound, lastErr, cl, closed>>

\* Nothing more for the client to do.
Finished ==
    /\ sp \in SpEnded /\ cl \in {"none", "closed", "raised"}
    /\ proc \notin {"starting", "bound"}
    /\ UNCHANGED vars

Next ==
    \/ FindHelper \/ Popen \/ Poll \/ Connect \/ Sleep \/ SpawnKill
    \/ SpawnRemove \/ ConnectTo
    \/ CloseBegin \/ CloseWait \/ CloseKill \/ CloseRemove
    \/ HelperBind \/ HelperListen \/ HelperCrash
    \/ Finished

\* spawn_helper and close() run on one thread that keeps running; sleeping
\* ends.  Whether and when the user calls close() is not assumed, nor when
\* the helper binds or listens.
Fairness ==
    /\ WF_vars(FindHelper) /\ WF_vars(Popen) /\ WF_vars(Poll)
    /\ WF_vars(Connect) /\ WF_vars(Sleep) /\ WF_vars(SpawnKill)
    /\ WF_vars(SpawnRemove) /\ WF_vars(ConnectTo)
    /\ WF_vars(CloseWait) /\ WF_vars(CloseKill) /\ WF_vars(CloseRemove)

Spec == Init /\ [][Next]_vars /\ Fairness

-----------------------------------------------------------------------------
(* Properties                                                              *)

\* A helper this process started is never left running unowned: while it
\* is alive, either spawn_helper is still working with it or an IPCClient
\* that has not finished close() holds it (spec §5: no connection outlives
\* its process beyond the grace-then-kill window, and a failed spawn kills
\* the child).
NoOrphanHelper ==
    (owned /\ proc \in Alive) =>
        \/ sp \notin SpEnded
        \/ sp = "returned" /\ cl \in {"open"} \cup Closing

\* The endpoint file of a helper this process spawned is gone once nothing
\* will use it: after spawn_helper failed, and after close() has returned
\* or raised (spec §4.2, §4.3, §8 "Teardown").
NoStaleEndpoint ==
    (owned /\ (sp = "raised" \/ cl \in {"closed", "raised"})) => ~sockFile

\* spawn_helper always returns or raises (the 10 s deadline), and a
\* close() that has begun always returns or raises (the 2 s and 5 s
\* timeouts).
LifecycleStepsEnd ==
    /\ sp \notin SpEnded ~> sp \in SpEnded
    /\ cl \in Closing ~> cl \in {"closed", "raised"}

=============================================================================

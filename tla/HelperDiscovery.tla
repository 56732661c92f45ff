--------------------------- MODULE HelperDiscovery ---------------------------
(***************************************************************************)
(* The start of spawn_helper in several threads of one process:           *)
(* _find_helper, _next_socket_path with its process-wide counter and lock, *)
(* Popen of a helper on that path, and the poll-and-connect loop           *)
(* (src/bindings/python/crumblecracker/_ipc_client.py).  Two threads spawn *)
(* at once when, say, two first calls race in IPCBackend._ensure_client.   *)
(*                                                                         *)
(* The helper is modelled from the spec: it binds its path, or exits when  *)
(* a file is already there (address in use).  The 10 s deadline is         *)
(* abstracted: a spawn still polling may give up at any time (the          *)
(* HelperLifecycle module counts the polls).  Popen failures and socket()  *)
(* errors are HelperLifecycle's subject and left out here.                 *)
(***************************************************************************)
EXTENDS Naturals, Sequences, FiniteSets

CONSTANTS
    Threads,        \* threads calling spawn_helper
    NoThread,       \* no lock holder / no helper
    Windows,        \* platform.system() == "Windows"
    UserDirProbed,  \* Linux, Darwin, or Windows with LOCALAPPDATA set
    MaxClock        \* time.time_ns() values seen (bound)

ASSUME /\ NoThread \notin Threads
       /\ Windows \in BOOLEAN /\ UserDirProbed \in BOOLEAN
       /\ MaxClock \in Nat

\* Where a cc-helper file may be, other than CC_HELPER_PATH.
Locations == {"pkg", "pkg_parent", "user", "PATH"}

\* CC_HELPER_PATH: unset or empty, naming a file, or naming nothing.
EnvValues == {"unset", "file", "nofile"}

VARIABLES
    env,      \* CC_HELPER_PATH
    present,  \* the locations that hold a cc-helper file
    pc,       \* where each thread's spawn_helper is
    lock,     \* _socket_counter_lock: its holder, or NoThread
    counter,  \* _socket_counter
    tmp,      \* the value `_socket_counter += 1` loaded
    count,    \* the local `count`
    path,     \* the socket_path each spawn uses (<<>> before it has one)
    clock,    \* time.time_ns()
    helper,   \* each spawn's helper process
    bound,    \* socket files: the path and the helper that bound it
    conn      \* the helper each spawn's IPCClient is connected to

vars == <<env, present, pc, lock, counter, tmp, count, path, clock, helper,
          bound, conn>>

PCs == {"find", "acquire", "load", "store", "read", "release", "spawn",
        "poll", "done", "raised", "notfound"}
Ended == {"done", "raised", "notfound"}

-----------------------------------------------------------------------------
(* _find_helper                                                            *)

\* The places probed with os.path.isfile after the override, in order.
Probed == <<"pkg", "pkg_parent">> \o (IF UserDirProbed THEN <<"user">> ELSE <<>>)

\* (path, searched): the first hit, or None with every place searched.  An
\* override naming no file is recorded in `searched` and the search goes
\* on; shutil.which is tried last and listed as "$PATH".
FindHelper(e, p) ==
    LET hits == SelectSeq(Probed, LAMBDA l : l \in p)
        over == IF e = "nofile" THEN <<"override">> ELSE <<>>
    IN CASE e = "file"      -> [path |-> "override", searched |-> <<>>]
         [] hits # <<>>     -> [path |-> Head(hits), searched |-> <<>>]
         [] "PATH" \in p    -> [path |-> "PATH", searched |-> <<>>]
         [] OTHER           -> [path |-> "none",
                                searched |-> over \o Probed \o <<"$PATH">>]

-----------------------------------------------------------------------------
(* _next_socket_path                                                       *)

\* Mutant: a name made of the pid and time_ns alone.
SocketPath_nocount(c, ns) == IF Windows THEN <<c>> ELSE <<ns>>

\* Windows: h-{pid}-{count}.sock; elsewhere
\* cc-helper-{pid}-{time_ns}-{count}.sock.  One process, so no pid.
SocketPath(c, ns) == IF Windows THEN <<c>> ELSE <<ns, c>>

TypeOK ==
    /\ env \in EnvValues /\ present \subseteq Locations
    /\ pc \in [Threads -> PCs] /\ lock \in Threads \cup {NoThread}
    /\ counter \in Nat /\ tmp \in [Threads -> Nat] /\ count \in [Threads -> Nat]
    /\ path \in [Threads -> Seq(Nat)] /\ clock \in 0..MaxClock
    /\ helper \in [Threads -> {"none", "starting", "listening", "exited"}]
    /\ bound \subseteq [path : Seq(Nat), owner : Threads]
    /\ conn \in [Threads -> Threads \cup {NoThread}]

\* Any environment and installation; nothing spawned yet.
Init ==
    /\ env \in EnvValues /\ present \in SUBSET Locations
    /\ pc = [t \in Threads |-> "find"]
    /\ lock = NoThread /\ counter = 0
    /\ tmp = [t \in Threads |-> 0] /\ count = [t \in Threads |-> 0]
    /\ path = [t \in Threads |-> <<>>] /\ clock = 0
    /\ helper = [t \in Threads |-> "none"]
    /\ bound = {} /\ conn = [t \in Threads |-> NoThread]

Goto(t, p) == pc' = [pc EXCEPT ![t] = p]

\* `helper_path, searched = _find_helper()`; None raises
\* HelperNotFoundError(searched).
Find(t) ==
    /\ pc[t] = "find"
    /\ Goto(t, IF FindHelper(env, present).path = "none" THEN "notfound"
               ELSE "acquire")
    /\ UNCHANGED <<env, present, lock, counter, tmp, count, path, clock,
                   helper, bound, conn>>

\* Mutant: the counter updated without the lock.
Acquire_nolock(t) ==
    /\ pc[t] = "acquire"
    /\ Goto(t, "load")
    /\ UNCHANGED <<env, present, lock, counter, tmp, count, path, clock,
                   helper, bound, conn>>

\* `with _socket_counter_lock:`
Acquire(t) ==
    /\ pc[t] = "acquire" /\ lock = NoThread
    /\ lock' = t
    /\ Goto(t, "load")
    /\ UNCHANGED <<env, present, counter, tmp, count, path, clock, helper,
                   bound, conn>>

\* `_socket_counter += 1` is a load, an add and a store.
Load(t) ==
    /\ pc[t] = "load"
    /\ tmp' = [tmp EXCEPT ![t] = counter]
    /\ Goto(t, "store")
    /\ UNCHANGED <<env, present, lock, counter, count, path, clock, helper,
                   bound, conn>>

Store(t) ==
    /\ pc[t] = "store"
    /\ counter' = tmp[t] + 1
    /\ Goto(t, "read")
    /\ UNCHANGED <<env, present, lock, tmp, count, path, clock, helper,
                   bound, conn>>

\* `count = _socket_counter`
Read(t) ==
    /\ pc[t] = "read"
    /\ count' = [count EXCEPT ![t] = counter]
    /\ Goto(t, "release")
    /\ UNCHANGED <<env, present, lock, counter, tmp, path, clock, helper,
                   bound, conn>>

\* Leaving the `with` block.
Release(t) ==
    /\ pc[t] = "release"
    /\ lock' = IF lock = t THEN NoThread ELSE lock
    /\ Goto(t, "spawn")
    /\ UNCHANGED <<env, present, counter, tmp, count, path, clock, helper,
                   bound, conn>>

\* The path is formatted (time.time_ns() read now), and
\* subprocess.Popen([helper_path, "-socket", socket_path]) starts a helper.
Spawn(t) ==
    /\ pc[t] = "spawn"
    /\ path' = [path EXCEPT ![t] = SocketPath(count[t], clock)]
    /\ helper' = [helper EXCEPT ![t] = "starting"]
    /\ Goto(t, "poll")
    /\ UNCHANGED <<env, present, lock, counter, tmp, count, clock, bound, conn>>

\* `if os.path.exists(socket_path):` connect, and return the IPCClient.  A
\* connect to a file whose helper is gone fails and the loop sleeps on.
Poll(t) ==
    /\ pc[t] = "poll"
    /\ \E b \in bound :
          /\ b.path = path[t] /\ helper[b.owner] = "listening"
          /\ conn' = [conn EXCEPT ![t] = b.owner]
    /\ Goto(t, "done")
    /\ UNCHANGED <<env, present, lock, counter, tmp, count, path, clock,
                   helper, bound>>

\* The deadline passed: process.kill(); process.wait();
\* _remove_socket(socket_path) -- whatever file is at that path.
GiveUp(t) ==
    /\ pc[t] = "poll"
    /\ helper' = [helper EXCEPT ![t] = "exited"]
    /\ bound' = {b \in bound : b.path # path[t]}
    /\ Goto(t, "raised")
    /\ UNCHANGED <<env, present, lock, counter, tmp, count, path, clock, conn>>

\* The helper (spec-modelled): net.Listen on its path, or exit when a file
\* is already there.
HelperBind(t) ==
    /\ helper[t] = "starting"
    /\ IF \E b \in bound : b.path = path[t]
       THEN helper' = [helper EXCEPT ![t] = "exited"] /\ UNCHANGED bound
       ELSE /\ helper' = [helper EXCEPT ![t] = "listening"]
            /\ bound' = bound \cup {[path |-> path[t], owner |-> t]}
    /\ UNCHANGED <<env, present, pc, lock, counter, tmp, count, path, clock, conn>>

\* Wall-clock time passes.
Tick ==
    /\ clock < MaxClock
    /\ clock' = clock + 1
    /\ UNCHANGED <<env, present, pc, lock, counter, tmp, count, path, helper,
                   bound, conn>>

\* Every spawn has returned or raised.
Finished ==
    /\ \A t \in Threads : pc[t] \in Ended /\ helper[t] # "starting"
    /\ UNCHANGED vars

Next ==
    \/ \E t \in Threads :
          \/ Find(t) \/ Acquire(t) \/ Load(t) \/ Store(t) \/ Read(t)
          \/ Release(t) \/ Spawn(t) \/ Poll(t) \/ GiveUp(t) \/ HelperBind(t)
    \/ Tick
    \/ Finished

Spec == Init /\ [][Next]_vars

-----------------------------------------------------------------------------
(* Properties                                                              *)

\* spawn_helper returns a client connected to the helper it started: no
\* two spawns share a process (spec §5), which holds only because
\* _next_socket_path never hands two spawns the same path.
ConnectsToOwnHelper ==
    \A t \in Threads : conn[t] \in {NoThread, t}

\* While a spawn is still waiting for its helper, that helper's socket
\* file is not removed from under it: no other spawn's cleanup
\* (_remove_socket after its deadline) deletes the file a live helper
\* bound.
OwnEndpointKept ==
    \A t \in Threads :
        (pc[t] = "poll" /\ helper[t] = "listening")
            => [path |-> path[t], owner |-> t] \in bound

\* Spec §8, end-to-end scenario 3: with CC_HELPER_PATH naming a file that
\* does not exist, _find_helper bypasses the other search strategies and
\* spawn_helper fails with HelperNotFoundError listing only that path.
OverrideShortCircuits ==
    \A t \in Threads :
        (env = "nofile" /\ pc[t] # "find")
            => /\ pc[t] = "notfound"
               /\ FindHelper(env, present).searched = <<"override">>

\* The abstract counter: a thread has its number from the moment it
\* stored the incremented counter, and until it has read it back into
\* `count` that number is the counter's current value.
Counted == {"read", "release", "spawn", "poll", "done", "raised"}

SC == INSTANCE SocketCounter
        WITH count <- [t \in Threads |->
                          IF pc[t] = "read" THEN counter ELSE count[t]],
             taken <- [t \in Threads |-> pc[t] \in Counted]

\* _next_socket_path implements SocketCounter: the load, add, store and
\* read of `_socket_counter += 1; count = _socket_counter`, done under
\* _socket_counter_lock, behave as one indivisible step that gives the
\* caller the next number.
ImplementsSocketCounter == SC!Spec
=============================================================================

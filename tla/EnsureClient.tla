---------------------------- MODULE EnsureClient ----------------------------
(***************************************************************************)
(* IPCBackend's client slot under several threads: _ensure_client, the     *)
(* client property every operation goes through, and IPCBackend.close()    *)
(* (src/bindings/python/crumblecracker/_ipc_backend.py).  None of them     *)
(* takes a lock, and each reads self._client more than once.               *)
(*                                                                         *)
(* An IPCClient lives as long as something refers to it: the backend's     *)
(* _client, the `spawn_helper()` result an _ensure_client is about to      *)
(* store, or the client an operation got from self.client and is calling. *)
(* CPython frees it when the last reference goes, and IPCClient.__del__    *)
(* closes it, which ends its helper.  Every step that drops a reference    *)
(* therefore also closes the clients it leaves unreferenced.               *)
(***************************************************************************)
EXTENDS Naturals, FiniteSets

CONSTANTS
    Threads,        \* threads using one IPCBackend
    Clients,        \* the clients spawn_helper can create (bounds spawns)
    None,           \* Python's None
    MaxOps,         \* operations each thread makes (bound)
    CloseRacer,     \* some thread may call IPCBackend.close()
    SpawnMayFail    \* spawn_helper may raise (helper not found, timeout)

ASSUME None \notin Clients /\ MaxOps \in Nat \ {0}

VARIABLES
    client,    \* IPCBackend._client
    cstate,    \* per client: "unborn", "open", or "closed" (is_closed)
    pc,        \* where each thread is
    newc,      \* the spawn_helper() result not yet stored in _client
    local,     \* the client an operation got from self.client
    ops,       \* operations each thread has begun
    res,       \* how each thread's last operation ended
    served,    \* history: clients whose helper has served a call
    userClosed \* history: IPCBackend.close() has run

vars == <<client, cstate, pc, newc, local, ops, res, served, userClosed>>

PCs == {"idle", "check_closed", "spawn", "assign", "reread", "call",
        "close_client", "close_none"}
Results == {"none", "ok", "closed", "AttributeError", "spawn_error"}

TypeOK ==
    /\ client \in Clients \cup {None}
    /\ cstate \in [Clients -> {"unborn", "open", "closed"}]
    /\ pc \in [Threads -> PCs]
    /\ newc \in [Threads -> Clients \cup {None}]
    /\ local \in [Threads -> Clients \cup {None}]
    /\ ops \in [Threads -> 0 .. MaxOps]
    /\ res \in [Threads -> Results]
    /\ served \subseteq Clients
    /\ userClosed \in BOOLEAN

Init ==
    /\ client = None
    /\ cstate = [c \in Clients |-> "unborn"]
    /\ pc = [t \in Threads |-> "idle"]
    /\ newc = [t \in Threads |-> None]
    /\ local = [t \in Threads |-> None]
    /\ ops = [t \in Threads |-> 0]
    /\ res = [t \in Threads |-> "none"]
    /\ served = {}
    /\ userClosed = FALSE

\* After a step: a client nothing refers to any more is freed, and
\* IPCClient.__del__ closes it (its helper is shut down).
Referenced(c) ==
    client' = c \/ \E t \in Threads : newc'[t] = c \/ local'[t] = c

Collect(cs) ==
    cstate' = [c \in Clients |->
                 IF cs[c] = "open" /\ ~Referenced(c) THEN "closed" ELSE cs[c]]

Goto(t, p) == pc' = [pc EXCEPT ![t] = p]

-----------------------------------------------------------------------------
(* An operation: self.client.call(...), i.e. _ensure_client then call().   *)

\* `if self._client is None`: the first read of the slot.
EnsureCheck(t) ==
    /\ pc[t] = "idle" /\ ops[t] < MaxOps
    /\ ops' = [ops EXCEPT ![t] = @ + 1]
    /\ res' = [res EXCEPT ![t] = "none"]
    /\ Goto(t, IF client = None THEN "spawn" ELSE "check_closed")
    /\ UNCHANGED <<client, cstate, newc, local, served, userClosed>>

\* `or self._client.is_closed`: the slot is read again; if it has become
\* None meanwhile, `.is_closed` raises AttributeError.
EnsureCheckClosed(t) ==
    /\ pc[t] = "check_closed"
    /\ IF client = None
         THEN /\ res' = [res EXCEPT ![t] = "AttributeError"]
              /\ Goto(t, "idle")
         ELSE /\ Goto(t, IF cstate[client] = "closed" THEN "spawn" ELSE "reread")
              /\ UNCHANGED res
    /\ UNCHANGED <<client, cstate, newc, local, ops, served, userClosed>>

\* spawn_helper(): a new client with its own helper, or an exception.
EnsureSpawn(t) ==
    /\ pc[t] = "spawn"
    /\ \/ \E c \in Clients :
             /\ cstate[c] = "unborn"
             /\ cstate' = [cstate EXCEPT ![c] = "open"]
             /\ newc' = [newc EXCEPT ![t] = c]
             /\ Goto(t, "assign")
             /\ UNCHANGED res
       \/ /\ SpawnMayFail
          /\ res' = [res EXCEPT ![t] = "spawn_error"]
          /\ Goto(t, "idle")
          /\ UNCHANGED <<cstate, newc>>
    /\ UNCHANGED <<client, local, ops, served, userClosed>>

\* `self._client = spawn_helper()`: whatever the slot held is dropped.
EnsureAssign(t) ==
    /\ pc[t] = "assign"
    /\ client' = newc[t]
    /\ newc' = [newc EXCEPT ![t] = None]
    /\ Goto(t, "reread")
    /\ UNCHANGED <<local, ops, res, served, userClosed>>
    /\ Collect(cstate)

\* `return self._client`: the slot is read once more, and that is the
\* client the operation calls.
EnsureReturn(t) ==
    /\ pc[t] = "reread"
    /\ local' = [local EXCEPT ![t] = client]
    /\ UNCHANGED newc
    /\ Goto(t, "call")
    /\ UNCHANGED <<client, ops, res, served, userClosed>>
    /\ Collect(cstate)

\* `.call(...)` on the returned client: on None an AttributeError, on a
\* closed client CCError("Client closed"), otherwise the helper serves it
\* (IPCClient's own behaviour is the subject of the IPCClient module).
\* The operation then drops its reference.
Call(t) ==
    /\ pc[t] = "call"
    /\ res' = [res EXCEPT ![t] =
                 IF local[t] = None THEN "AttributeError"
                 ELSE IF cstate[local[t]] = "closed" THEN "closed" ELSE "ok"]
    /\ served' = IF local[t] # None /\ cstate[local[t]] = "open"
                 THEN served \cup {local[t]} ELSE served
    /\ local' = [local EXCEPT ![t] = None]
    /\ UNCHANGED newc
    /\ Goto(t, "idle")
    /\ UNCHANGED <<client, ops, userClosed>>
    /\ Collect(cstate)

-----------------------------------------------------------------------------
(* IPCBackend.close()                                                      *)

\* `if self._client is not None:`
CloseCheck(t) ==
    /\ CloseRacer /\ pc[t] = "idle" /\ ~userClosed
    /\ userClosed' = TRUE
    /\ Goto(t, IF client = None THEN "idle" ELSE "close_client")
    /\ UNCHANGED <<client, cstate, newc, local, ops, res, served>>

\* `self._client.close()`: the slot read again.
CloseClient(t) ==
    /\ pc[t] = "close_client"
    /\ IF client = None
         THEN /\ res' = [res EXCEPT ![t] = "AttributeError"]
              /\ Goto(t, "idle")
              /\ UNCHANGED cstate
         ELSE /\ cstate' = [cstate EXCEPT ![client] = "closed"]
              /\ Goto(t, "close_none")
              /\ UNCHANGED res
    /\ UNCHANGED <<client, newc, local, ops, served, userClosed>>

\* `self._client = None`
CloseClear(t) ==
    /\ pc[t] = "close_none"
    /\ client' = None
    /\ UNCHANGED <<newc, local>>
    /\ Goto(t, "idle")
    /\ UNCHANGED <<ops, res, served, userClosed>>
    /\ Collect(cstate)

Done ==
    /\ \A t \in Threads : pc[t] = "idle" /\ ops[t] = MaxOps
    /\ UNCHANGED vars

Next ==
    \/ \E t \in Threads :
          \/ EnsureCheck(t) \/ EnsureCheckClosed(t) \/ EnsureSpawn(t)
          \/ EnsureAssign(t) \/ EnsureReturn(t) \/ Call(t)
          \/ CloseCheck(t) \/ CloseClient(t) \/ CloseClear(t)
    \/ Done

Spec == Init /\ [][Next]_vars

-----------------------------------------------------------------------------
\* A helper that has served a call keeps running until the program closes
\* the backend: what an operation created there (an instance, an open
\* file, a command) stays reachable through the backend.  _ensure_client
\* is not locked, so two threads making their first call together both
\* spawn a helper; the loser's client is freed once its call returns, and
\* __del__ shuts down the helper that just served it.
ServedHelperKept ==
    ~userClosed => \A c \in served : cstate[c] = "open"
=============================================================================

------------------------------ MODULE NativeFFI ------------------------------
(***************************************************************************)
(* The direct (in-process) backend's resource wrappers, cc/client.py:      *)
(* OCIClient, InstanceSource and CancelToken over libcc's handle table,    *)
(* used from several threads.  A ctypes foreign call releases the GIL, so  *)
(* other threads run while libcc works; Python code between two bytecodes  *)
(* may also be preempted.  A method's `handle` check and its call are    *)
(* one step: a free landing between them has the same outcome as one     *)
(* landing between close()'s free and its flag update, which is modelled. *)
(*                                                                         *)
(* libcc is not in the repository: its table is modelled from the spec     *)
(* (§3: handles are unique for the library's lifetime, 0 is "no handle").  *)
(* init() is assumed to have loaded and set up the library before any      *)
(* thread starts, as its docstring requires.                               *)
(***************************************************************************)
EXTENDS Naturals, FiniteSets

CONSTANTS
    Threads,   \* Python threads sharing the wrappers
    Client,    \* the OCIClient object
    Token,     \* the CancelToken object
    Sources    \* InstanceSource objects pull/load_tar/load_dir may return

ASSUME /\ Client # Token
       /\ Client \notin Sources /\ Token \notin Sources

Objs == {Client, Token} \cup Sources

\* The largest handle libcc can hand out: one per wrapper.
MaxHandle == Cardinality(Objs)

\* The calls that may make an InstanceSource.
Loads == {"pull", "load_tar", "load_dir"}

VARIABLES
    st,    \* each wrapper: "unborn" (not made), "open", or "closed"
           \* (_closed / _freed set)
    hd,    \* the wrapper's _handle (0: none)
    tbl,   \* libcc's table: each handle "unused", "live" or "freed"
    pc,    \* each thread: idle, inside close() (past its check, or past the
           \* free), or inside a foreign load call making a source
    last   \* the last foreign call: its function and the handles it was
           \* passed that libcc had already freed

vars == <<st, hd, tbl, pc, last>>

Handles == 1..MaxHandle

PCs == [at : {"idle"}, obj : {Client}]
       \cup [at : {"closing", "freed"} \cup Loads, obj : Objs]

Idle == [at |-> "idle", obj |-> Client]

TypeOK ==
    /\ st \in [Objs -> {"unborn", "open", "closed"}]
    /\ hd \in [Objs -> 0..MaxHandle]
    /\ tbl \in [Handles -> {"unused", "live", "freed"}]
    /\ pc \in [Threads -> PCs]
    /\ last \in [fn : STRING, stale : SUBSET Handles]

Init ==
    /\ st = [o \in Objs |-> "unborn"]
    /\ hd = [o \in Objs |-> 0]
    /\ tbl = [h \in Handles |-> "unused"]
    /\ pc = [t \in Threads |-> Idle]
    /\ last = [fn |-> "none", stale |-> {}]

\* libcc hands out a handle it never gave before.
NextHandle == Cardinality({h \in Handles : tbl[h] # "unused"}) + 1

\* A foreign call to `fn` passing the handles `hs`.
Call(fn, hs) ==
    last' = [fn |-> fn, stale |-> {h \in hs : tbl[h] = "freed"}]

\* A wrapper gets a fresh live handle.
Allocate(o) ==
    /\ hd' = [hd EXCEPT ![o] = NextHandle]
    /\ tbl' = [tbl EXCEPT ![NextHandle] = "live"]
    /\ st' = [st EXCEPT ![o] = "open"]

-----------------------------------------------------------------------------
(* The `handle` properties                                                 *)

\* OCIClient.handle raises CCError("OCIClient is closed") once closed.
ClientHandleOK == st[Client] = "open"

\* InstanceSource.handle raises CCError("InstanceSource is closed").
SourceHandleOK(s) == st[s] = "open"

\* CancelToken.handle returns self._handle, freed or not.
TokenHandle == hd[Token]

-----------------------------------------------------------------------------
(* Constructors                                                            *)

\* OCIClient(): cc_oci_client_new[_with_cache] and check_error; on an
\* error no wrapper is returned.
NewClient(t) ==
    /\ pc[t] = Idle /\ st[Client] = "unborn"
    /\ Call("oci_client_new", {})
    /\ \/ Allocate(Client)
       \/ UNCHANGED <<st, hd, tbl>>
    /\ UNCHANGED pc

\* CancelToken(): cc_cancel_token_new() returns the handle.
NewToken(t) ==
    /\ pc[t] = Idle /\ st[Token] = "unborn"
    /\ Call("cancel_token_new", {})
    /\ Allocate(Token)
    /\ UNCHANGED pc

-----------------------------------------------------------------------------
(* close(), __exit__ and __del__                                           *)

\* `if not self._closed and self._handle:` (_freed for the token): the
\* check passes and the thread goes on to the foreign free.  A closed
\* wrapper's close() returns without a step.
CloseBegin(t, o) ==
    /\ pc[t] = Idle /\ st[o] = "open" /\ hd[o] # 0
    /\ pc' = [pc EXCEPT ![t] = [at |-> "closing", obj |-> o]]
    /\ UNCHANGED <<st, hd, tbl, last>>

\* OCIClient.close: cc_oci_client_free(self._handle); self._closed = True.
OCIClientClose(t) == CloseBegin(t, Client)

\* InstanceSource.close: cc_instance_source_free; self._closed = True.
InstanceSourceClose(t, s) == CloseBegin(t, s)

\* CancelToken.close: cc_cancel_token_free; self._freed = True.
CancelTokenClose(t) == CloseBegin(t, Token)

\* The foreign free; the GIL is released while libcc runs it.
CloseFree(t) ==
    LET o == pc[t].obj IN
    /\ pc[t].at = "closing"
    /\ Call("free", {hd[o]})
    /\ tbl' = [tbl EXCEPT ![hd[o]] = "freed"]
    /\ pc' = [pc EXCEPT ![t] = [at |-> "freed", obj |-> o]]
    /\ UNCHANGED <<st, hd>>

\* `self._closed = True` (`_freed` for the token) once the free returned.
CloseEnd(t) ==
    /\ pc[t].at = "freed"
    /\ st' = [st EXCEPT ![pc[t].obj] = "closed"]
    /\ pc' = [pc EXCEPT ![t] = Idle]
    /\ UNCHANGED <<hd, tbl, last>>

-----------------------------------------------------------------------------
(* Methods                                                                 *)

\* OCIClient.cache_dir: cc_oci_client_cache_dir(self.handle), the string
\* copied and freed by _get_string_and_free.
CacheDir(t) ==
    /\ pc[t] = Idle /\ ClientHandleOK
    /\ Call("cache_dir", {hd[Client]})
    /\ UNCHANGED <<st, hd, tbl, pc>>

\* InstanceSource.get_config: cc_source_get_config(self.handle), the
\* fields copied, cc_image_config_free in `finally`.
GetConfig(t, s) ==
    /\ pc[t] = Idle /\ SourceHandleOK(s)
    /\ Call("source_get_config", {hd[s]})
    /\ UNCHANGED <<st, hd, tbl, pc>>

\* OCIClient.export_dir(source): self.handle, then source.handle.
ExportDir(t, s) ==
    /\ pc[t] = Idle /\ ClientHandleOK /\ SourceHandleOK(s)
    /\ Call("export_dir", {hd[Client], hd[s]})
    /\ UNCHANGED <<st, hd, tbl, pc>>

\* CancelToken.cancel / is_cancelled: cc_cancel_token_cancel(self._handle)
\* and cc_cancel_token_is_cancelled(self._handle), with no check of _freed.
Cancel(t) ==
    /\ pc[t] = Idle /\ st[Token] # "unborn"
    /\ \E fn \in {"cancel_token_cancel", "cancel_token_is_cancelled"} :
          Call(fn, {hd[Token]})
    /\ UNCHANGED <<st, hd, tbl, pc>>

\* OCIClient.pull(cancel_token=...) / load_tar / load_dir: self.handle is
\* checked, the token's `handle` is taken as it is, and the foreign call
\* starts; the GIL is released until it returns.  `s` is the wrapper the
\* call will return.
LoadBegin(t, s) ==
    /\ pc[t] = Idle /\ ClientHandleOK /\ st[s] = "unborn"
    /\ \A u \in Threads : pc[u].obj # s
    /\ \E how \in Loads, withToken \in BOOLEAN :
          /\ withToken => (how = "pull" /\ st[Token] # "unborn")
          /\ Call(how, {hd[Client]} \cup
                        (IF withToken THEN {TokenHandle} ELSE {}))
          /\ pc' = [pc EXCEPT ![t] = [at |-> how, obj |-> s]]
    /\ UNCHANGED <<st, hd, tbl>>

\* The call returns: check_error raises, or InstanceSource(source) wraps
\* the new handle.
LoadEnd(t) ==
    /\ pc[t].at \in Loads
    /\ \/ Allocate(pc[t].obj)
       \/ UNCHANGED <<st, hd, tbl>>
    /\ pc' = [pc EXCEPT ![t] = Idle]
    /\ UNCHANGED last

Next ==
    \E t \in Threads :
        \/ NewClient(t) \/ NewToken(t)
        \/ OCIClientClose(t) \/ CancelTokenClose(t)
        \/ \E s \in Sources : InstanceSourceClose(t, s)
        \/ CloseFree(t) \/ CloseEnd(t)
        \/ CacheDir(t) \/ Cancel(t)
        \/ \E s \in Sources : GetConfig(t, s) \/ ExportDir(t, s)
                              \/ LoadBegin(t, s)
        \/ LoadEnd(t)

Spec == Init /\ [][Next]_vars

-----------------------------------------------------------------------------
(* Properties                                                              *)

\* libcc is never handed the CancelToken's handle after it freed it: not
\* by cancel() or is_cancelled, which never look at _freed, not by a pull
\* given the token (CancelToken.handle does not check), and not by a
\* second free.  The class docstring has token.cancel() called "in another
\* thread", so a canceller firing after the owner's `with CancelToken()`
\* ended is the documented use (spec §3, §9: a freed handle is stale).
TokenNeverPassedFreed == hd[Token] \notin last.stale
=============================================================================

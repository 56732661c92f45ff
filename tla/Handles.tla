------------------------------- MODULE Handles -------------------------------
(***************************************************************************)
(* The handle-carrying wrapper objects of the IPC branch -- File,          *)
(* Snapshot, Listener, Conn (instance.py), Cmd (cmd.py) and Instance --    *)
(* over the operation facade IPCBackend (_ipc_backend.py).                 *)
(*                                                                         *)
(* Every facade method is one call: _ensure_client() (spawning a helper    *)
(* when there is no client, or the client was closed), then IPCClient.call *)
(* taken as one atomic request/reply (IPCClient.tla checks that layer),    *)
(* then _check_error and the typed decode.  A facade method is abstracted  *)
(* to its signature: the kind of handle it takes, the kind of handle it    *)
(* returns, and its effect on the helper's table.  Each wrapper method is  *)
(* one action: its Python guards, the facade call and the flag updates.    *)
(*                                                                         *)
(* The helper is modelled from the spec: one per generation (one per       *)
(* spawn), handing out handles 1, 2, ... from a table it keeps for its     *)
(* lifetime, holding at most one VM instance.                              *)
(***************************************************************************)
EXTENDS Naturals, Sequences, FiniteSets, TLC

CONSTANTS
    Objs,            \* wrapper objects the program creates (model values)
    KindOf,          \* Objs -> kind of wrapper
    MaxGens,         \* helpers spawned at most (bound)
    MaxHandles,      \* handles one helper hands out at most (bound)
    HelperMayCrash,  \* the helper may die under a live client
    BackendMayClose  \* IPCBackend.close() may be called (e.g. by shutdown)

Kinds == {"file", "snapshot", "listener", "conn", "cmd", "source"}
\* Wrappers with a _closed flag and a close() that releases the handle.
Closable == {"file", "snapshot", "listener", "conn"}

ASSUME /\ KindOf \in [Objs -> Kinds]
       /\ MaxGens \in Nat \ {0} /\ MaxHandles \in Nat \ {0}
       /\ HelperMayCrash \in BOOLEAN /\ BackendMayClose \in BOOLEAN

-----------------------------------------------------------------------------
(* The facade: IPCBackend methods as [arg, ret, eff] signatures.  arg is   *)
(* the kind of the `handle` parameter, ret the kind of the handle it       *)
(* returns (`return dec.uint64()`), eff what the helper does on success.   *)

Sig(a, r, e) == [arg |-> a, ret |-> r, eff |-> e]
Plain(a) == Sig(a, "none", "none")

InstanceCalls ==
    [instance_new |-> Sig("none", "none", "instance_new"),
     instance_close |-> Sig("none", "none", "instance_close"),
     instance_wait |-> Plain("none"), instance_id |-> Plain("none"),
     instance_is_running |-> Plain("none"),
     instance_set_console |-> Plain("none"),
     instance_set_network |-> Plain("none"),
     instance_exec |-> Plain("none")]

FsCalls ==
    [fs_open |-> Sig("none", "file", "create"),
     fs_create |-> Sig("none", "file", "create"),
     fs_open_file |-> Sig("none", "file", "create"),
     fs_snapshot |-> Sig("none", "snapshot", "create"),
     fs_read_file |-> Plain("none"), fs_write_file |-> Plain("none"),
     fs_stat |-> Plain("none"), fs_lstat |-> Plain("none"),
     fs_remove |-> Plain("none"), fs_remove_all |-> Plain("none"),
     fs_mkdir |-> Plain("none"), fs_mkdir_all |-> Plain("none"),
     fs_rename |-> Plain("none"), fs_symlink |-> Plain("none"),
     fs_readlink |-> Plain("none"), fs_read_dir |-> Plain("none"),
     fs_chmod |-> Plain("none"), fs_chown |-> Plain("none"),
     fs_chtimes |-> Plain("none")]

FileCalls ==
    [file_close |-> Sig("file", "none", "release"),
     file_read |-> Plain("file"), file_write |-> Plain("file"),
     file_seek |-> Plain("file"), file_sync |-> Plain("file"),
     file_truncate |-> Plain("file"), file_stat |-> Plain("file"),
     file_name |-> Plain("file")]

CmdCalls ==
    [cmd_new |-> Sig("none", "cmd", "create"),
     cmd_entrypoint |-> Sig("none", "cmd", "create"),
     cmd_free |-> Sig("cmd", "none", "release"),
     cmd_kill |-> Sig("cmd", "none", "release"),
     cmd_start |-> Sig("cmd", "none", "start"),
     cmd_run |-> Sig("cmd", "none", "start"),
     cmd_output |-> Sig("cmd", "none", "start"),
     cmd_combined_output |-> Sig("cmd", "none", "start"),
     cmd_set_dir |-> Plain("cmd"), cmd_set_env |-> Plain("cmd"),
     cmd_get_env |-> Plain("cmd"), cmd_environ |-> Plain("cmd"),
     cmd_wait |-> Plain("cmd"), cmd_exit_code |-> Plain("cmd"),
     cmd_stdout_pipe |-> Sig("cmd", "conn", "none"),
     cmd_stderr_pipe |-> Sig("cmd", "conn", "none"),
     cmd_stdin_pipe |-> Sig("cmd", "conn", "none")]

NetCalls ==
    [net_listen |-> Sig("none", "listener", "create"),
     listener_accept |-> Sig("listener", "conn", "none"),
     listener_close |-> Sig("listener", "none", "release"),
     listener_addr |-> Plain("listener"),
     conn_read |-> Plain("conn"), conn_write |-> Plain("conn"),
     conn_close |-> Sig("conn", "none", "release"),
     conn_local_addr |-> Plain("conn"), conn_remote_addr |-> Plain("conn")]

SnapshotCalls ==
    [snapshot_cache_key |-> Plain("snapshot"),
     snapshot_parent |-> Sig("snapshot", "snapshot", "none"),
     snapshot_close |-> Sig("snapshot", "none", "release"),
     snapshot_as_source |-> Sig("snapshot", "source", "none"),
     build_dockerfile |-> Sig("none", "snapshot", "create")]

Facade == InstanceCalls @@ FsCalls @@ FileCalls @@ CmdCalls @@ NetCalls
            @@ SnapshotCalls
Calls == DOMAIN Facade

\* The calls a wrapper of kind k makes with its own handle, other than its
\* release (the methods guarded by `if self._closed`); as_source is the
\* AsSource action, which follows the InstanceSource it returns.
UseCalls(k) == {c \in Calls : Facade[c].arg = k /\ Facade[c].eff = "none"
                              /\ Facade[c].ret # "source"}
ReleaseCall(k) == CHOOSE c \in Calls : Facade[c].arg = k /\ Facade[c].eff = "release"
\* The calls that make a wrapper of kind k from the Instance (or client).
CreateCalls(k) == {c \in Calls : Facade[c].ret = k /\ Facade[c].eff = "create"}

-----------------------------------------------------------------------------
VARIABLES
    client,   \* IPCBackend._client: "none", "live", or "dead" (helper gone,
              \* client not closed)
    gen,      \* helpers spawned so far; the client talks to helper `gen`
    srv,      \* srv[g]: helper g's handle table, handle i at index i
    srvInst,  \* srvInst[g]: helper g holds a VM instance
    inst,     \* the Instance object: "none", "open" (_closed = FALSE), "closed"
    st,       \* st[o]: "unborn", "live", "dropped" (after __del__)
    hd,       \* hd[o]: the wrapper's _handle (0 before it has one)
    og,       \* og[o]: the helper that issued hd[o] (history)
    closed,   \* closed[o]: _closed of a Closable wrapper
    started,  \* started[o]: Cmd._started
    freed,    \* freed[o]: Cmd._freed
    sent      \* the request the last step put on the wire (history)

vars == <<client, gen, srv, srvInst, inst, st, hd, og, closed, started, freed, sent>>

Entry == [kind : Kinds, st : {"live", "started", "freed"}]
\* A wrapper has released its handle: a close(), _free() or kill() of it
\* returned normally.
Released(o) == closed[o] \/ freed[o]
\* `rel` records whether the sender had already released its handle.
Msg(o, c, g, h) == [obj |-> o, eff |-> Facade[c].eff, gen |-> g, h |-> h,
                    rel |-> o \in Objs /\ Released(o)]
NoMsg == [obj |-> "none", eff |-> "none", gen |-> 0, h |-> 0, rel |-> FALSE]

TypeOK ==
    /\ client \in {"none", "live", "dead"} /\ gen \in 0..MaxGens
    /\ srv \in [1..MaxGens -> Seq(Entry)]
    /\ \A g \in 1..MaxGens : Len(srv[g]) <= MaxHandles
    /\ srvInst \in [1..MaxGens -> BOOLEAN]
    /\ inst \in {"none", "open", "closed"}
    /\ st \in [Objs -> {"unborn", "live", "dropped"}]
    /\ hd \in [Objs -> 0..MaxHandles] /\ og \in [Objs -> 0..MaxGens]
    /\ closed \in [Objs -> BOOLEAN] /\ started \in [Objs -> BOOLEAN]
    /\ freed \in [Objs -> BOOLEAN]

Init ==
    /\ client = "none" /\ gen = 0
    /\ srv = [g \in 1..MaxGens |-> <<>>]
    /\ srvInst = [g \in 1..MaxGens |-> FALSE]
    /\ inst = "none"
    /\ st = [o \in Objs |-> "unborn"]
    /\ hd = [o \in Objs |-> 0] /\ og = [o \in Objs |-> 0]
    /\ closed = [o \in Objs |-> FALSE]
    /\ started = [o \in Objs |-> FALSE] /\ freed = [o \in Objs |-> FALSE]
    /\ sent = NoMsg

-----------------------------------------------------------------------------
(* The helper (spec-modelled)                                              *)

\* Whether helper g accepts call c with handle h: a handle must name a live
\* entry of the right kind; everything else needs the VM instance.
Valid(c, g, h) ==
    IF Facade[c].arg = "none"
    THEN c = "instance_new" \/ srvInst[g]
    ELSE /\ h \in 1..Len(srv[g])
         /\ srv[g][h].kind = Facade[c].arg
         /\ srv[g][h].st # "freed"
         /\ Facade[c].eff = "start" => srv[g][h].st = "live"

\* Calls that can fail on the helper's side although the handle is good
\* (I/O errors, a command that cannot be started, ...).
MayFail(c) == Facade[c].eff \notin {"release", "instance_close"}

\* Room in the table of helper g for the handle call c returns (bound).
Room(c, g) == Facade[c].ret = "none" \/ Len(srv[g]) < MaxHandles

\* Helper g's table after serving call c with handle h.
Served(c, g, h) ==
    LET t == srv[g]
        e == Facade[c].eff
        t1 == CASE e = "release" -> [t EXCEPT ![h].st = "freed"]
                [] e = "start" -> [t EXCEPT ![h].st = "started"]
                [] OTHER -> t
    IN IF Facade[c].ret = "none" THEN t1
       ELSE Append(t1, [kind |-> Facade[c].ret, st |-> "live"])

Serve(o, c, h, g, r) ==
    /\ sent' = Msg(o, c, g, h)
    /\ Room(c, g)
    /\ IF Valid(c, g, h)
       THEN /\ r \in {"ok"} \cup (IF MayFail(c) THEN {"remote_error"} ELSE {})
            /\ srv' = IF r = "ok" THEN [srv EXCEPT ![g] = Served(c, g, h)]
                      ELSE srv
            /\ srvInst' = IF r = "ok" /\ Facade[c].eff = "instance_new"
                          THEN [srvInst EXCEPT ![g] = TRUE]
                          ELSE IF r = "ok" /\ Facade[c].eff = "instance_close"
                          THEN [srvInst EXCEPT ![g] = FALSE]
                          ELSE srvInst
       ELSE r = "remote_error" /\ UNCHANGED <<srv, srvInst>>

-----------------------------------------------------------------------------
(* IPCBackend                                                              *)

Results == {"ok", "remote_error", "conn_lost", "spawn_failed"}

\* One facade method: _ensure_client() -- spawn_helper() when there is no
\* client -- then self.client.call(...) and _check_error, with result r.
\* A spawn is one step here (HelperLifecycle.tla models it); a client
\* whose helper died is not closed, so its calls fail.
Rpc(o, c, h, r) ==
    \/ /\ client = "none" /\ r = "spawn_failed"
       /\ sent' = NoMsg /\ UNCHANGED <<client, gen, srv, srvInst>>
    \/ /\ client = "none" /\ gen < MaxGens
       /\ gen' = gen + 1 /\ client' = "live"
       /\ Serve(o, c, h, gen + 1, r)
    \/ /\ client = "live" /\ UNCHANGED <<client, gen>>
       /\ Serve(o, c, h, gen, r)
    \/ /\ client = "dead" /\ r = "conn_lost"
       /\ sent' = Msg(o, c, gen, h) /\ UNCHANGED <<client, gen, srv, srvInst>>

\* IPCBackend.close(): self._client.close(); self._client = None.
BackendClose ==
    /\ BackendMayClose /\ client # "none"
    /\ client' = "none" /\ sent' = NoMsg
    /\ UNCHANGED <<gen, srv, srvInst, inst, st, hd, og, closed, started, freed>>

\* The helper dies; IPCClient._closed stays FALSE.
HelperCrash ==
    /\ HelperMayCrash /\ client = "live"
    /\ client' = "dead" /\ sent' = NoMsg
    /\ UNCHANGED <<gen, srv, srvInst, inst, st, hd, og, closed, started, freed>>

ObjVars == <<st, hd, og, closed, started, freed>>

-----------------------------------------------------------------------------
(* Instance                                                                *)

\* Instance(source, options): backend.instance_new(...) with the source's
\* _ipc_source_type/path/image_ref/cache_dir (its _handle is not sent, and
\* its _closed is not looked at); `self._closed = False` only if it
\* returned.  A program may make a new Instance once the previous one is
\* closed or failed.
InstanceNew ==
    /\ inst # "open"
    /\ \E r \in Results :
        /\ Rpc("inst", "instance_new", 0, r)
        /\ inst' = IF r = "ok" THEN "open" ELSE "closed"
    /\ UNCHANGED ObjVars

\* Instance.close() (also __exit__, __del__): `if not self._closed:`
\* instance_close(), then `self._closed = True`.
InstanceClose ==
    /\ inst = "open"
    /\ \E r \in Results :
        /\ Rpc("inst", "instance_close", 0, r)
        /\ inst' = IF r = "ok" THEN "closed" ELSE inst
    /\ UNCHANGED ObjVars

\* The Instance methods that only forward to the facade (id, wait, exec,
\* read_file, stat, mkdir, ...), each behind `if self._closed: raise`.
InstanceOps == {c \in DOMAIN InstanceCalls \cup DOMAIN FsCalls :
                   Facade[c] = Plain("none")}

InstanceOp ==
    /\ inst = "open"
    /\ \E c \in InstanceOps, r \in Results : Rpc("inst", c, 0, r)
    /\ UNCHANGED <<inst>> /\ UNCHANGED ObjVars

-----------------------------------------------------------------------------
(* Making a wrapper                                                        *)

\* Instance.open/create/open_file/listen/snapshot_filesystem (behind the
\* Instance's _closed check), and Instance.command / entrypoint_command ->
\* Cmd.__init__ / Cmd.entrypoint (no check of the Instance).  The wrapper
\* exists only if the call returned a handle.
Create(o) ==
    /\ st[o] = "unborn"
    /\ \E c \in CreateCalls(KindOf[o]) \ {"build_dockerfile"}, r \in Results :
        /\ KindOf[o] = "cmd" \/ inst = "open"
        /\ Rpc(o, c, 0, r)
        /\ IF r = "ok"
           THEN /\ st' = [st EXCEPT ![o] = "live"]
                /\ hd' = [hd EXCEPT ![o] = Len(srv'[gen'])]
                /\ og' = [og EXCEPT ![o] = gen']
           ELSE UNCHANGED <<st, hd, og>>
    /\ UNCHANGED <<inst, closed, started, freed>>

\* OCIClient.build_dockerfile in IPC mode: backend.build_dockerfile(...)
\* and Snapshot(handle, _ipc=True).  Neither the OCIClient's _closed nor
\* the Instance is looked at, and the cancel token is not sent.
BuildDockerfile(o) ==
    /\ st[o] = "unborn" /\ KindOf[o] = "snapshot"
    /\ \E r \in Results :
        /\ Rpc(o, "build_dockerfile", 0, r)
        /\ IF r = "ok"
           THEN /\ st' = [st EXCEPT ![o] = "live"]
                /\ hd' = [hd EXCEPT ![o] = Len(srv'[gen'])]
                /\ og' = [og EXCEPT ![o] = gen']
           ELSE UNCHANGED <<st, hd, og>>
    /\ UNCHANGED <<inst, closed, started, freed>>

-----------------------------------------------------------------------------
(* File, Snapshot, Listener, Conn                                          *)

\* Mutant: a method that does not look at _closed.
Use_unguarded(o) ==
    /\ st[o] = "live" /\ KindOf[o] \in Closable
    /\ \E c \in UseCalls(KindOf[o]), r \in Results : Rpc(o, c, hd[o], r)
    /\ UNCHANGED <<inst>> /\ UNCHANGED ObjVars

\* read/write/seek/sync/truncate/stat/name, cache_key/parent,
\* addr/accept, read/write/local_addr/remote_addr: `if self._closed:`
\* raise (or return ""), else the facade call with self._handle.  The
\* wrappers parent() and accept() return are not followed.
Use(o) ==
    /\ st[o] = "live" /\ KindOf[o] \in Closable /\ ~closed[o]
    /\ \E c \in UseCalls(KindOf[o]), r \in Results : Rpc(o, c, hd[o], r)
    /\ UNCHANGED <<inst>> /\ UNCHANGED ObjVars

\* close() / __exit__: `if not self._closed and self._handle is not None:`
\* the release call, then `self._closed = True` if it returned.
Close(o) ==
    /\ st[o] = "live" /\ KindOf[o] \in Closable /\ ~closed[o]
    /\ \E r \in Results :
        /\ Rpc(o, ReleaseCall(KindOf[o]), hd[o], r)
        /\ closed' = IF r = "ok" THEN [closed EXCEPT ![o] = TRUE] ELSE closed
    /\ UNCHANGED <<inst, st, hd, og, started, freed>>

-----------------------------------------------------------------------------
(* InstanceSource (client.py)                                              *)

\* OCIClient.pull / load_tar / load_dir in IPC mode: no call is made (and
\* OCIClient's _closed is not looked at); the InstanceSource only keeps
\* the source type, path, image and cache directory that Instance()
\* later sends in instance_new.  Its _handle is None.
LoadSource(o) ==
    /\ st[o] = "unborn" /\ KindOf[o] = "source"
    /\ st' = [st EXCEPT ![o] = "live"]
    /\ sent' = NoMsg
    /\ UNCHANGED <<client, gen, srv, srvInst, inst, hd, og, closed, started, freed>>

\* Snapshot.as_source(): `if self._closed: raise`, snapshot_as_source,
\* and InstanceSource(source_handle): the helper's source handle, with the
\* default metadata.
AsSource(s, o) ==
    /\ st[o] = "unborn" /\ KindOf[o] = "source"
    /\ st[s] = "live" /\ KindOf[s] = "snapshot" /\ ~closed[s]
    /\ \E r \in Results :
        /\ Rpc(s, "snapshot_as_source", hd[s], r)
        /\ IF r = "ok"
           THEN /\ st' = [st EXCEPT ![o] = "live"]
                /\ hd' = [hd EXCEPT ![o] = Len(srv'[gen'])]
                /\ og' = [og EXCEPT ![o] = gen']
           ELSE UNCHANGED <<st, hd, og>>
    /\ UNCHANGED <<inst, closed, started, freed>>

\* InstanceSource.close() / __exit__: `if not self._closed and
\* self._handle is not None:` the free is skipped under IPC (there is no
\* operation for it), then `self._closed = True`.  __del__ (Drop) runs the
\* same code and sends nothing either.
SourceClose(o) ==
    /\ st[o] = "live" /\ KindOf[o] = "source" /\ ~closed[o] /\ hd[o] # 0
    /\ closed' = [closed EXCEPT ![o] = TRUE]
    /\ sent' = NoMsg
    /\ UNCHANGED <<client, gen, srv, srvInst, inst, st, hd, og, started, freed>>

-----------------------------------------------------------------------------
(* Cmd                                                                     *)

\* set_dir, set_env, get_env, environ, exit_code: the facade call with
\* self._handle, no look at _freed or _started.
CmdUnchecked ==
    {"cmd_set_dir", "cmd_set_env", "cmd_get_env", "cmd_environ",
     "cmd_exit_code"}

CmdConfigure(o) ==
    /\ st[o] = "live" /\ KindOf[o] = "cmd"
    /\ \E c \in CmdUnchecked, r \in Results : Rpc(o, c, hd[o], r)
    /\ UNCHANGED <<inst>> /\ UNCHANGED ObjVars

\* start(): `if self._started: raise`; cmd_start; `self._started = True`.
CmdStart(o) ==
    /\ st[o] = "live" /\ KindOf[o] = "cmd" /\ ~started[o]
    /\ \E r \in Results :
        /\ Rpc(o, "cmd_start", hd[o], r)
        /\ started' = IF r = "ok" THEN [started EXCEPT ![o] = TRUE]
                      ELSE started
    /\ UNCHANGED <<inst, st, hd, og, closed, freed>>

\* wait(): `if not self._started: raise`; cmd_wait.
CmdWait(o) ==
    /\ st[o] = "live" /\ KindOf[o] = "cmd" /\ started[o]
    /\ \E r \in Results : Rpc(o, "cmd_wait", hd[o], r)
    /\ UNCHANGED <<inst>> /\ UNCHANGED ObjVars

\* run() / output() / combined_output(): `self._started = True` first,
\* then the call.
CmdRun(o) ==
    /\ st[o] = "live" /\ KindOf[o] = "cmd"
    /\ started' = [started EXCEPT ![o] = TRUE]
    /\ \E c \in {"cmd_run", "cmd_output", "cmd_combined_output"},
          r \in Results : Rpc(o, c, hd[o], r)
    /\ UNCHANGED <<inst, st, hd, og, closed, freed>>

\* Mutant: kill() without its `if self._freed: return`.
CmdKill_nocheck(o) ==
    /\ st[o] = "live" /\ KindOf[o] = "cmd"
    /\ \E r \in Results :
        /\ Rpc(o, "cmd_kill", hd[o], r)
        /\ freed' = IF r = "ok" THEN [freed EXCEPT ![o] = TRUE] ELSE freed
    /\ UNCHANGED <<inst, st, hd, og, closed, started>>

\* kill(): `if self._freed: return`; cmd_kill; `self._freed = True`.
CmdKill(o) ==
    /\ st[o] = "live" /\ KindOf[o] = "cmd" /\ ~freed[o]
    /\ \E r \in Results :
        /\ Rpc(o, "cmd_kill", hd[o], r)
        /\ freed' = IF r = "ok" THEN [freed EXCEPT ![o] = TRUE] ELSE freed
    /\ UNCHANGED <<inst, st, hd, og, closed, started>>

-----------------------------------------------------------------------------
(* Finalizers                                                              *)

\* Whether __del__ of o sends anything: close() of a Closable that is not
\* closed; Cmd._free(): `if not self._freed and not self._started`.
DropSends(o) ==
    CASE KindOf[o] \in Closable -> ~closed[o]
      [] KindOf[o] = "cmd"      -> ~freed[o] /\ ~started[o]
      [] OTHER                  -> FALSE

DropCall(o) == IF KindOf[o] = "cmd" THEN "cmd_free" ELSE ReleaseCall(KindOf[o])

\* The last reference goes: __del__ runs close() / _free(); an exception
\* raised in it is swallowed.
Drop(o) ==
    /\ st[o] = "live"
    /\ st' = [st EXCEPT ![o] = "dropped"]
    /\ IF DropSends(o)
       THEN \E r \in Results :
              /\ Rpc(o, DropCall(o), hd[o], r)
              /\ IF r = "ok" /\ KindOf[o] \in Closable
                 THEN closed' = [closed EXCEPT ![o] = TRUE] /\ UNCHANGED freed
                 ELSE IF r = "ok"
                 THEN freed' = [freed EXCEPT ![o] = TRUE] /\ UNCHANGED closed
                 ELSE UNCHANGED <<closed, freed>>
       ELSE /\ sent' = NoMsg /\ UNCHANGED <<client, gen, srv, srvInst, closed, freed>>
    /\ UNCHANGED <<inst, hd, og, started>>

\* All wrappers gone: the program has ended.
Finished ==
    /\ \A o \in Objs : st[o] = "dropped"
    /\ UNCHANGED vars

Next ==
    \/ InstanceNew \/ InstanceClose \/ InstanceOp
    \/ BackendClose \/ HelperCrash
    \/ \E o \in Objs :
        \/ Create(o) \/ BuildDockerfile(o) \/ Use(o) \/ Close(o) \/ Drop(o)
        \/ LoadSource(o) \/ SourceClose(o) \/ \E s \in Objs : AsSource(s, o)
        \/ CmdConfigure(o) \/ CmdStart(o) \/ CmdWait(o) \/ CmdRun(o)
        \/ CmdKill(o)
    \/ Finished

Spec == Init /\ [][Next]_vars

-----------------------------------------------------------------------------
(* Properties                                                              *)

\* No wrapper sends its release request (close, _free, kill, including
\* the one in __del__) after a release of its handle returned: the flags
\* the wrappers keep are enough to release each handle at most once.
ReleasedAtMostOnce ==
    sent.eff = "release" => ~sent.rel

\* No request carrying the handle of a File, Snapshot, Listener or Conn
\* (whose methods check _closed) leaves after the wrapper released that
\* handle (spec §3, §9: a released handle is stale).
ClosableNoUseAfterRelease ==
    (sent.obj \in Objs /\ KindOf[sent.obj] \in Closable) => ~sent.rel

\* A resource is never freed on its helper while the wrapper that holds it
\* has not released it: nobody else's request frees it (spec §3: handles
\* are unique within one helper's lifetime).
NoForeignRelease ==
    \A o \in Objs :
        (st[o] = "live" /\ ~Released(o)) => srv[og[o]][hd[o]].st # "freed"

====

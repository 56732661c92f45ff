# TLA+ models of the cc-helper RPC layer (crumblecracker Python bindings)

This directory holds TLA+ specifications of the client side of the cc-helper
RPC layer in `src/bindings/python/crumblecracker/`: the wire codec, the
synchronous transport client, helper discovery and spawning, and the
operation facade with the handle-carrying objects built on it. It also
models the resource wrappers of the direct in-process backend in
`src/bindings/python/cc/`. Every module
is translated from that source. The helper process (the Go server) is not
under `src/`, so it appears only as the peer the client talks to, modelled
from `spec.md`.

## 1. Inventory

### Components

| Component | Source | State it keeps | Operations |
|---|---|---|---|
| Wire codec | `_ipc_protocol.py` | `Encoder._parts`, `Decoder._buf/_pos` | `encode_header`, `decode_header`, primitive and compound `Encoder`/`Decoder` methods, `Decoder.error` |
| Error taxonomy | `errors.py` | none | `error_from_code` |
| Transport client | `_ipc_client.py` `IPCClient` | `_sock`, `_socket_path`, `_process`, `_lock`, `_closed` | `call`, `call_with_encoder`, `_recv_exact`, `close`, `__del__`/`__exit__` |
| Discovery and spawner | `_ipc_client.py` | `_socket_counter` and its lock | `_find_helper`, `_next_socket_path`, `spawn_helper`, `connect_to`, `_remove_socket` |
| Operation facade | `_ipc_backend.py` `IPCBackend` | `_client` | `_ensure_client`, `close`, and about 60 operations, each one `call` followed by a status-byte check and a typed decode |
| Resource wrappers (IPC branches) | `instance.py`, `cmd.py`, `client.py` | `_handle`, `_closed`, `_started`, `_freed` per object | `File`, `Snapshot`, `Listener`, `Conn`, `Instance`, `Cmd`, `InstanceSource`, `OCIClient`, `CancelToken` |
| Direct FFI backend | `cc/_ffi.py`, `cc/client.py`, non-IPC branches | `_handle`, `_closed`/`_freed` per wrapper; libcc's handle table | `OCIClient`, `InstanceSource`, `CancelToken` over ctypes foreign calls (outside the spec's scope, §1) |
| SDK constant generator | `internal/hv/hvf/bindings/gen_consts_from_sdk.py` | none | build-time only (excluded) |

### How they interact

A wrapper method (for example `File.write`) calls the facade
(`IPCBackend.file_write`), which encodes the arguments with an `Encoder`,
issues one `IPCClient.call(msg_type, payload)` and decodes the reply with a
`Decoder`, starting with the status byte (`_check_error`). `call` holds the
client lock for the whole exchange: it writes the 6-byte header and the
payload, reads a 6-byte header and then the declared payload with
`_recv_exact`, and raises the decoded error for `MSG_ERROR`. The facade gets
its client from `_ensure_client`, which spawns a helper (`spawn_helper`:
find the executable, pick a socket path, start the process, poll until the
socket accepts a connection or 10 s pass) on first use and again whenever
the client it had is closed. `close()` on the client closes the socket,
waits for the helper (killing it after 2 s) and removes the socket file.
Wrappers close their handles from `close()`, `__exit__` and `__del__`.

### What is hard

* Threads share one client and one byte stream that carries no request id:
  only the lock, and the stream being aligned on a frame boundary whenever
  the lock is free, route each reply to its caller.
* Reads are short and the peer can vanish at any byte; a read of zero bytes
  must end the call instead of hanging with the lock held.
* Exceptions can leave a call halfway (an asynchronous exception while
  blocked in `recv`, an `OSError` from `sendall`).
* `close()` is not synchronised with `call()`; finalizers run `close()` on
  arbitrary threads.
* The facade respawns a helper behind the caller's back; handles are plain
  integers, unique only within one helper process's lifetime.
* Spawning races the helper's creation of the socket file, has a deadline,
  and has to clean up the process and the file on every failure path.

### What makes each component correct

* Transport: every call that returns gets the full payload of the reply
  to its own request; every call that took the lock eventually returns or
  raises; every failure is a `CCError`; after `close()` no request is
  written.
* Codec: `decode(encode(v)) = v` at every width and boundary; decoding past
  the end fails instead of reading out of bounds; an error payload with code
  0 means no error.
* Discovery/spawner: the override path, when set, is the only location
  searched (spec §8); socket paths are unique; a failed spawn leaves no
  process and no socket file; a spawn always ends (deadline).
* Facade and wrappers: a handle is only ever sent to the helper that issued
  it; every handle obtained is released at most once, and released before
  the helper is gone where the code promises it.
* Direct backend wrappers: libcc is never handed a handle it has freed,
  whether by a method, a second free, or a cancel from another thread.

## 2. Plan

Modules, in order of importance (all are done):

1. `IPCClient` (done): threads calling `call()` on one client, the
   byte-level response stream with short reads, the helper as an in-order
   server that may crash, `close()` unsynchronised with calls, asynchronous
   exceptions. MC module `MCIPCClient`.
2. `HelperLifecycle` (done): `spawn_helper` (process start, the helper's
   bind and listen, the poll loop with a tick-counted deadline, connect
   failures, cleanup), `connect_to`, and `close()`'s wait/kill/remove
   sequence with its exception paths.
3. `Handles` (done): the facade's methods as signatures, `_ensure_client`'s
   spawn-on-demand and respawn, the wrapper objects (`File`, `Snapshot`,
   `Listener`, `Conn`, `Cmd`, `Instance`) with their flags and finalizers,
   and the helper's handle table per helper generation. MC module
   `MCHandles`.
4. `EnsureClient` (done): `_ensure_client`, the `client` property and
   `IPCBackend.close()` step by step under two threads, with CPython's
   reference-counted finalisation of dropped clients. MC module
   `MCEnsureClient`.
5. `WireCodec` (done): every Encoder and Decoder method, `struct.pack`'s
   range check, `Decoder._check`, `Decoder.error` with `error_from_code`,
   the compound encoders and the header; every integer width checked at its
   boundaries with bytes of radix 12. MC module `MCWireCodec`.
6. `HelperDiscovery` (done): `_find_helper` as an operator over which
   candidate files exist, and `_next_socket_path`'s locked counter under
   concurrent spawns, each spawn's helper binding its path. MC module
   `MCHelperDiscovery`.
   It refines `SocketCounter`, the abstract counter.
8. `NativeFFI` (done): the direct backend's `OCIClient`,
   `InstanceSource` and `CancelToken` (`cc/client.py`) shared by threads,
   with foreign calls that release the GIL. MC module `MCNativeFFI`.
7. `SerialRPC` (done, abstract): each call is one atomic request/reply on
   a connection; `IPCClient` refines it (INSTANCE ... WITH) when no
   asynchronous exception occurs. This is the justification for taking a
   call as one step in `Handles` and `EnsureClient`.

## 3. Modules and runs

### IPCClient (`IPCClient.tla`, `MCIPCClient.tla`)

State and code:

| Variable | Code |
|---|---|
| `closed` | `IPCClient._closed` |
| `sockOpen` | the client socket `_sock` is open |
| `peerOpen` | the helper process is alive with its end open |
| `lock` | `IPCClient._lock` |
| `pc`, `got`, `hdr` | position in `call()`, `_recv_exact`'s local `data`, `(resp_type, resp_len)` |
| `result` | how the thread's last call ended, with the payload it returned |
| `toHelper`, `fromHelper` | the two directions of the Unix socket |
| `reply` | the helper's reply to each thread's latest request (history) |
| `abandoned` | requests whose caller was interrupted before reading the reply (history) |

Actions: `CallRejectClosed`/`CallAcquire` (`with self._lock`, the
`_closed` check), `CallSend` (the two `sendall`s; to a dead helper either
the write vanishes or `OSError` escapes), `RecvChunk` and `RecvFail` (one
`recv` in `_recv_exact`, or its end-of-stream/`OSError` exits),
`HeaderDone`/`PayloadDone` (`decode_header`, the `resp_len > 0` branch, the
`MSG_ERROR` check), `Interrupt` (an exception propagating out of a blocked
`recv`, releasing the lock), `Close` (`close()`), and the helper's
`HelperServe` and `HelperCrash`. The response stream is a sequence of
bytes, each recording the request it answers and its offset in the frame,
so a header read out of alignment decodes to an arbitrary type and length,
as `struct.unpack` would.

Constants: `HelperMayCrash`, `AsyncInterrupt`, `CloseDuringCall` (the spec
calls `close()` during a call unsupported, so runs about what the spec
promises leave it off), `MaxInterrupts` (bound on interrupts).

Runs:

* `transport` (`MCIPCClient.cfg`, pass): 2 threads, 2 calls each, payload
  lengths {0, 2}, crashes, one interrupt and `close()` during calls.
  `TypeOK` (including that `_recv_exact` never holds more than it asked
  for) and `OnlyInterruptsMisroute`: as long as no call was interrupted,
  every call that returns gets exactly its own reply's payload. About 1.9
  million states.
* `transport_liveness` (`MCIPCClient_live.cfg`, pass, about 34,000
  states): no interrupts, payload lengths {0, 1, 2}. `CallCompletes`:
  every call that took the lock returns or raises, whatever the helper
  does (a read of zero bytes ends the call). `ImplementsSerialRPC`: the
  client refines the abstract specification `SerialRPC` (below).
* `transport_interrupt` (violation, `CallReturnsOwnResponse`): a call
  interrupted while waiting leaves its reply in the stream and the
  thread's next call returns it. With two interrupts (`MaxInterrupts` 2)
  the same leftover bytes can misalign a header so that the next call
  waits for ever holding the lock; that run was retired to make room for
  the codec run, as it shows the same defect, and the finding records
  both consequences.
* The model also shows, with no run of its own, that `sendall` or `recv`
  on a socket whose helper died raises `OSError` out of `call()` (the
  `"oserror"` results of `CallSend`, `RecvChunk` and `RecvFail`). Spec §7
  says that transport failures surface as `CCError`. The run that checked
  this was retired to make room for `discovery`. The behaviour is a single
  step from the code.

Bounds: two threads are enough for every interleaving of two exchanges
around one lock; two calls per thread let a stale reply from the first call
be read by the second; payload length 0 covers the empty-payload branch and
2 a payload split across reads; the 6-byte header is kept at its real size
so every split of a header across reads occurs. One interrupt is enough to
misalign the stream.

Fairness: a thread holding the lock keeps running (weak fairness of its
steps in `call()`), and a live helper eventually serves a pending request
(weak fairness of `HelperServe`). Crashes, interrupts, `close()` and the
start of a new call are not assumed. Liveness is checked without symmetry.

### SerialRPC (`SerialRPC.tla`): the client's promise

An abstract specification of one connection, with no bytes and no lock:

* `Begin(t)`: a call takes the connection. `Reject(t)`: a call on a
  closed client fails.
* `Serve(t)`: the helper answers the running call's request.
* `Return(t)`: the call returns that answer (or raises it for an error).
* `Fail(t)`: the call fails (closed, connection lost, OSError, aborted).
* `Close`: the client is closed.

Weak fairness of `Return(t) \/ Fail(t)` says a running call ends.

`IPCClient` defines `SR == INSTANCE SerialRPC WITH busy <- lock,
answer <- reply, ...`. `ncalls`, `closed` and `result` map to themselves,
and a reply's request, payload and error flag map to `r.f`,
`PayloadOf(r)` and `r.type = MSG_ERROR`. `ImplementsSerialRPC == SR!Spec`
is checked in `transport_liveness`.

Concrete steps map as follows:

* `CallAcquire` is `Begin`.
* `HelperServe` is `Serve`.
* `PayloadDone`, and `HeaderDone` for an empty payload, are `Return`.
* Every exit with an exception is `Fail`.
* Sending, short reads and crashes are stuttering steps.

With asynchronous exceptions the refinement fails, exactly as
`transport_interrupt` shows. The mutant that drops the lock in
`CallAcquire` breaks it at once: two calls own the connection.

### EnsureClient (`EnsureClient.tla`, `MCEnsureClient.tla`)

`IPCBackend`'s `_client` slot as several threads use it. The module tracks
who holds a reference to which `IPCClient`:

* `client` is the slot itself.
* `newc[t]` is a `spawn_helper()` result not yet stored.
* `local[t]` is the client an operation got from `self.client`.

A step that drops the last reference closes that client, as CPython's
refcounting and `IPCClient.__del__` do (`Collect`).

| Code (`_ipc_backend.py`) | Action |
|---|---|
| `if self._client is None` (99) | `EnsureCheck` |
| `or self._client.is_closed` (99, a second read) | `EnsureCheckClosed` |
| `spawn_helper()` (100) | `EnsureSpawn` |
| `self._client = ...` (100) | `EnsureAssign` |
| `return self._client` (101, a third read) | `EnsureReturn` |
| `.call(...)` on the result | `Call` |
| `close()`: `is not None`, `.close()`, `= None` (107-110) | `CloseCheck`, `CloseClient`, `CloseClear` |

Run `ensure_client_race` (`MCEnsureClient_race.cfg`, violation,
`ServedHelperKept`). The property says a helper that has served a call
keeps running until the program closes the backend. Two threads each
make one call on a fresh backend, nobody closes it, and spawning
succeeds. TLC finds this trace:

1. Both threads see `None` and both spawn.
2. One thread stores its client, reads it back and is served.
3. The other thread's assignment drops the first client, and `__del__`
   shuts down the helper that just served the first thread.

Bounds: two threads and three clients are enough for two concurrent
spawns plus a respawn. This run checks safety only.

### HelperLifecycle (`HelperLifecycle.tla`)

| Variable | Code |
|---|---|
| `sp` | position in `spawn_helper` / `connect_to` |
| `proc`, `owned` | the helper process; whether this `spawn_helper` started it |
| `sockFile` | the socket file exists |
| `now` | polls done against the 10 s deadline (`Deadline` ticks) |
| `sockBound`, `lastErr` | the locals `sock` (assigned yet?) and `last_err` |
| `cl`, `closed` | the `IPCClient`'s place in its life and in `close()`; `_closed` |

Actions: `FindHelper`, `Popen`, `Poll` (the `while` test and
`os.path.exists`), `Connect` (`socket.socket()`, `connect`, the `except
OSError` clause with its `sock.close()`), `Sleep`, `SpawnKill`,
`SpawnRemove`, `ConnectTo`; `CloseBegin`, `CloseWait` (`wait(timeout=2)`),
`CloseKill` (`kill()`, `wait(timeout=5)`), `CloseRemove`
(`_remove_socket`); the helper's `HelperBind`, `HelperListen`,
`HelperCrash`. A spawn or a `connect_to` is chosen in the initial state.

Runs:

* `lifecycle` (`HelperLifecycle.cfg`, pass): `NoOrphanHelper` (a helper
  this process started is alive only while `spawn_helper` or a client
  that has not finished `close()` owns it), `NoStaleEndpoint` (its socket
  file is gone after a failed spawn and after `close()`), and
  `LifecycleStepsEnd` (spawning and closing always end).
* `lifecycle_unbound` (violation, `NoOrphanHelper`): `socket.socket()`
  failing on the first attempt makes `sock.close()` raise
  `UnboundLocalError`, which skips the cleanup.
* With `KillWaitMayTimeout` TRUE, TLC finds `NoStaleEndpoint` violated:
  `wait(timeout=5)` after `kill()` expiring escapes `close()` before the
  file is removed, and `_closed` is already set. That run was retired
  because the scenario is rare; the hazard
  list keeps it.

Bounds: `Deadline = 3` polls is enough for the file to be missing, present
but refused, and accepted, and for the deadline to pass with the helper
still starting. Fairness: the thread in `spawn_helper`/`close()` keeps
running (weak fairness of its steps); the helper's binding and listening
are not assumed, which is why the deadline matters.

### HelperDiscovery (`HelperDiscovery.tla`, `MCHelperDiscovery.tla`)

The start of `spawn_helper` in several threads of one process. Two
threads spawn at once when two first calls race in `_ensure_client` (see
EnsureClient).

| Variable | Code |
|---|---|
| `env`, `present` | `CC_HELPER_PATH` (unset, naming a file, naming nothing) and which candidate locations hold a `cc-helper` file |
| `lock`, `counter` | `_socket_counter_lock` (its holder) and `_socket_counter` |
| `tmp`, `count` | the value `_socket_counter += 1` loaded; the local `count` |
| `path`, `clock` | each spawn's `socket_path`; `time.time_ns()` |
| `helper`, `bound` | each spawn's helper process; the socket files and the helper that bound each |
| `conn` | the helper each returned `IPCClient` is connected to |

`FindHelper(e, p)` is `_find_helper` as an operator: the override, the
two package-adjacent paths, the per-user directory (`UserDirProbed`), then
`shutil.which`. `Find` raises `HelperNotFoundError` when it returns None.
`_socket_counter += 1` is three bytecodes, so it is two steps here:
`Load`, then `Store`. They sit between `Acquire` and `Release`, with
`Read` for `count = _socket_counter`. `SocketPath` is the name format:
`(time_ns, count)` on POSIX and `(count)` on Windows; the pid is
dropped because there is one process. `Spawn` formats the path and starts
the helper. `Poll` connects once a file at the path belongs to a
listening helper. `GiveUp` is the deadline's cleanup: kill, wait, and
`_remove_socket(socket_path)`. The deadline itself is abstracted into "at
any time" (HelperLifecycle counts the polls). `HelperBind` is
spec-modelled: the helper binds its path, or exits if a file is already
there.

* `discovery` (`MCHelperDiscovery.cfg`, pass, 19,336 states): two threads
  on Linux, every `CC_HELPER_PATH` setting and every installation (48
  initial states), and `time_ns` taking two values, so that two spawns can
  read the same time.
  * `ConnectsToOwnHelper`: each spawn connects to the helper it started,
    so no two clients share a process (spec §5). Without the lock, two
    threads load the same counter. They then get the same path when they
    read the same time, and the second helper cannot bind. Its spawn finds
    the first helper's file and connects to that helper (mutant
    `Acquire_nolock`).
  * `OwnEndpointKept`: a spawn still waiting for its live helper keeps
    that helper's socket file. If names carried only the time (mutant
    `SocketPath_nocount`), the spawn whose helper could not bind would give
    up and delete the other helper's file.

  * `ImplementsSocketCounter` (a refinement): `SocketCounter.tla` is
    what `_next_socket_path` promises (spec §4.3). Each call takes the next
    number in one indivisible step. The mapping keeps `counter`. A thread
    has taken its number once it has stored the incremented counter
    (`Counted`), and while it is about to read it back, its number is the
    counter's current value. Under the lock, `Store` is the abstract
    `Take`, and `Load`/`Read` are stutters. Without the lock (mutant
    `Acquire_nolock`), a second store of the same value or a read after
    another thread's store is no step of `SocketCounter`.

* `discovery_override` (`MCHelperDiscovery_override.cfg`, violation,
  `OverrideShortCircuits`): spec §8 scenario 3 says that an override
  naming a nonexistent file bypasses the other strategies, and that
  discovery fails listing only that path. The code
  (`_ipc_client.py:62-66`) appends the override to `searched` and goes
  on. TLC's trace has no helper installed anywhere, and `spawn_helper`
  reports all five places as searched. With a helper next to the package,
  `Find` moves on to `acquire` and spawns that helper instead.

No fairness: `threading.Lock` promises no order among waiters, and the
deadline is abstracted, so only safety is checked.

### Handles (`Handles.tla`, `MCHandles.tla`)

| Variable | Code |
|---|---|
| `client`, `gen` | `IPCBackend._client` (none, live, or with a dead helper) and which helper it talks to |
| `srv`, `srvInst` | each helper's handle table and whether it holds the VM instance (spec-modelled) |
| `inst` | the `Instance` object's `_closed` |
| `st`, `hd`, `og` | each wrapper's existence, `_handle`, and the helper that issued it |
| `closed`, `started`, `freed` | `_closed`; `Cmd._started`, `Cmd._freed` |
| `sent` | the last request on the wire, with whether its sender had released its handle (history) |

The facade's 70 methods are given by signature (`InstanceCalls`,
`FsCalls`, `FileCalls`, `CmdCalls`, `NetCalls`, `SnapshotCalls`): the
kind of handle taken, the kind returned, and the effect on the helper.
`Rpc` is one facade call: `_ensure_client` (spawning when there is no
client), the request/reply, `_check_error`. Each wrapper method is one
action: `Create`, `Use`, `Close`, `Drop` (`__del__`), `CmdConfigure`,
`CmdStart`, `CmdWait`, `CmdRun`, `CmdKill`, `InstanceNew`,
`InstanceClose`, `InstanceOp`, plus `BackendClose` and `HelperCrash`.
`BuildDockerfile` is `OCIClient.build_dockerfile`: a snapshot made with
no check of the OCIClient or the Instance (the cancel token is not sent).

`InstanceSource` (`client.py`) is a wrapper of kind `"source"`.
`LoadSource` is `OCIClient.pull`/`load_tar`/`load_dir` in IPC mode: no
call, only metadata, `_handle` None. `AsSource` is `Snapshot.as_source`:
a call that allocates a source handle on the helper, kept in `_handle`.
`SourceClose` is `InstanceSource.close`: in IPC mode it sets `_closed`
and sends nothing, and `__del__` does the same. `InstanceNew` sends only a
source's metadata, never its handle, so which source an `Instance` is made
from does not change the helper's table.

Two things about sources are plain from the code and need no model:
* `Instance(snapshot.as_source())` in IPC mode sends the default metadata
  (source type 0 = tar, empty path) and not the snapshot's source handle,
  so the instance is not made from the snapshot.
* The helper's source handle is never freed: there is no operation for
  it, and `InstanceSource.close` skips the free under IPC.

Runs:

* `handles` (`MCHandles.cfg`, pass): a Cmd, a Snapshot and an
  InstanceSource (loaded, or made by `as_source`), up to 2 helpers with 3
  handles each, crashes and backend closes. `ReleasedAtMostOnce` and
  `ClosableNoUseAfterRelease`. The Snapshot's methods and `close()` take
  the same guarded path as a File's.
* `handles_respawn` (violation, `NoForeignRelease`): after
  `IPCBackend.close()` a new helper reissues handle 1; an old File's
  `close()` frees the new File's resource.

Two Cmd defects follow from the actions as modelled. Each is reached by a
short call sequence of one thread, so no run is spent on them:
* `Cmd.set_dir`/`set_env`/`get_env`/`environ`/`exit_code` send the
  handle after `kill()` released it: `CmdConfigure` has no `_freed` guard,
  which is why the handles run checks `ClosableNoUseAfterRelease` and
  not the same property over every wrapper.
* `Cmd.run()` sets `_started` before the call. When the helper cannot
  start the command, `__del__` skips `cmd_free`, and the command stays in
  the helper's table.

Bounds: the violation run uses two Files and a Cmd. Two wrappers of one
kind and two helpers are what a reissued handle needs, and three handles
per helper leave room for a Cmd besides the two Files. The passing run
uses three handles per helper, which is room for the Cmd, the Snapshot and
its source. No fairness: these runs check safety only.

### NativeFFI (`NativeFFI.tla`, `MCNativeFFI.tla`)

The direct backend (`src/bindings/python/cc/client.py`) wraps libcc
handles in `OCIClient`, `InstanceSource` and `CancelToken`. Python objects
are shared between threads, and a ctypes call releases the GIL while libcc
runs.

| Variable | Code |
|---|---|
| `st`, `hd` | each wrapper's existence, `_closed` (`_freed` for the token) and `_handle` |
| `tbl` | libcc's handle table: unused, live, freed (spec-modelled; handles are never reused, spec §3) |
| `pc` | each thread: idle, inside `close()` after its check or after the free, or inside a foreign `pull`/`load_tar`/`load_dir` |
| `last` | the last foreign call, and the handles it was passed that libcc had already freed (a history variable) |

`close()` (and `__exit__`, `__del__`) is three steps: `CloseBegin` is the
`not self._closed and self._handle` check, `CloseFree` is the foreign
free, and `CloseEnd` is the flag update after the free returns.
`ClientHandleOK` and `SourceHandleOK` are the `handle` properties that
raise once the wrapper is closed. `TokenHandle` is `CancelToken.handle`,
which does not check. `CacheDir`, `GetConfig` and `ExportDir` go through
the checked properties. `Cancel` (`cancel`, `is_cancelled`) uses
`self._handle` directly. `LoadBegin`/`LoadEnd` bracket the foreign call
of `pull` (optionally with a token), `load_tar` and `load_dir`, which
yields a new `InstanceSource` or raises through `check_error`. A method's
check and its call are one step here. A free landing between them has the
same outcome as one landing between `CloseFree` and `CloseEnd`, and that
window is modelled.

* `native_cancel_uaf` (`MCNativeFFI.cfg`, violation,
  `TokenNeverPassedFreed`): two threads share one client, one token and
  one source. In TLC's trace the token is created, `close()` runs its
  foreign free, and then `cancel()` passes the freed handle. `cancel()`
  never looks at `_freed`, so the same happens after `close()` has
  finished. The class docstring has `token.cancel()` run "in another
  thread", so a canceller firing after the owner's `with CancelToken()`
  ended does exactly this. `pull(cancel_token=...)` with a closed token
  also passes the freed handle, since `handle` does not check `_freed`.
  `crumblecracker/client.py`'s `CancelToken` has the same code in its FFI
  branch.

The model also has the OCIClient close race, though no run checks it.
`_closed` is set only after the free returns, so another thread that
passes the `handle` check in that window uses the freed handle or frees
it again. When the same statement is made over every handle
(`last.stale = {}`), TLC's shortest trace is exactly this: `NewClient`,
`CloseBegin` and `CloseFree` in one thread, then `cache_dir` in the
other. Using one OCIClient from two threads while closing it is not
documented, unlike the canceller, so the run is spent on the token.

No fairness: only safety is checked.

### WireCodec (`WireCodec.tla`, `MCWireCodec.tla`)

The codec of `_ipc_protocol.py` and `error_from_code` of `errors.py`.

| Code | Model |
|---|---|
| `Encoder.uint8` .. `int64`, `struct.pack` | `BigEndian`, `FitsUnsigned`, `FitsSigned` (struct.error outside the format's range, two's complement for `!i`/`!q`) |
| `Encoder.string`, `write_bytes`, `string_slice` | `EncodeString` (length of the UTF-8 bytes, then the bytes), `EncodeField` |
| `get_bytes`, the exception from any pack | `Encode`, `Encodable`/`Packable` |
| `mount_config`, `instance_options`, `snapshot_options`, `dockerfile_options` | the field lists they write; `TimeoutNanos` is `int(t * 1e9)`, truncating toward zero |
| `encode_header` / `decode_header` | `Header`: `!H` then `!I` |
| `Decoder(_buf, _pos)` | variables `buf`, `pos`; `out` is what its methods returned, `status` the exception that ended decoding |
| `Decoder._check`, `uint8` .. `uint64`, `int32`, `int64`, `decode_bool` | `ReadUnsigned`, `ReadSigned`, `ReadBool`; actions `DecodeUnsigned`, `DecodeSigned`, `DecodeBool` |
| `read_bytes`, `string`, `string_slice` | `ReadBytes`, `ReadString` (with `Utf8Decode`, which raises on invalid bytes), `ReadStrings`; actions `DecodeBytes`, `DecodeString`, `DecodeStringSlice` |
| `file_info`, `dir_entry` | the field lists they read, in the dict literals' order |
| `Decoder.error`, `error_from_code`, `_ERROR_MAP`, `_check_error` | `ReadError` (code 0 stops, `string() or None`), `ErrorFromCode`; action `DecodeError` |

A message is a sequence of typed fields. `Init` picks a message. If the
Encoder refuses it, decoding never starts (`struct.error`). Otherwise the
Decoder is built on the encoding, or on any strict prefix of it, which is
a response cut short. Each step is the Decoder method that the backend
calls next for that field. The helper's own error encoding (`Err`,
`EncodeError`) is not in this repository; it is modelled from spec §4
(code, then message/op/path strings, absent as empty).

Run `codec` (`MCWireCodec.cfg`, pass, about 2,100 states) checks:

* `RoundTrip`: every value a Decoder call returns is the value that was
  encoded. For error structures, that is the class `error_from_code` picks,
  with an empty op or path as None. On a whole encoding no call raises, and
  the last call ends exactly at the end of the buffer. Because a value
  `struct.pack` rejects never reaches the Decoder, this also shows that no
  value is silently wrapped at a width boundary.
* `TruncationDetected`: `_pos` never passes the end of the buffer, and a
  buffer cut before the end of the encoding never decodes as a whole
  message.
* `TypeOK`: each returned value has the type of its method (a uint is
  never negative).

Mutants, each a plausible slip in this code:

* `Encoder.string` prefixing `len(s)` instead of `len(data)` breaks
  `RoundTrip` on the two-byte character.
* `read_bytes` without `_check(length)` (a Python slice just stops at the
  end) breaks `TruncationDetected`.
* An unsigned read with the signed format breaks `TypeOK`.

Bounds. A byte has radix 12 (`MCByteBase`). The arithmetic is the same
for any radix. At 12, the largest 8-byte value (12^8 - 1) still fits
TLC's 32-bit integers, and a uint8 holds every error code 1-9 as well as
the unknown codes above them. So every width is checked at 0, at its
extremes, and one step past each end.

Strings are drawn from one ASCII character and one two-byte character
(lead byte 11, continuation byte 8). This makes the byte length differ
from the character length, and makes a cut inside a character a
UnicodeDecodeError.

The compound messages cover each compound encoder:

* no mounts and one mount;
* a timeout of 0, 1.5 s, -0.5 s, and one too large for uint64;
* `file_info` with a negative size;
* an error structure followed by a result field, codes 0, 1, 9 and 10.

Each message is checked on every prefix of its encoding. Decoding always
ends, so deadlock checking is off.

## 4. Not modelled

* Of the direct FFI backend: `_find_library` and `_get_lib`'s lazy
  loading. `NativeFFI` assumes `init()` ran first, as its docstring
  requires. Without it, two threads can race `_get_lib`, which publishes
  `_lib` before `_setup_functions` has declared the signatures. Also not
  modelled: the ctypes declarations, the structure conversions, and the
  FFI branches of `Instance`, `File`, `Cmd` and friends. Those branches
  are the same guard, foreign call and flag pattern that `NativeFFI`
  checks for three wrappers.
* The helper's own behaviour beyond answering in order or dying, binding
  and listening, and keeping a handle table; what it does with a second
  `instance_new` is not known from the source.
* The wrappers returned by `Snapshot.parent` and `Listener.accept`: their
  handles are allocated on the helper but not followed.
* `OCIClient` and `CancelToken` in IPC mode: they hold no handle and make
  no call. `OCIClient._closed` is never read on the IPC paths, and a
  cancel only sets a local flag that no call sends.
* Windows-only paths (`_remove_socket`'s retries, the hidden console).
* Byte values inside payloads in `IPCClient`: a payload byte is
  identified by the reply it belongs to and its offset, which is what the
  routing properties need; what the bytes say is `WireCodec`'s subject.
* Float rounding in `int(timeout_seconds * 1e9)`: the model multiplies
  exactly and truncates toward zero; the product's last-nanosecond error
  is not modelled.
* `CCError.__str__`: text formatting only.
* `gen_consts_from_sdk.py` and the tests.

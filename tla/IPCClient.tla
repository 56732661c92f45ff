------------------------------ MODULE IPCClient ------------------------------
(***************************************************************************)
(* The transport client of the cc-helper RPC layer: IPCClient in           *)
(* src/bindings/python/crumblecracker/_ipc_client.py.                      *)
(*                                                                         *)
(* Several threads share one IPCClient.  Each call() takes the client      *)
(* lock, writes one request frame, reads a 6-byte response header and then *)
(* the declared payload with _recv_exact, whose recv() may return any      *)
(* non-empty prefix of what is asked for.  The helper process at the other *)
(* end of the Unix socket answers requests in order (it is not under src/  *)
(* and is modelled from the spec: §4.2, §5, §6).  close() is not guarded   *)
(* by the lock, so any idle thread may run it while another is in a call.  *)
(*                                                                         *)
(* The response stream is modelled byte by byte: each byte records the     *)
(* request it answers (f), the frame's type and length, and its offset i   *)
(* in the frame (0..5 the header, 6.. the payload).  A header read from    *)
(* bytes that are not the six header bytes of one frame decodes to an      *)
(* arbitrary (type, length).                                               *)
(***************************************************************************)
EXTENDS Naturals, Sequences, FiniteSets

CONSTANTS
    Threads,         \* threads sharing the client
    MaxCalls,        \* calls each thread makes (bound)
    PayLens,         \* payload lengths the helper may answer with (bound)
    HelperMayCrash,  \* the helper process may die at any point
    AsyncInterrupt,  \* an asynchronous exception (KeyboardInterrupt, a
                     \* signal handler raising) may abort a blocked recv()
    CloseDuringCall, \* close() may run while another thread is in call()
    MaxInterrupts,   \* asynchronous exceptions in one behaviour (bound)
    NoThread

ASSUME /\ NoThread \notin Threads
       /\ MaxCalls \in Nat \ {0}
       /\ PayLens \subseteq Nat /\ 0 \in PayLens
       /\ HelperMayCrash \in BOOLEAN /\ AsyncInterrupt \in BOOLEAN
       /\ CloseDuringCall \in BOOLEAN /\ MaxInterrupts \in Nat

\* _ipc_protocol.py: HEADER_SIZE, MSG_RESPONSE, MSG_ERROR
HEADER_SIZE == 6
MSG_RESPONSE == "MSG_RESPONSE"
MSG_ERROR == "MSG_ERROR"
\* Any other 16-bit message type a garbled header can decode to.
MSG_OTHER == "MSG_OTHER"
MsgTypes == {MSG_RESPONSE, MSG_ERROR, MSG_OTHER}

ReqIds == Threads \X (1..MaxCalls)
Byte == [f : ReqIds, type : MsgTypes, len : PayLens, i : Nat]

\* How a call ended: returned a payload, raised the helper's error, raised
\* CCError("Client closed", code=4), raised CCError("Connection closed by
\* helper", code=7), let an OSError from the socket escape, or was aborted
\* by an asynchronous exception.
Outcomes == {"none", "ok", "remote_error", "closed", "conn_lost",
             "oserror", "interrupted"}

VARIABLES
    closed,      \* IPCClient._closed
    sockOpen,    \* the client's end of the socket is open
    peerOpen,    \* the helper is alive with its end of the socket open
    lock,        \* IPCClient._lock: the holder or NoThread
    pc,          \* where each thread is in call()
    ncalls,      \* calls each thread has begun
    got,         \* bytes _recv_exact has gathered so far (local `data`)
    hdr,         \* the decoded response header (resp_type, resp_len)
    result,      \* how each thread's last call ended, and its payload
    toHelper,    \* request frames written and not yet read by the helper
    fromHelper,  \* response bytes written by the helper, not yet read
    reply,       \* the helper's reply to each thread's latest request
    abandoned    \* history: requests whose call was aborted by Interrupt

vars == <<closed, sockOpen, peerOpen, lock, pc, ncalls, got, hdr, result,
          toHelper, fromHelper, reply, abandoned>>

PCs == {"idle", "send", "recv_hdr", "recv_pay"}
Reply == [f : ReqIds, type : MsgTypes, len : PayLens]
NoReply == [f |-> <<NoThread, 0>>, type |-> MSG_OTHER, len |-> 0]

\* The number of bytes the current _recv_exact(n) asks for in all.
Want(t) == IF pc[t] = "recv_hdr" THEN HEADER_SIZE ELSE hdr[t].len

\* Types, and _recv_exact's buffer never holding more than it asked for.
TypeOK ==
    /\ closed \in BOOLEAN /\ sockOpen \in BOOLEAN /\ peerOpen \in BOOLEAN
    /\ lock \in Threads \cup {NoThread}
    /\ pc \in [Threads -> PCs]
    /\ ncalls \in [Threads -> 0..MaxCalls]
    /\ got \in [Threads -> Seq(Byte)]
    /\ \A t \in Threads : Len(got[t]) <= Want(t)
    /\ hdr \in [Threads -> [type : MsgTypes, len : PayLens]]
    /\ result \in [Threads -> [kind : Outcomes, bytes : Seq(Byte)]]
    /\ toHelper \in Seq(ReqIds)
    /\ fromHelper \in Seq(Byte)
    /\ reply \in [Threads -> Reply \cup {NoReply}]
    /\ abandoned \subseteq ReqIds

-----------------------------------------------------------------------------
(* The helper's side: it serialises a reply as one frame on the stream.    *)

FrameBytes(r) ==
    [k \in 1..(HEADER_SIZE + r.len) |->
        [f |-> r.f, type |-> r.type, len |-> r.len, i |-> k - 1]]

PayloadOf(r) == SubSeq(FrameBytes(r), HEADER_SIZE + 1, HEADER_SIZE + r.len)

\* decode_header: six bytes that are the header of one frame give that
\* frame's type and length; any other six bytes give some type and length.
DecodeHeader(bs) ==
    IF \A k \in 1..HEADER_SIZE : /\ bs[k].f = bs[1].f
                                 /\ bs[k].i = k - 1
    THEN {[type |-> bs[1].type, len |-> bs[1].len]}
    ELSE [type : MsgTypes, len : PayLens]

Init ==
    /\ closed = FALSE /\ sockOpen = TRUE /\ peerOpen = TRUE
    /\ lock = NoThread
    /\ pc = [t \in Threads |-> "idle"]
    /\ ncalls = [t \in Threads |-> 0]
    /\ got = [t \in Threads |-> <<>>]
    /\ hdr = [t \in Threads |-> [type |-> MSG_OTHER, len |-> 0]]
    /\ result = [t \in Threads |-> [kind |-> "none", bytes |-> <<>>]]
    /\ toHelper = <<>> /\ fromHelper = <<>>
    /\ reply = [t \in Threads |-> NoReply]
    /\ abandoned = {}

-----------------------------------------------------------------------------
(* call(): every exit leaves the `with self._lock` block, which releases   *)
(* the lock, and discards the bytes _recv_exact had gathered.              *)

Leave(t, kind, bytes) ==
    /\ pc' = [pc EXCEPT ![t] = "idle"]
    /\ lock' = NoThread
    /\ got' = [got EXCEPT ![t] = <<>>]
    /\ result' = [result EXCEPT ![t] = [kind |-> kind, bytes |-> bytes]]

\* `with self._lock:` on a closed client: raise CCError("Client closed").
CallRejectClosed(t) ==
    /\ pc[t] = "idle" /\ ncalls[t] < MaxCalls /\ lock = NoThread
    /\ closed
    /\ ncalls' = [ncalls EXCEPT ![t] = @ + 1]
    /\ result' = [result EXCEPT ![t] = [kind |-> "closed", bytes |-> <<>>]]
    /\ UNCHANGED <<closed, sockOpen, peerOpen, lock, pc, got, hdr, toHelper,
                   fromHelper, reply, abandoned>>

\* Mutant: a call that does not wait for the lock.
CallAcquire_nolock(t) ==
    /\ pc[t] = "idle" /\ ncalls[t] < MaxCalls
    /\ ~closed
    /\ ncalls' = [ncalls EXCEPT ![t] = @ + 1]
    /\ lock' = t
    /\ pc' = [pc EXCEPT ![t] = "send"]
    /\ result' = [result EXCEPT ![t] = [kind |-> "none", bytes |-> <<>>]]
    /\ UNCHANGED <<closed, sockOpen, peerOpen, got, hdr, toHelper,
                   fromHelper, reply, abandoned>>

\* `with self._lock:` on an open client.
CallAcquire(t) ==
    /\ pc[t] = "idle" /\ ncalls[t] < MaxCalls /\ lock = NoThread
    /\ ~closed
    /\ ncalls' = [ncalls EXCEPT ![t] = @ + 1]
    /\ lock' = t
    /\ pc' = [pc EXCEPT ![t] = "send"]
    /\ result' = [result EXCEPT ![t] = [kind |-> "none", bytes |-> <<>>]]
    /\ UNCHANGED <<closed, sockOpen, peerOpen, got, hdr, toHelper,
                   fromHelper, reply, abandoned>>

\* sendall(header); sendall(payload).  To a live helper the frame arrives
\* whole.  To a dead helper the write either vanishes or fails with
\* EPIPE/ECONNRESET; on a socket close() has closed it fails with EBADF.
\* A failing sendall raises OSError out of call().
CallSend(t) ==
    /\ pc[t] = "send"
    /\ \/ /\ sockOpen /\ peerOpen
          /\ toHelper' = Append(toHelper, <<t, ncalls[t]>>)
          /\ pc' = [pc EXCEPT ![t] = "recv_hdr"]
          /\ UNCHANGED <<lock, got, result>>
       \/ /\ sockOpen /\ ~peerOpen
          /\ pc' = [pc EXCEPT ![t] = "recv_hdr"]
          /\ UNCHANGED <<lock, got, result, toHelper>>
       \/ /\ ~(sockOpen /\ peerOpen)
          /\ Leave(t, "oserror", <<>>)
          /\ UNCHANGED toHelper
    /\ UNCHANGED <<closed, sockOpen, peerOpen, ncalls, hdr, fromHelper, reply,
                   abandoned>>

\* Mutant: recv(n) asks for the whole count again on every pass.
RecvChunk_fulln(t) ==
    /\ pc[t] \in {"recv_hdr", "recv_pay"}
    /\ sockOpen /\ fromHelper # <<>>
    /\ Len(got[t]) < Want(t)
    /\ \E k \in 1..Len(fromHelper) :
          /\ k <= Want(t)
          /\ got' = [got EXCEPT ![t] = @ \o SubSeq(fromHelper, 1, k)]
          /\ fromHelper' = SubSeq(fromHelper, k + 1, Len(fromHelper))
    /\ UNCHANGED <<closed, sockOpen, peerOpen, lock, pc, ncalls, hdr, result,
                   toHelper, reply, abandoned>>

\* One recv(n - len(data)) inside _recv_exact: it returns between one byte
\* and what is asked for of the bytes already in the stream.
RecvChunk(t) ==
    /\ pc[t] \in {"recv_hdr", "recv_pay"}
    /\ sockOpen /\ fromHelper # <<>>
    /\ Len(got[t]) < Want(t)
    /\ \E k \in 1..Len(fromHelper) :
          /\ k <= Want(t) - Len(got[t])
          /\ got' = [got EXCEPT ![t] = @ \o SubSeq(fromHelper, 1, k)]
          /\ fromHelper' = SubSeq(fromHelper, k + 1, Len(fromHelper))
    /\ UNCHANGED <<closed, sockOpen, peerOpen, lock, pc, ncalls, hdr, result,
                   toHelper, reply, abandoned>>

\* Mutant: an empty recv() is not taken for the end of the stream.
RecvFail_noeof(t) ==
    /\ pc[t] \in {"recv_hdr", "recv_pay"}
    /\ Len(got[t]) < Want(t)
    /\ ~sockOpen
    /\ \E kind \in {"conn_lost", "oserror"} : Leave(t, kind, <<>>)
    /\ UNCHANGED <<closed, sockOpen, peerOpen, ncalls, hdr, toHelper,
                   fromHelper, reply, abandoned>>

\* recv() on a stream the helper has closed returns b"" and _recv_exact
\* raises CCError("Connection closed by helper", code=7); if the helper
\* died with unread data, or close() closed our end, recv() raises OSError.
RecvFail(t) ==
    /\ pc[t] \in {"recv_hdr", "recv_pay"}
    /\ Len(got[t]) < Want(t)
    /\ \/ ~sockOpen
       \/ ~peerOpen /\ fromHelper = <<>>
    /\ \E kind \in {"conn_lost", "oserror"} : Leave(t, kind, <<>>)
    /\ UNCHANGED <<closed, sockOpen, peerOpen, ncalls, hdr, toHelper,
                   fromHelper, reply, abandoned>>

\* decode_header(resp_header); `if resp_len > 0` read the payload, else
\* return b"" (or raise the error for MSG_ERROR) at once.
HeaderDone(t) ==
    /\ pc[t] = "recv_hdr" /\ Len(got[t]) = HEADER_SIZE
    /\ \E h \in DecodeHeader(got[t]) :
          /\ hdr' = [hdr EXCEPT ![t] = h]
          /\ IF h.len > 0
             THEN /\ pc' = [pc EXCEPT ![t] = "recv_pay"]
                  /\ got' = [got EXCEPT ![t] = <<>>]
                  /\ UNCHANGED <<lock, result>>
             ELSE Leave(t, IF h.type = MSG_ERROR THEN "remote_error" ELSE "ok",
                        <<>>)
    /\ UNCHANGED <<closed, sockOpen, peerOpen, ncalls, toHelper, fromHelper,
                   reply, abandoned>>

\* The payload is complete: MSG_ERROR is raised as the decoded error,
\* anything else is returned.
PayloadDone(t) ==
    /\ pc[t] = "recv_pay" /\ Len(got[t]) = hdr[t].len
    /\ Leave(t, IF hdr[t].type = MSG_ERROR THEN "remote_error" ELSE "ok",
             got[t])
    /\ UNCHANGED <<closed, sockOpen, peerOpen, ncalls, hdr, toHelper,
                   fromHelper, reply, abandoned>>

\* An asynchronous exception raised while the thread is blocked in recv():
\* the `with` block releases the lock; nothing resynchronises the stream.
Interrupt(t) ==
    /\ AsyncInterrupt /\ Cardinality(abandoned) < MaxInterrupts
    /\ pc[t] \in {"recv_hdr", "recv_pay"}
    /\ Leave(t, "interrupted", <<>>)
    /\ abandoned' = abandoned \cup {<<t, ncalls[t]>>}
    /\ UNCHANGED <<closed, sockOpen, peerOpen, ncalls, hdr, toHelper,
                   fromHelper, reply>>

\* close() from a thread outside call(): it does not take the lock.  It
\* sets _closed, closes the socket and waits for (or kills) the helper.
\* The spec (§5) asks callers to close only after every call returned;
\* CloseDuringCall says whether the model holds them to that.
Close(t) ==
    /\ pc[t] = "idle"
    /\ CloseDuringCall \/ \A u \in Threads : pc[u] = "idle"
    /\ ~closed
    /\ closed' = TRUE /\ sockOpen' = FALSE /\ peerOpen' = FALSE
    /\ toHelper' = <<>>
    /\ UNCHANGED <<lock, pc, ncalls, got, hdr, result, fromHelper, reply,
                   abandoned>>

-----------------------------------------------------------------------------
(* The helper process (spec-modelled).                                     *)

\* It reads the next request and writes its reply frame: MSG_RESPONSE, or
\* MSG_ERROR whose payload holds at least the error code byte.
HelperServe ==
    /\ peerOpen /\ toHelper # <<>>
    /\ \E type \in {MSG_RESPONSE, MSG_ERROR}, len \in PayLens :
          /\ type = MSG_ERROR => len > 0
          /\ LET r == [f |-> Head(toHelper), type |-> type, len |-> len]
             IN /\ fromHelper' = fromHelper \o FrameBytes(r)
                /\ reply' = [reply EXCEPT ![Head(toHelper)[1]] = r]
    /\ toHelper' = Tail(toHelper)
    /\ UNCHANGED <<closed, sockOpen, peerOpen, lock, pc, ncalls, got, hdr,
                   result, abandoned>>

\* It dies; requests it had not read are lost, replies it wrote stay
\* readable until the stream ends.
HelperCrash ==
    /\ HelperMayCrash /\ peerOpen
    /\ peerOpen' = FALSE /\ toHelper' = <<>>
    /\ UNCHANGED <<closed, sockOpen, lock, pc, ncalls, got, hdr, result,
                   fromHelper, reply, abandoned>>

\* Every thread has made all its calls.
Finished ==
    /\ \A t \in Threads : pc[t] = "idle" /\ ncalls[t] = MaxCalls
    /\ UNCHANGED vars

ThreadStep(t) ==
    \/ CallRejectClosed(t) \/ CallAcquire(t) \/ CallSend(t)
    \/ RecvChunk(t) \/ RecvFail(t) \/ HeaderDone(t) \/ PayloadDone(t)
    \/ Interrupt(t) \/ Close(t)

Next ==
    \/ \E t \in Threads : ThreadStep(t)
    \/ HelperServe \/ HelperCrash
    \/ Finished

\* A thread holding the lock keeps running: its steps in call() are weakly
\* fair, and so is the helper's serving of requests.  Crashes, interrupts,
\* close() and starting a new call are not assumed to happen.
Fairness ==
    /\ \A t \in Threads :
          /\ WF_vars(CallSend(t))
          /\ WF_vars(RecvChunk(t)) /\ WF_vars(RecvFail(t))
          /\ WF_vars(HeaderDone(t)) /\ WF_vars(PayloadDone(t))
    /\ WF_vars(HelperServe)

Spec == Init /\ [][Next]_vars /\ Fairness

-----------------------------------------------------------------------------
(* Properties                                                              *)

\* The frame a thread is answered with must be the reply to its own latest
\* request, read in full: call() returns (or raises from MSG_ERROR) exactly
\* the payload the helper wrote for this thread's request.  The protocol
\* has no request id, so this rests on the lock in call() and on the
\* stream being aligned at a frame boundary whenever the lock is free.
CallReturnsOwnResponse ==
    \A t \in Threads :
        result[t].kind \in {"ok", "remote_error"} =>
            /\ reply[t].f = <<t, ncalls[t]>>
            /\ result[t].kind = IF reply[t].type = MSG_ERROR
                                THEN "remote_error" ELSE "ok"
            /\ result[t].bytes = PayloadOf(reply[t])

\* Of everything that can go wrong on the connection (short reads, the
\* helper dying, close() under a running call, an exception aborting a
\* call), only an aborted call can make a later call return a reply that
\* is not its own: as long as no call has been abandoned, every call that
\* returns gets exactly the payload of its own reply.
OnlyInterruptsMisroute ==
    abandoned = {} => CallReturnsOwnResponse

\* Every call that has taken the lock eventually returns or raises: a
\* short read is retried, and a stream that ends before the frame does is
\* reported rather than waited on.
CallCompletes ==
    \A t \in Threads : pc[t] # "idle" ~> pc[t] = "idle"

\* The abstract view of the connection: the lock holder owns it, the
\* helper's answer to a thread is its reply, and calls, closing and
\* results are the client's own.
SR == INSTANCE SerialRPC
        WITH busy <- lock, answer <- reply,
             Replies <- Reply, NoAnswer <- NoReply,
             ReplyTo <- LAMBDA r : r.f, Payload <- PayloadOf,
             IsError <- LAMBDA r : r.type = MSG_ERROR

\* call() under its lock implements a serial RPC (SerialRPC): one call
\* owns the connection from taking the lock to leaving it, the helper
\* answers that call's request, the call returns exactly that answer or
\* fails, and every call that took the lock ends.  Short reads, helper
\* crashes and close() under a running call are all allowed.
ImplementsSerialRPC == SR!Spec

=============================================================================

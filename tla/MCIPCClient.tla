---------------------------- MODULE MCIPCClient ----------------------------
(* Model-checking instance of IPCClient: two threads sharing one client.  *)
EXTENDS IPCClient

CONSTANTS t1, t2

MCThreads == {t1, t2}
MCPayLens == {0, 1, 2}
\* Payloads that are empty or split across reads, for the runs with
\* asynchronous exceptions.
MCPayLensSplit == {0, 2}
=============================================================================

--------------------------- MODULE MCEnsureClient ---------------------------
(* EnsureClient for TLC: two threads, three clients spawn_helper can make. *)
EXTENDS EnsureClient

CONSTANTS t1, t2, c1, c2, c3

MCThreads == {t1, t2}
MCClients == {c1, c2, c3}
=============================================================================

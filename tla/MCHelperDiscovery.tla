-------------------------- MODULE MCHelperDiscovery --------------------------
(* Two threads spawning at once.                                           *)
EXTENDS HelperDiscovery

CONSTANTS t1, t2

MCThreads == {t1, t2}
=============================================================================

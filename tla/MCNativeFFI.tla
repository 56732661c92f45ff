----------------------------- MODULE MCNativeFFI -----------------------------
EXTENDS NativeFFI

CONSTANTS t1, t2, s1

\* An owner thread and a second thread (a canceller, or another user of
\* the same wrappers), and one source to load.
MCThreads == {t1, t2}
MCSources == {s1}
=============================================================================

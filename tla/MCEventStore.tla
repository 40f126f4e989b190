---------------------------- MODULE MCEventStore ----------------------------
(* A small instance of EventStore and its refinement of ContextLog.        *)
EXTENDS EventStore

CONSTANTS k1, k2

\* A key repeated before another, and that other alone.
MCBatches == {<<k1, k1, k2>>, <<k2>>}
=============================================================================

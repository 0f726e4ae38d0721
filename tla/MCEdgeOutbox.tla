---------------------------- MODULE MCEdgeOutbox ----------------------------
(* A small instance of EdgeOutbox: row 1 is refused by SyncEvent.          *)
EXTENDS EdgeOutbox

MCBucketOf == [r \in Row |-> "m1"]

MCValueOf == [r \in Row |-> r]

=============================================================================

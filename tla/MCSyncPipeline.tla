--------------------------- MODULE MCSyncPipeline ---------------------------
(* A small instance of SyncPipeline: all rows fall into one minute.        *)
EXTENDS SyncPipeline

MCBucketOf == [r \in Row |-> "m1"]

MCValueOf == [r \in Row |-> r]

=============================================================================

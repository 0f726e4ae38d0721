-------------------------- MODULE TelemetryLedger --------------------------
(***************************************************************************)
(* What the synchronisation promises, without batches, markers, retries or *)
(* retention: every row is delivered at most once, each delivery is        *)
(* counted in the row's minute until the count is retired, and a row is    *)
(* acknowledged to the Edge only after it was delivered.  A restored       *)
(* backup may forget acknowledgements; it never undoes a delivery.         *)
(***************************************************************************)
EXTENDS Integers, FiniteSets

CONSTANTS
  Row, Bucket, BucketOf,
  CountedRow   \* the rows that carry a value

VARIABLES
  recorded,      \* rows the Edge has recorded
  delivered,     \* rows the Control Room has taken over
  acknowledged,  \* rows the Edge believes delivered
  tally,         \* rows counted per minute
  retired        \* minutes whose count is not kept any more

ledgerVars == <<recorded, delivered, acknowledged, tally, retired>>

LedgerInit ==
  /\ recorded = {} /\ delivered = {} /\ acknowledged = {} /\ retired = {}
  /\ tally = [b \in Bucket |-> 0]

Record(r) ==
  /\ r \in Row \ recorded
  /\ recorded' = recorded \cup {r}
  /\ UNCHANGED <<delivered, acknowledged, tally, retired>>

\* A set of rows that were never delivered before.
DeliverRows(rows) ==
  /\ rows # {} /\ rows \subseteq recorded \ delivered
  /\ delivered' = delivered \cup rows
  /\ tally' = [b \in Bucket |->
       IF b \in retired THEN tally[b]
       ELSE tally[b] + Cardinality({r \in rows \cap CountedRow : BucketOf[r] = b})]
  /\ UNCHANGED <<recorded, acknowledged, retired>>

Acknowledge(rows) ==
  /\ rows # {} /\ rows \subseteq delivered \ acknowledged
  /\ acknowledged' = acknowledged \cup rows
  /\ UNCHANGED <<recorded, delivered, tally, retired>>

Forget ==
  /\ acknowledged' \subseteq delivered
  /\ UNCHANGED <<recorded, delivered, tally, retired>>

\* Counts of old minutes are dropped, for good.
Retire(minutes) ==
  /\ minutes # {} /\ minutes \subseteq Bucket \ retired
  /\ retired' = retired \cup minutes
  /\ tally' = [b \in Bucket |-> IF b \in minutes THEN 0 ELSE tally[b]]
  /\ UNCHANGED <<recorded, delivered, acknowledged>>

LedgerNext ==
  \/ \E r \in Row : Record(r)
  \/ \E rows \in SUBSET Row : DeliverRows(rows) \/ Acknowledge(rows)
  \/ Forget
  \/ \E minutes \in SUBSET Bucket : Retire(minutes)

LedgerSpec == LedgerInit /\ [][LedgerNext]_ledgerVars

=============================================================================

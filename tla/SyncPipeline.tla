---------------------------- MODULE SyncPipeline ----------------------------
(***************************************************************************)
(* One Edge and its Control Room: EdgeOutbox and ControlRoomIngest joined  *)
(* by HTTP requests.  A request whose caller gave up (timeout, crash,      *)
(* restore) may still be on its way and be processed later: a "stray".     *)
(* Strays are processed in any order, also after later requests; none      *)
(* survives the day it was sent.                                           *)
(***************************************************************************)
EXTENDS EdgeOutbox, ControlRoomIngest

ASSUME SameDevices == RemoteDeviceId = Device

VARIABLE strays   \* requests nobody waits for any more

syncVars == <<telemetryVars, outboxVars, ingestVars, strays>>

Request == [rows : SUBSET Row, report : Report]

RequestOf(c) == [rows |-> call[c].rows, report |-> call[c].report]

Posting == {c \in Caller : call[c].phase = "posting"}

Init ==
  /\ TelemetryInit /\ OutboxInit /\ IngestInit
  /\ strays = {}

\* The types of all variables.
TypeOK ==
  /\ TelemetryTypeOK /\ OutboxTypeOK /\ IngestTypeOK
  /\ strays \subseteq Request

-----------------------------------------------------------------------------
SampleStep(r) == QueueRow(r) /\ UNCHANGED <<ingestVars, strays>>

\* Steps that stay within the Edge.
EdgeStep ==
  /\ \/ \E d \in Device : ChangeDevice(d)
     \/ \E c \in Caller : \/ Collect(c)
                          \/ CollectRaises(c)
                          \/ RecordSent(c)
                          \/ RecordFailed(c)
                          \/ RecordRaises(c)
     \/ \E r \in Row : RetryDue(r)
     \/ PurgeSent
     \/ TakeBackup
  /\ UNCHANGED <<telemetryVars, ingestVars, strays>>

\* The Control Room processes the request of a run that waits for it.
Serve(c) ==
  /\ CallAnswered(c)
  /\ IngestBatch(call[c].rows, call[c].report)
  /\ UNCHANGED <<telemetryVars, strays>>

\* The run gives up; its request is dead, or still on its way.
GiveUp(c) ==
  /\ CallFailed(c)
  /\ \/ strays' = strays
     \/ c \in Posting /\ strays' = strays \cup {RequestOf(c)}
  /\ UNCHANGED <<telemetryVars, ingestVars>>

ServeStray(q) ==
  /\ IngestBatch(q.rows, q.report)
  /\ strays' = strays \ {q}
  /\ UNCHANGED <<telemetryVars, outboxVars>>

\* The Edge process ends, and with it every run; their requests may survive.
Abandon == \E lost \in SUBSET Posting : strays' = strays \cup {RequestOf(c) : c \in Posting \ lost}

CrashStep == Crash /\ Abandon /\ UNCHANGED <<telemetryVars, ingestVars>>

(***************************************************************************)
(* A backup is restored while the rows it would deliver again were         *)
(* accepted at most MaxRetryLag days ago.                                  *)
(***************************************************************************)
RestoreStep(b) ==
  /\ \A r \in Row : b.outbox[r] = "pending" => Retriable(r)
  /\ Restore(b)
  /\ Abandon
  /\ UNCHANGED <<telemetryVars, ingestVars>>

\* Steps that stay within the Control Room.
ControlRoomStep ==
  /\ GoSilent \/ RunRetention
  /\ UNCHANGED <<telemetryVars, outboxVars, strays>>

(***************************************************************************)
(* A day ends.  A row whose acceptance the Edge does not know of is        *)
(* delivered again within MaxRetryLag days.                                *)
(***************************************************************************)
DayEnds ==
  /\ OutboxNextDay
  /\ \A r \in Pending : accepted[r] > 0 => day < acceptedAt[r] + MaxRetryLag
  /\ strays' = {}
  /\ UNCHANGED ingestVars

Next ==
  \/ \E r \in Row : SampleStep(r)
  \/ EdgeStep
  \/ \E c \in Caller : Serve(c) \/ GiveUp(c)
  \/ \E q \in strays : ServeStray(q)
  \/ CrashStep
  \/ \E b \in backups : RestoreStep(b)
  \/ ControlRoomStep
  \/ DayEnds

Spec == Init /\ [][Next]_syncVars

-----------------------------------------------------------------------------
(***************************************************************************)
(* What the Edge believes delivered was delivered: a row is marked sent,   *)
(* and later purged, only after the Control Room accepted it.  With the    *)
(* rows kept until then (PendingIsKept) no telemetry is lost by the        *)
(* synchronisation itself.                                                 *)
(***************************************************************************)
SentWasAccepted == \A r \in Row : outbox[r] \in {"sent", "purged"} => accepted[r] > 0

\* The rows the Edge believes delivered.
Acknowledged == {r \in Row : outbox[r] \in {"sent", "purged"}}

\* The minutes whose rollups have passed their retention.
Outdated == {b \in Bucket : BucketBefore(b, day - RollupRetention)}

\* What the other rollups count.
Counts == [b \in Bucket |-> IF b \in Outdated THEN 0 ELSE rollup[b].sample_count]

(***************************************************************************)
(* The pipeline implements the ledger: a minute is retired when its rollup *)
(* may be deleted, whether or not run_retention has already deleted it.    *)
(***************************************************************************)
Ledger == INSTANCE TelemetryLedger WITH
  CountedRow   <- {r \in Row : HasValue(r)},
  recorded     <- Sampled,
  delivered    <- Accepted,
  acknowledged <- Acknowledged,
  tally        <- Counts,
  retired      <- Outdated

\* Edge, network and Control Room together do nothing a ledger would not do.
ImplementsLedger == Ledger!LedgerSpec

-----------------------------------------------------------------------------
(* The inductive strengthening of AtMostOnce and SentWasAccepted.          *)

\* A run that got its answer, and a backup, tell of accepted rows only.
AnswersAreTrue == \A c \in Caller : call[c].phase = "answered" => call[c].rows \subseteq Accepted

BackupsAreTrue ==
  \A b \in backups, r \in Row : b.outbox[r] \in {"sent", "purged"} => r \in Accepted

\* Whatever may still be delivered may be delivered now.
DeliverableIsRetriable ==
  /\ \A r \in Pending : Retriable(r)
  /\ \A c \in Caller : \A r \in call[c].rows : Retriable(r)
  /\ \A q \in strays : \A r \in q.rows : Retriable(r)

\* Only a run that waits carries rows.
RestingCallsAreEmpty ==
  \A c \in Caller : call[c].phase \in {"idle", "dead"} => call[c].rows = {}

\* Rows travel only after they were sampled.
OnlySampledTravel ==
  /\ Accepted \subseteq Sampled
  /\ Pending \subseteq Sampled
  /\ \A c \in Caller : call[c].rows \subseteq Sampled
  /\ \A q \in strays : q.rows \subseteq Sampled
  /\ \A b \in backups, r \in Row : b.outbox[r] = "pending" => r \in Sampled

DeliveryInv ==
  /\ AnswersAreTrue /\ BackupsAreTrue /\ SentWasAccepted
  /\ DeliverableIsRetriable /\ RestingCallsAreEmpty

(***************************************************************************)
(* The inductive invariant of the pipeline: what travels was sampled, the  *)
(* markers are sound, and everything that may still be delivered (pending  *)
(* rows, rows of running and of abandoned requests) is either new to the   *)
(* Control Room or still protected by its markers.                         *)
(***************************************************************************)
IInv == OnlySampledTravel /\ DedupInv /\ DeliveryInv

\* Every event with a marker was accepted.
MarkedWereAccepted == \A m \in ingestedEvents : m.id \in Accepted

\* The inductive strengthening of SentWasAccepted alone, which needs no bound on the
\* retries: a marker that expired leaves its row accepted.
SentInv ==
  /\ AnswersAreTrue /\ BackupsAreTrue /\ SentWasAccepted
  /\ MarkedWereAccepted /\ BatchMarkerCovers

=============================================================================

----------------------------- MODULE EdgeOutbox -----------------------------
(***************************************************************************)
(* The Edge's side of the synchronisation: the sync_outbox table, the      *)
(* coroutine sync_once with its two callers (the periodic sync_loop and    *)
(* POST /api/sync/run), outbox retention, and backup and restore of the    *)
(* SQLite database.                                                        *)
(*                                                                         *)
(* sync_once runs on the event loop and gives up control only while it     *)
(* waits for the HTTP response, so each run is three steps: what happens   *)
(* before the request, the wait, and what happens after it.  Two callers   *)
(* may be waiting at the same time, on the same rows.                      *)
(***************************************************************************)
EXTENDS Telemetry

CONSTANTS
  Caller,         \* the concurrent runs of sync_once
  Loop,           \* the one started by sync_loop
  Device,         \* devices the Edge may configure
  PoisonRow,      \* rows whose payload SyncEvent refuses
  BatchLimit,     \* rows selected for one batch (200 in the code)
  SentRetention,  \* sent_outbox_retention_days
  KeptBackups,    \* backup_retention_count
  MaxMishaps,     \* lost requests or answers, crashes and restores (bound)
  MaxRaises       \* exceptions that leave sync_once (bound)

ASSUME OutboxAssumption ==
  /\ Loop \in Caller
  /\ PoisonRow \subseteq Row
  /\ BatchLimit \in Nat \ {0}
  /\ SentRetention \in Nat
  /\ KeptBackups \in Nat \ {0}
  /\ MaxMishaps \in Nat /\ MaxRaises \in Nat

VARIABLES
  outbox,       \* where each row is
  sentAt,       \* day of SyncOutbox.sent_at, or Never
  nextAttempt,  \* when next_attempt_at lets the row be selected again
  call,         \* the state of each run of sync_once
  devices,      \* the Device table
  backups,      \* the retained database backups
  mishaps, raises  \* how much of the two bounds is used

outboxVars == <<outbox, sentAt, nextAttempt, call, devices, backups, mishaps, raises>>

(***************************************************************************)
(* "absent": not created yet; "pending": sent_at is null; "sent": sent_at  *)
(* is set; "purged": deleted by retention; "lost": created after the       *)
(* backup that was restored.                                               *)
(***************************************************************************)
RowState == {"absent", "pending", "sent", "purged", "lost"}

\* Due at once, after a backoff, or 24 hours after a rejection.
Attempt == {"now", "backoff", "tomorrow"}

DeviceState == {"absent", "configured", "removed"}

\* The EdgeStatusSnapshot of a batch: its backlog_count and its inventory.
Report == [backlog : 0..MaxRow, devices : SUBSET Device]

Phase == {"idle", "posting", "answered", "failed", "dead"}

NoReport == [backlog |-> 0, devices |-> {}]

Idle == [phase |-> "idle", rows |-> {}, report |-> NoReport]

Dead == [phase |-> "dead", rows |-> {}, report |-> NoReport]

Snapshot == [outbox : [Row -> RowState], sentAt : [Row -> -1..MaxDay],
             nextAttempt : [Row -> Attempt], devices : [Device -> DeviceState]]

Pending == {r \in Row : outbox[r] = "pending"}

\* The rows db.get(SyncOutbox, id) still finds.
Stored == {r \in Row : outbox[r] \in {"pending", "sent"}}

\* Mutant: the select forgets next_attempt_at.
DueAlways == Pending

Due == {r \in Pending : nextAttempt[r] = "now"}

\* order_by(created_at).limit(BatchLimit)
Selected == {r \in Due : Cardinality({q \in Due : q < r}) < BatchLimit}

OutboxInit ==
  /\ outbox = [r \in Row |-> "absent"]
  /\ sentAt = [r \in Row |-> Never]
  /\ nextAttempt = [r \in Row |-> "now"]
  /\ call = [c \in Caller |-> Idle]
  /\ devices = [d \in Device |-> "absent"]
  /\ backups = {}
  /\ mishaps = 0 /\ raises = 0

\* The types of the outbox, its runs and its backups.
OutboxTypeOK ==
  /\ outbox \in [Row -> RowState]
  /\ sentAt \in [Row -> -1..MaxDay]
  /\ nextAttempt \in [Row -> Attempt]
  /\ call \in [Caller -> [phase : Phase, rows : SUBSET Row, report : Report]]
  /\ devices \in [Device -> DeviceState]
  /\ backups \subseteq Snapshot
  /\ mishaps \in 0..MaxMishaps /\ raises \in 0..MaxRaises

-----------------------------------------------------------------------------
(* The rows and the inventory that sync_once reads.                        *)

\* poll_device queues an outbox row in the transaction that stores the sample.
QueueRow(r) ==
  /\ Sample(r)
  /\ outbox' = [outbox EXCEPT ![r] = "pending"]
  /\ UNCHANGED <<sentAt, nextAttempt, call, devices, backups, mishaps, raises>>

\* A device is added to, or (softly) removed from, the configuration.
ChangeDevice(d) ==
  /\ \/ devices[d] = "absent" /\ devices' = [devices EXCEPT ![d] = "configured"]
     \/ devices[d] = "configured" /\ devices' = [devices EXCEPT ![d] = "removed"]
  /\ UNCHANGED <<outbox, sentAt, nextAttempt, call, backups, mishaps, raises>>

-----------------------------------------------------------------------------
(* sync_once.                                                              *)

\* Rows SyncEvent refuses are put off for 24 hours.
PutOff(rows) == [r \in Row |-> IF r \in rows THEN "tomorrow" ELSE nextAttempt[r]]

\* Mutant: the rows of the batch are counted on top of the unsent ones.
BatchCountedTwice == [backlog |-> Cardinality(Pending) + Cardinality(Selected),
                      devices |-> {d \in Device : devices[d] = "configured"}]

\* The snapshot that accompanies the batch counts every unsent row, those of
\* the batch included, and lists the devices that are not removed.
CurrentReport == [backlog |-> Cardinality(Pending),
                  devices |-> {d \in Device : devices[d] = "configured"}]

(***************************************************************************)
(* Select the due rows, put the refused ones off and, unless nothing is    *)
(* left, post the others.                                                  *)
(***************************************************************************)
Collect(c) ==
  LET valid == Selected \ PoisonRow IN
  /\ call[c].phase = "idle"
  /\ Selected # {}
  /\ nextAttempt' = PutOff(Selected \cap PoisonRow)
  /\ call' = IF valid = {} THEN call
             ELSE [call EXCEPT ![c] = [phase |-> "posting", rows |-> valid,
                                       report |-> CurrentReport]]
  /\ UNCHANGED <<outbox, sentAt, devices, backups, mishaps, raises>>

\* An exception that leaves sync_once ends the request handler, or the loop.
Raised(c) == IF c = Loop THEN Dead ELSE Idle

(***************************************************************************)
(* Nothing before the request is guarded: a failed select or commit, or a  *)
(* snapshot that does not validate, leaves sync_once before or after the   *)
(* refused rows were put off.                                              *)
(***************************************************************************)
CollectRaises(c) ==
  /\ raises < MaxRaises
  /\ call[c].phase = "idle"
  /\ nextAttempt' \in {nextAttempt, PutOff(Selected \cap PoisonRow)}
  /\ call' = [call EXCEPT ![c] = Raised(c)]
  /\ raises' = raises + 1
  /\ UNCHANGED <<outbox, sentAt, devices, backups, mishaps>>

\* The Control Room has processed the request and its 2xx answer is on its way.
CallAnswered(c) ==
  /\ call[c].phase = "posting"
  /\ call' = [call EXCEPT ![c].phase = "answered"]
  /\ UNCHANGED <<outbox, sentAt, nextAttempt, devices, backups, mishaps, raises>>

\* Mutant: an error status is not raised and passes for an answer.
FailureUnnoticed(c) ==
  /\ mishaps < MaxMishaps
  /\ call[c].phase \in {"posting", "answered"}
  /\ call' = [call EXCEPT ![c].phase = "answered"]
  /\ mishaps' = mishaps + 1
  /\ UNCHANGED <<outbox, sentAt, nextAttempt, devices, backups, raises>>

(***************************************************************************)
(* The request fails: no connection, an error status, the 10 s timeout,    *)
(* an answer that is lost, or an answer whose effect cannot be committed.  *)
(***************************************************************************)
CallFailed(c) ==
  /\ mishaps < MaxMishaps
  /\ call[c].phase \in {"posting", "answered"}
  /\ call' = [call EXCEPT ![c].phase = "failed"]
  /\ mishaps' = mishaps + 1
  /\ UNCHANGED <<outbox, sentAt, nextAttempt, devices, backups, raises>>

\* Mutant: the outcome is recorded for the whole outbox.
WholeOutbox(c) == Stored

\* The rows of the batch that still exist when its outcome is recorded.
Found(c) == call[c].rows \cap Stored

\* A 2xx answer: the rows of the batch become sent.
RecordSent(c) ==
  /\ call[c].phase = "answered"
  /\ outbox' = [r \in Row |-> IF r \in Found(c) THEN "sent" ELSE outbox[r]]
  /\ sentAt' = [r \in Row |-> IF r \in Found(c) THEN day ELSE sentAt[r]]
  /\ call' = [call EXCEPT ![c] = Idle]
  /\ UNCHANGED <<nextAttempt, devices, backups, mishaps, raises>>

\* A failure: the rows stay unsent and wait min(300, 2^min(attempts, 8)) s.
RecordFailed(c) ==
  /\ call[c].phase = "failed"
  /\ nextAttempt' = [r \in Row |-> IF r \in Found(c) THEN "backoff" ELSE nextAttempt[r]]
  /\ call' = [call EXCEPT ![c] = Idle]
  /\ UNCHANGED <<outbox, sentAt, devices, backups, mishaps, raises>>

\* The commit of the failure is not guarded either.
RecordRaises(c) ==
  /\ raises < MaxRaises
  /\ call[c].phase = "failed"
  /\ call' = [call EXCEPT ![c] = Raised(c)]
  /\ raises' = raises + 1
  /\ UNCHANGED <<outbox, sentAt, nextAttempt, devices, backups, mishaps>>

\* The backoff of a row ends.
RetryDue(r) ==
  /\ nextAttempt[r] = "backoff"
  /\ nextAttempt' = [nextAttempt EXCEPT ![r] = "now"]
  /\ UNCHANGED <<outbox, sentAt, call, devices, backups, mishaps, raises>>

-----------------------------------------------------------------------------
(* Maintenance, backup, restart.                                           *)

\* Mutant: the delete forgets that sent_at may be null.
PurgeUnsentToo ==
  LET old == {r \in Stored : sentAt[r] < day - SentRetention} IN
  /\ old # {}
  /\ outbox' = [r \in Row |-> IF r \in old THEN "purged" ELSE outbox[r]]
  /\ sentAt' = [r \in Row |-> IF r \in old THEN Never ELSE sentAt[r]]
  /\ UNCHANGED <<nextAttempt, call, devices, backups, mishaps, raises>>

\* run_retention deletes the rows sent more than SentRetention days ago.
PurgeSent ==
  LET old == {r \in Row : outbox[r] = "sent" /\ sentAt[r] < day - SentRetention} IN
  /\ old # {}
  /\ outbox' = [r \in Row |-> IF r \in old THEN "purged" ELSE outbox[r]]
  /\ sentAt' = [r \in Row |-> IF r \in old THEN Never ELSE sentAt[r]]
  /\ UNCHANGED <<nextAttempt, call, devices, backups, mishaps, raises>>

(***************************************************************************)
(* create_backup copies the database in one piece, then prune_backups      *)
(* leaves the most recent ones.  Which ones those are is abstracted: a     *)
(* kept backup that is never restored is as good as a pruned one.          *)
(***************************************************************************)
TakeBackup ==
  /\ \E kept \in SUBSET backups :
       /\ Cardinality(kept) < KeptBackups
       /\ backups' = kept \cup {[outbox |-> outbox, sentAt |-> sentAt,
                                 nextAttempt |-> nextAttempt, devices |-> devices]}
  /\ UNCHANGED <<outbox, sentAt, nextAttempt, call, devices, mishaps, raises>>

\* The process stops, with the requests it was waiting for, and starts again.
Crash ==
  /\ mishaps < MaxMishaps
  /\ call' = [c \in Caller |-> Idle]
  /\ mishaps' = mishaps + 1
  /\ UNCHANGED <<outbox, sentAt, nextAttempt, devices, backups, raises>>

(***************************************************************************)
(* restore-edge.sh: stop the service, replace the database by a backup,    *)
(* start the service.  Rows created since the backup are gone.             *)
(***************************************************************************)
Restore(b) ==
  /\ mishaps < MaxMishaps
  /\ outbox' = [r \in Row |-> IF b.outbox[r] = "absent" /\ outbox[r] # "absent"
                              THEN "lost" ELSE b.outbox[r]]
  /\ sentAt' = b.sentAt
  /\ nextAttempt' = b.nextAttempt
  /\ devices' = b.devices
  /\ call' = [c \in Caller |-> Idle]
  /\ mishaps' = mishaps + 1
  /\ UNCHANGED <<backups, raises>>

\* No request outlives a day; backoffs and 24-hour delays end.
OutboxNextDay ==
  /\ NextDay
  /\ \A c \in Caller : call[c].phase \in {"idle", "dead"}
  /\ nextAttempt' = [r \in Row |-> "now"]
  /\ UNCHANGED <<outbox, sentAt, call, devices, backups, mishaps, raises>>

-----------------------------------------------------------------------------
(* The outbox on its own: a Control Room that may answer or fail each time. *)

OutboxReply(c) == CallAnswered(c) \/ CallFailed(c)

OutboxStep ==
  \/ \E d \in Device : ChangeDevice(d)
  \/ \E c \in Caller : \/ Collect(c)
                        \/ CollectRaises(c)
                        \/ OutboxReply(c)
                        \/ RecordSent(c)
                        \/ RecordFailed(c)
                        \/ RecordRaises(c)
  \/ \E r \in Row : RetryDue(r)
  \/ PurgeSent
  \/ TakeBackup
  \/ Crash
  \/ \E b \in backups : Restore(b)

OutboxNext ==
  \/ \E r \in Row : QueueRow(r)
  \/ OutboxNextDay
  \/ OutboxStep /\ UNCHANGED telemetryVars

allOutboxVars == <<telemetryVars, outboxVars>>

(***************************************************************************)
(* The event loop resumes sync_loop every 10 seconds and resumes every     *)
(* coroutine whose request ended; a request ends within its timeout; a     *)
(* backoff ends.  Nothing makes an operator press "synchronise", take a    *)
(* backup or restart the service.                                          *)
(***************************************************************************)
OutboxFairness ==
  /\ WF_allOutboxVars(Collect(Loop) /\ UNCHANGED telemetryVars)
  /\ \A c \in Caller :
       /\ WF_allOutboxVars(OutboxReply(c) /\ UNCHANGED telemetryVars)
       /\ WF_allOutboxVars(RecordSent(c) /\ UNCHANGED telemetryVars)
       /\ WF_allOutboxVars(RecordFailed(c) /\ UNCHANGED telemetryVars)
  /\ \A r \in Row : WF_allOutboxVars(RetryDue(r) /\ UNCHANGED telemetryVars)

OutboxStart == TelemetryInit /\ OutboxInit

OutboxSpec == OutboxStart /\ [][OutboxNext]_allOutboxVars /\ OutboxFairness

(***************************************************************************)
(* A row that was not delivered is never dropped: it leaves the outbox     *)
(* only when a run of sync_once that carried it got a 2xx answer, or when  *)
(* an operator restores a backup.  Retention, failures and rejections of   *)
(* other rows, and a second run of sync_once on the same rows leave it     *)
(* pending (docs/security-architecture.md: persistent outbox and retry).   *)
(***************************************************************************)
PendingIsKept ==
  [][\A r \in Pending : outbox'[r] # "pending" =>
       \/ \E c \in Caller : call[c].phase = "answered" /\ r \in call[c].rows
       \/ \E b \in backups : Restore(b)]_allOutboxVars

(***************************************************************************)
(* The outbox drains once the Control Room can be reached again            *)
(* (docs/control-room.md:9): every pending row that SyncEvent accepts is   *)
(* eventually delivered, whatever the batch limit, the rows it refuses and *)
(* the backoffs of other rows.                                             *)
(***************************************************************************)
OutboxDrains ==
  \A r \in Row \ PoisonRow : outbox[r] = "pending" ~> outbox[r] # "pending"

\* The same for as long as no exception has ended sync_loop.
OutboxDrainsWhileLoopRuns ==
  \A r \in Row \ PoisonRow :
    outbox[r] = "pending" ~> (outbox[r] # "pending" \/ call[Loop].phase = "dead")

=============================================================================

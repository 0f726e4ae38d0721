------------------------- MODULE SyncPipelineProofs -------------------------
(***************************************************************************)
(* Theorems about SyncPipeline for any number of rows, runs, devices and   *)
(* failures.  The safety theorems assume RetriesWithinWindow; without it   *)
(* TLC finds a counterexample (LateRetry.cfg).                             *)
(***************************************************************************)
EXTENDS SyncPipeline, EdgeOutboxProofs, ControlRoomIngestProofs

-----------------------------------------------------------------------------
(* Typing.                                                                 *)

LEMMA RequestType ==
  ASSUME OutboxTypeOK, NEW c \in Caller
  PROVE  RequestOf(c) \in Request
BY DEF OutboxTypeOK, RequestOf, Request

LEMMA AbandonType ==
  ASSUME OutboxTypeOK, strays \subseteq Request, Abandon
  PROVE  strays' \subseteq Request
BY RequestType DEF Abandon, Posting

LEMMA DeliveryType ==
  ASSUME TelemetryTypeOK, IngestTypeOK, NEW rows \in SUBSET Row, NEW report \in Report,
         IngestBatch(rows, report)
  PROVE  IngestTypeOK'
<1>1. report.backlog \in Nat /\ report.devices \subseteq RemoteDeviceId
  BY SameDevices, BoundsAssumption DEF Report
<1> QED BY <1>1, IngestBatchType

LEMMA NextType == TypeOK /\ [Next]_syncVars => TypeOK'
<1> SUFFICES ASSUME TypeOK, [Next]_syncVars PROVE TypeOK'
  OBVIOUS
<1> USE DEF TypeOK
<1>1. ASSUME NEW r \in Row, SampleStep(r) PROVE TypeOK'
  <2>1. TelemetryTypeOK'
    BY <1>1, BoundsAssumption DEF SampleStep, QueueRow, Sample, TelemetryTypeOK
  <2>2. OutboxTypeOK'
    BY <1>1, EdgeStepType DEF SampleStep
  <2> QED BY <1>1, <2>1, <2>2 DEF SampleStep, ingestVars, IngestTypeOK
<1>2. CASE EdgeStep
  <2>1. OutboxTypeOK'
    BY <1>2, CallStepType, EdgeStepType DEF EdgeStep
  <2> QED BY <1>2, <2>1 DEF EdgeStep, telemetryVars, ingestVars, TelemetryTypeOK, IngestTypeOK
<1>3. ASSUME NEW c \in Caller, Serve(c) PROVE TypeOK'
  <2>1. call[c].rows \in SUBSET Row /\ call[c].report \in Report
    BY DEF OutboxTypeOK
  <2>2. IngestTypeOK'
    BY <1>3, <2>1, DeliveryType DEF Serve
  <2>3. OutboxTypeOK'
    BY <1>3, CallStepType DEF Serve
  <2> QED BY <1>3, <2>2, <2>3 DEF Serve, telemetryVars, TelemetryTypeOK
<1>4. ASSUME NEW c \in Caller, GiveUp(c) PROVE TypeOK'
  <2>1. OutboxTypeOK'
    BY <1>4, CallStepType DEF GiveUp
  <2>2. strays' \subseteq Request
    BY <1>4, RequestType DEF GiveUp
  <2> QED BY <1>4, <2>1, <2>2 DEF GiveUp, telemetryVars, ingestVars, TelemetryTypeOK, IngestTypeOK
<1>5. ASSUME NEW q \in strays, ServeStray(q) PROVE TypeOK'
  <2>1. q.rows \in SUBSET Row /\ q.report \in Report
    BY DEF Request
  <2>2. IngestTypeOK'
    BY <1>5, <2>1, DeliveryType DEF ServeStray
  <2> QED BY <1>5, <2>2 DEF ServeStray, telemetryVars, outboxVars, TelemetryTypeOK, OutboxTypeOK
<1>6. CASE CrashStep
  <2>1. OutboxTypeOK' /\ strays' \subseteq Request
    BY <1>6, EdgeStepType, AbandonType DEF CrashStep
  <2> QED BY <1>6, <2>1 DEF CrashStep, telemetryVars, ingestVars, TelemetryTypeOK, IngestTypeOK
<1>7. ASSUME NEW b \in backups, RestoreStep(b) PROVE TypeOK'
  <2>1. OutboxTypeOK' /\ strays' \subseteq Request
    BY <1>7, EdgeStepType, AbandonType DEF RestoreStep
  <2> QED BY <1>7, <2>1 DEF RestoreStep, telemetryVars, ingestVars, TelemetryTypeOK, IngestTypeOK
<1>8. CASE ControlRoomStep
  <2>1. IngestTypeOK'
    BY <1>8, IngestMaintenanceType DEF ControlRoomStep
  <2> QED BY <1>8, <2>1 DEF ControlRoomStep, telemetryVars, outboxVars, TelemetryTypeOK, OutboxTypeOK
<1>9. CASE DayEnds
  <2>1. TelemetryTypeOK'
    BY <1>9, BoundsAssumption DEF DayEnds, OutboxNextDay, NextDay, TelemetryTypeOK
  <2>2. OutboxTypeOK'
    BY <1>9, EdgeStepType DEF DayEnds
  <2> QED BY <1>9, <2>1, <2>2 DEF DayEnds, ingestVars, IngestTypeOK
<1>10. CASE UNCHANGED syncVars
  BY <1>10 DEF syncVars, telemetryVars, outboxVars, ingestVars, TelemetryTypeOK, OutboxTypeOK, IngestTypeOK
<1> QED BY <1>1, <1>2, <1>3, <1>4, <1>5, <1>6, <1>7, <1>8, <1>9, <1>10 DEF Next

(***************************************************************************)
(* The type invariant of the pipeline.                                     *)
(***************************************************************************)
THEOREM TypeCorrect == Spec => []TypeOK
<1>1. Init => TypeOK
  <2>1. TelemetryInit /\ OutboxInit => TelemetryTypeOK /\ OutboxTypeOK
    BY OutboxInitType
  <2>2. IngestInit => IngestTypeOK
    BY BoundsAssumption DEF IngestInit, IngestTypeOK, Never, NoRollup
  <2> QED BY <2>1, <2>2 DEF Init, TypeOK
<1> QED BY <1>1, NextType, PTL DEF Spec

-----------------------------------------------------------------------------
(* The delivery invariant, step by step.                                   *)

\* What may be delivered now still may after acceptances of the same day.
LEMMA RetriableStays ==
  ASSUME TypeOK, AcceptedGrows, day' = day
  PROVE  \A r \in Row : (r \in Accepted => r \in Accepted') /\ (Retriable(r) => Retriable(r)')
<1>1. \A r \in Row : accepted[r] \in Nat /\ acceptedAt[r] \in Int /\ day \in Int
  BY DEF TypeOK, IngestTypeOK, TelemetryTypeOK
<1> QED BY <1>1, IngestAssumption DEF AcceptedGrows, Accepted, Retriable

\* Steps of the Control Room alone.
LEMMA ControlRoomKeepsDelivery ==
  ASSUME TypeOK, DeliveryInv, AcceptedGrows, day' = day,
         UNCHANGED outboxVars, strays' \subseteq strays
  PROVE  DeliveryInv'
<1>1. \A r \in Row : (r \in Accepted => r \in Accepted') /\ (Retriable(r) => Retriable(r)')
  BY RetriableStays
<1>2. /\ \A c \in Caller : call[c].rows \subseteq Row
      /\ \A q \in strays : q.rows \subseteq Row
  BY DEF TypeOK, OutboxTypeOK, Request
<1>3. AnswersAreTrue' /\ BackupsAreTrue' /\ SentWasAccepted'
  BY <1>1, <1>2 DEF outboxVars, DeliveryInv, AnswersAreTrue, BackupsAreTrue, SentWasAccepted, Accepted
<1>4. DeliverableIsRetriable'
  BY <1>1, <1>2 DEF outboxVars, DeliveryInv, DeliverableIsRetriable, Pending
<1>5. RestingCallsAreEmpty'
  BY DEF outboxVars, DeliveryInv, RestingCallsAreEmpty
<1> QED BY <1>3, <1>4, <1>5 DEF DeliveryInv

(***************************************************************************)
(* Steps that leave the Control Room and the day alone keep the acceptance *)
(* of every row, so each part is about the Edge's own variables.           *)
(***************************************************************************)
LEMMA AcceptanceUnchanged ==
  ASSUME UNCHANGED <<telemetryVars, ingestVars>>
  PROVE  Accepted' = Accepted /\ \A r : Retriable(r)' = Retriable(r)
BY DEF telemetryVars, ingestVars, Accepted, Retriable

\* A run of sync_once before its request: it takes pending rows along.
LEMMA CollectKeepsDelivery ==
  ASSUME TypeOK, DeliveryInv, NEW c \in Caller, Collect(c),
         UNCHANGED <<telemetryVars, ingestVars, strays>>
  PROVE  DeliveryInv'
<1> USE AcceptanceUnchanged DEF DeliveryInv
<1>1. Selected \subseteq Pending
  BY DEF Selected, Due
<1>2. \A d \in Caller : \/ call'[d] = call[d]
                        \/ call'[d].phase = "posting" /\ call'[d].rows \subseteq Pending
  BY <1>1 DEF Collect, TypeOK, OutboxTypeOK
<1>3. AnswersAreTrue' /\ RestingCallsAreEmpty'
  BY <1>2 DEF AnswersAreTrue, RestingCallsAreEmpty
<1>4. DeliverableIsRetriable'
  BY <1>2 DEF DeliverableIsRetriable, Collect, Pending
<1>5. BackupsAreTrue' /\ SentWasAccepted'
  BY DEF BackupsAreTrue, SentWasAccepted, Collect, ingestVars
<1> QED BY <1>3, <1>4, <1>5

\* A run that ends: only RecordSent marks rows, and those were answered for.
LEMMA CallEndKeepsDelivery ==
  ASSUME TypeOK, DeliveryInv, NEW c \in Caller,
         \/ CollectRaises(c) \/ RecordSent(c) \/ RecordFailed(c) \/ RecordRaises(c),
         UNCHANGED <<telemetryVars, ingestVars, strays>>
  PROVE  DeliveryInv'
<1> USE AcceptanceUnchanged DEF DeliveryInv
<1>1. \A d \in Caller : call'[d] = call[d] \/ call'[d] \in {Idle, Dead}
  BY DEF CollectRaises, RecordSent, RecordFailed, RecordRaises, Raised, TypeOK, OutboxTypeOK
<1>2. /\ Pending' \subseteq Pending
      /\ \A r \in Row : outbox'[r] \in {"sent", "purged"} =>
           outbox[r] \in {"sent", "purged"} \/ (call[c].phase = "answered" /\ r \in call[c].rows)
  BY DEF CollectRaises, RecordSent, RecordFailed, RecordRaises, Pending, Found
<1>3. AnswersAreTrue' /\ RestingCallsAreEmpty'
  BY <1>1 DEF AnswersAreTrue, RestingCallsAreEmpty, Idle, Dead
<1>4. DeliverableIsRetriable'
  BY <1>1, <1>2 DEF DeliverableIsRetriable, Idle, Dead
<1>5. SentWasAccepted'
  BY <1>2 DEF SentWasAccepted, AnswersAreTrue, Accepted, ingestVars
<1>6. BackupsAreTrue'
  BY DEF BackupsAreTrue, CollectRaises, RecordSent, RecordFailed, RecordRaises
<1> QED BY <1>3, <1>4, <1>5, <1>6

\* The steps of the Edge that are not part of a run.
LEMMA UpkeepKeepsDelivery ==
  ASSUME TypeOK, DeliveryInv,
         \/ \E d \in Device : ChangeDevice(d)
         \/ \E r \in Row : RetryDue(r)
         \/ PurgeSent \/ TakeBackup,
         UNCHANGED <<telemetryVars, ingestVars, strays>>
  PROVE  DeliveryInv'
<1> USE AcceptanceUnchanged DEF DeliveryInv
<1>1. /\ call' = call /\ Pending' \subseteq Pending
      /\ \A r \in Row : outbox'[r] \in {"sent", "purged"} => outbox[r] \in {"sent", "purged"}
  BY DEF ChangeDevice, RetryDue, PurgeSent, TakeBackup, Pending
<1>2. AnswersAreTrue' /\ RestingCallsAreEmpty'
  BY <1>1 DEF AnswersAreTrue, RestingCallsAreEmpty
<1>3. DeliverableIsRetriable'
  BY <1>1 DEF DeliverableIsRetriable
<1>4. SentWasAccepted'
  BY <1>1 DEF SentWasAccepted, ingestVars
<1>5. \A b \in backups' : b \in backups \/ b.outbox = outbox
  BY DEF ChangeDevice, RetryDue, PurgeSent, TakeBackup
<1>6. BackupsAreTrue'
  BY <1>5 DEF BackupsAreTrue, SentWasAccepted, Accepted
<1> QED BY <1>2, <1>3, <1>4, <1>6

\* The requests a crash or a restore leaves behind were carried by a run.
LEMMA AbandonedIsRetriable ==
  ASSUME DeliveryInv, Abandon, UNCHANGED <<telemetryVars, ingestVars>>
  PROVE  \A q \in strays' : \A r \in q.rows : Retriable(r)'
BY AcceptanceUnchanged DEF DeliveryInv, DeliverableIsRetriable, Abandon, Posting, RequestOf

LEMMA RestartKeepsDelivery ==
  ASSUME TypeOK, DeliveryInv, CrashStep \/ \E b \in backups : RestoreStep(b)
  PROVE  DeliveryInv'
<1> USE DEF DeliveryInv
<1>1. UNCHANGED <<telemetryVars, ingestVars>> /\ backups' = backups /\ Abandon
  BY DEF CrashStep, Crash, RestoreStep, Restore
<1>2. Accepted' = Accepted /\ \A r : Retriable(r)' = Retriable(r)
  BY <1>1, AcceptanceUnchanged
<1>3. \A c \in Caller : call'[c] = Idle
  BY DEF CrashStep, Crash, RestoreStep, Restore
<1>4. AnswersAreTrue' /\ RestingCallsAreEmpty' /\ BackupsAreTrue'
  BY <1>1, <1>2, <1>3 DEF AnswersAreTrue, RestingCallsAreEmpty, BackupsAreTrue, Idle
<1>5. SentWasAccepted' /\ \A r \in Pending' : Retriable(r)
  <2>1. CASE CrashStep
    BY <1>1, <2>1 DEF CrashStep, Crash, SentWasAccepted, DeliverableIsRetriable, Pending, ingestVars
  <2>2. ASSUME NEW b \in backups, RestoreStep(b)
        PROVE  SentWasAccepted' /\ \A r \in Pending' : Retriable(r)
    <3>1. \A r \in Row : outbox'[r] = (IF b.outbox[r] = "absent" /\ outbox[r] # "absent"
                                       THEN "lost" ELSE b.outbox[r])
      BY <2>2 DEF RestoreStep, Restore
    <3>2. SentWasAccepted'
      BY <1>1, <3>1 DEF SentWasAccepted, BackupsAreTrue, Accepted, ingestVars
    <3>3. \A r \in Pending' : Retriable(r)
      BY <2>2, <3>1 DEF Pending, RestoreStep
    <3> QED BY <3>2, <3>3
  <2> QED BY <2>1, <2>2
<1>6. DeliverableIsRetriable'
  BY <1>1, <1>2, <1>3, <1>5, AbandonedIsRetriable DEF DeliverableIsRetriable, Idle
<1> QED BY <1>4, <1>5, <1>6

\* A new row was never accepted.
LEMMA SampleKeepsDelivery ==
  ASSUME TypeOK, DeliveryInv, NEW r \in Row, SampleStep(r), accepted[r] = 0
  PROVE  DeliveryInv'
<1> USE DEF DeliveryInv
<1>1. /\ UNCHANGED <<call, backups, strays, accepted, acceptedAt, day>>
      /\ outbox' = [outbox EXCEPT ![r] = "pending"]
  BY DEF SampleStep, QueueRow, Sample, ingestVars
<1>2. Accepted' = Accepted /\ \A q : Retriable(q)' = Retriable(q)
  BY <1>1 DEF Accepted, Retriable
<1>3. Retriable(r) /\ Pending' = Pending \cup {r}
  BY <1>1 DEF Retriable, Pending, TypeOK, OutboxTypeOK
<1>4. AnswersAreTrue' /\ BackupsAreTrue' /\ RestingCallsAreEmpty'
  BY <1>1, <1>2 DEF AnswersAreTrue, BackupsAreTrue, RestingCallsAreEmpty
<1>5. DeliverableIsRetriable'
  BY <1>1, <1>2, <1>3 DEF DeliverableIsRetriable
<1>6. SentWasAccepted'
  BY <1>1 DEF SentWasAccepted, TypeOK, OutboxTypeOK
<1> QED BY <1>4, <1>5, <1>6

\* A run that gives up keeps its rows; a stray carries rows of a run.
LEMMA GiveUpKeepsDelivery ==
  ASSUME TypeOK, DeliveryInv, NEW c \in Caller, GiveUp(c)
  PROVE  DeliveryInv'
<1> USE DEF DeliveryInv
<1>1. UNCHANGED <<telemetryVars, ingestVars, outbox, backups>>
  BY DEF GiveUp, CallFailed
<1>2. Accepted' = Accepted /\ \A q : Retriable(q)' = Retriable(q)
  BY <1>1, AcceptanceUnchanged
<1>3. \A d \in Caller : /\ call'[d].rows = call[d].rows
                        /\ call'[d] = call[d] \/ call'[d].phase = "failed"
  BY DEF GiveUp, CallFailed, TypeOK, OutboxTypeOK
<1>4. AnswersAreTrue' /\ BackupsAreTrue' /\ RestingCallsAreEmpty' /\ SentWasAccepted'
  BY <1>1, <1>2, <1>3
  DEF AnswersAreTrue, BackupsAreTrue, RestingCallsAreEmpty, SentWasAccepted, ingestVars
<1>5. \A q \in strays' : q \in strays \/ q.rows = call[c].rows
  BY DEF GiveUp, RequestOf
<1>6. DeliverableIsRetriable'
  BY <1>1, <1>2, <1>3, <1>5 DEF DeliverableIsRetriable, Pending
<1> QED BY <1>4, <1>6

\* A request that is served while its run waits.
LEMMA ServeKeepsDelivery ==
  ASSUME TypeOK, DeliveryInv, NEW c \in Caller, Serve(c), AcceptedGrows,
         call[c].rows \subseteq Accepted'
  PROVE  DeliveryInv'
<1> USE DEF DeliveryInv
<1>1. /\ UNCHANGED <<outbox, backups, strays>> /\ day' = day
      /\ call' = [call EXCEPT ![c].phase = "answered"]
  BY DEF Serve, CallAnswered, telemetryVars
<1>2. \A r \in Row : (r \in Accepted => r \in Accepted') /\ (Retriable(r) => Retriable(r)')
  BY <1>1, RetriableStays
<1>3. /\ \A d \in Caller : call[d].rows \subseteq Row
      /\ \A q \in strays : q.rows \subseteq Row
  BY DEF TypeOK, OutboxTypeOK, Request
<1>4. \A d \in Caller : /\ call'[d].rows = call[d].rows
                        /\ call'[d] = call[d] \/ (d = c /\ call'[d].phase = "answered")
  BY <1>1 DEF TypeOK, OutboxTypeOK
<1>5. AnswersAreTrue' /\ RestingCallsAreEmpty'
  BY <1>2, <1>3, <1>4 DEF AnswersAreTrue, RestingCallsAreEmpty
<1>6. BackupsAreTrue' /\ SentWasAccepted'
  BY <1>1, <1>2 DEF BackupsAreTrue, SentWasAccepted, Accepted
<1>7. DeliverableIsRetriable'
  BY <1>1, <1>2, <1>3, <1>4 DEF DeliverableIsRetriable, Pending
<1> QED BY <1>5, <1>6, <1>7

\* When a day ends nothing is on its way, and pending rows still have time.
LEMMA DayEndKeepsDelivery ==
  ASSUME TypeOK, DeliveryInv, DayEnds
  PROVE  DeliveryInv'
<1> USE DEF DeliveryInv
<1>1. /\ UNCHANGED <<outbox, call, backups, accepted, acceptedAt>> /\ strays' = {}
      /\ \A c \in Caller : call[c].rows = {}
  BY DEF DayEnds, OutboxNextDay, ingestVars, RestingCallsAreEmpty
<1>2. Accepted' = Accepted /\ Pending' = Pending
  BY <1>1 DEF Accepted, Pending
<1>3. ASSUME NEW r \in Pending PROVE Retriable(r)'
  <2>1. accepted[r] > 0 => day < acceptedAt[r] + MaxRetryLag
    BY DEF DayEnds
  <2>2. day' = day + 1 /\ day \in Int /\ acceptedAt[r] \in Int
    BY DEF DayEnds, OutboxNextDay, NextDay, TypeOK, TelemetryTypeOK, IngestTypeOK, Pending
  <2> QED BY <1>1, <2>1, <2>2, IngestAssumption DEF Retriable
<1>4. DeliverableIsRetriable'
  BY <1>1, <1>2, <1>3 DEF DeliverableIsRetriable
<1> QED
  BY <1>1, <1>2, <1>4 DEF AnswersAreTrue, BackupsAreTrue, SentWasAccepted, RestingCallsAreEmpty

-----------------------------------------------------------------------------
\* A batch makes none but its own rows accepted.
LEMMA IngestAcceptsItsRows ==
  ASSUME IngestTypeOK, NEW rows \in SUBSET Row, NEW report, IngestBatch(rows, report)
  PROVE  Accepted' \subseteq Accepted \cup rows
<1>1. CASE IngestDuplicate(rows)
  BY <1>1 DEF IngestDuplicate, ingestVars, Accepted
<1>2. CASE IngestNew(rows, report)
  BY <1>2 DEF IngestNew, Accepted
<1> QED BY <1>1, <1>2 DEF IngestBatch

LEMMA NextSampled == TypeOK /\ OnlySampledTravel /\ [Next]_syncVars => OnlySampledTravel'
<1> SUFFICES ASSUME TypeOK, OnlySampledTravel, [Next]_syncVars PROVE OnlySampledTravel'
  OBVIOUS
<1> USE DEF TypeOK, OnlySampledTravel
<1>1. Sampled \subseteq Sampled'
  <2>1. ASSUME NEW r \in Row, SampleStep(r) PROVE Sampled \subseteq Sampled'
    BY <2>1 DEF SampleStep, QueueRow, Sample, Sampled, TelemetryTypeOK
  <2>2. CASE sampledAt' = sampledAt
    BY <2>2 DEF Sampled
  <2> QED BY <2>1, <2>2 DEF Next, EdgeStep, Serve, GiveUp, ServeStray, CrashStep, RestoreStep,
        ControlRoomStep, DayEnds, OutboxNextDay, NextDay, syncVars, telemetryVars
<1>2. Accepted' \subseteq Sampled'
  <2>1. ASSUME NEW c \in Caller, Serve(c) PROVE Accepted' \subseteq Sampled
    <3>1. call[c].rows \in SUBSET Row
      BY DEF OutboxTypeOK
    <3> QED BY <2>1, <3>1, IngestAcceptsItsRows DEF Serve
  <2>2. ASSUME NEW q \in strays, ServeStray(q) PROVE Accepted' \subseteq Sampled
    <3>1. q.rows \in SUBSET Row
      BY DEF Request
    <3> QED BY <2>2, <3>1, IngestAcceptsItsRows DEF ServeStray
  <2>3. CASE accepted' = accepted
    BY <1>1, <2>3 DEF Accepted
  <2> QED BY <1>1, <2>1, <2>2, <2>3 DEF Next, SampleStep, EdgeStep, GiveUp, CrashStep, RestoreStep,
        ControlRoomStep, GoSilent, RunRetention, DayEnds, syncVars, ingestVars
<1>3. ASSUME NEW b \in backups', NEW r \in Row, b.outbox[r] = "pending"
      PROVE  r \in Sampled'
  <2>1. b \in backups \/ b.outbox = outbox
    BY DEF Next, SampleStep, QueueRow, EdgeStep, ChangeDevice, Collect, CollectRaises, RecordSent,
         RecordFailed, RecordRaises, RetryDue, PurgeSent, TakeBackup, Serve, CallAnswered, GiveUp,
         CallFailed, ServeStray, CrashStep, Crash, RestoreStep, Restore, ControlRoomStep, DayEnds,
         OutboxNextDay, syncVars, outboxVars
  <2> QED BY <1>1, <1>3, <2>1 DEF Pending
<1>4. Pending' \subseteq Sampled'
  <2>1. ASSUME NEW r \in Row, SampleStep(r) PROVE Pending' \subseteq Sampled'
    <3>1. r \in Sampled' /\ Pending' \subseteq Pending \cup {r}
      <4>1. sampledAt'[r] # Never
        BY <2>1 DEF SampleStep, QueueRow, Sample, TelemetryTypeOK, Never
      <4>2. outbox' = [outbox EXCEPT ![r] = "pending"]
        BY <2>1 DEF SampleStep, QueueRow
      <4> QED BY <4>1, <4>2 DEF Sampled, Pending, OutboxTypeOK
    <3> QED BY <1>1, <3>1
  <2>2. ASSUME NEW b \in backups, RestoreStep(b) PROVE Pending' \subseteq Sampled
    BY <2>2 DEF RestoreStep, Restore, Pending
  <2>3. CASE Pending' \subseteq Pending
    BY <1>1, <2>3
  <2>4. \/ \E r \in Row : SampleStep(r)
        \/ \E b \in backups : RestoreStep(b)
        \/ Pending' \subseteq Pending
    BY DEF Next, EdgeStep, ChangeDevice, Collect, CollectRaises, RecordSent, RecordFailed,
         RecordRaises, RetryDue, PurgeSent, TakeBackup, Serve, CallAnswered, GiveUp, CallFailed,
         ServeStray, CrashStep, Crash, ControlRoomStep, DayEnds, OutboxNextDay, syncVars, outboxVars,
         Pending
  <2> QED BY <1>1, <2>1, <2>2, <2>3, <2>4
<1>5. ASSUME NEW c \in Caller PROVE call'[c].rows \subseteq Sampled'
  <2>1. \/ call'[c].rows \subseteq call[c].rows
        \/ call'[c].rows \subseteq Pending
    <3>1. ASSUME NEW d \in Caller, Collect(d)
          PROVE  call'[c].rows \subseteq call[c].rows \/ call'[c].rows \subseteq Pending
      BY <3>1 DEF Collect, Selected, Due, OutboxTypeOK
    <3>2. ASSUME NEW d \in Caller, CollectRaises(d) \/ RecordSent(d) \/ RecordFailed(d) \/ RecordRaises(d)
          PROVE  call'[c].rows \subseteq call[c].rows
      BY <3>2 DEF CollectRaises, RecordSent, RecordFailed, RecordRaises, Raised, Idle, Dead, OutboxTypeOK
    <3>3. ASSUME NEW d \in Caller, CallAnswered(d) \/ CallFailed(d)
          PROVE  call'[c].rows \subseteq call[c].rows
      BY <3>3 DEF CallAnswered, CallFailed, OutboxTypeOK
    <3>4. CASE Crash \/ \E b \in backups : Restore(b)
      BY <3>4 DEF Crash, Restore, Idle
    <3>5. CASE call' = call
      BY <3>5
    <3> QED BY <3>1, <3>2, <3>3, <3>4, <3>5
         DEF Next, SampleStep, QueueRow, EdgeStep, ChangeDevice, RetryDue, PurgeSent, TakeBackup,
             Serve, GiveUp, ServeStray, CrashStep, RestoreStep, ControlRoomStep, DayEnds,
             OutboxNextDay, syncVars, outboxVars
  <2> QED BY <1>1, <2>1
<1>6. ASSUME NEW q \in strays' PROVE q.rows \subseteq Sampled'
  <2>1. q \in strays \/ \E c \in Caller : q = RequestOf(c)
    BY DEF Next, SampleStep, EdgeStep, Serve, GiveUp, ServeStray, CrashStep, RestoreStep, Abandon,
           Posting, ControlRoomStep, DayEnds, syncVars
  <2> QED BY <1>1, <2>1 DEF RequestOf
<1> QED BY <1>2, <1>3, <1>4, <1>5, <1>6

LEMMA NextInv ==
  ASSUME RetriesWithinWindow
  PROVE  TypeOK /\ IInv /\ [Next]_syncVars => IInv'
<1> SUFFICES ASSUME TypeOK, OnlySampledTravel, DedupInv, DeliveryInv, [Next]_syncVars
             PROVE  DedupInv' /\ DeliveryInv'
  BY NextSampled DEF IInv
<1> USE DEF TypeOK
<1>1. ASSUME NEW r \in Row, SampleStep(r) PROVE DedupInv' /\ DeliveryInv'
  <2>1. UNCHANGED ingestVars /\ day' = day /\ sampledAt[r] = Never
    BY <1>1 DEF SampleStep, QueueRow, Sample
  <2>2. DedupInv'
    BY <2>1, IngestStays
  <2>3. accepted[r] = 0
    <3>1. r \notin Accepted
      BY <2>1 DEF OnlySampledTravel, Sampled
    <3> QED BY <3>1 DEF Accepted, IngestTypeOK
  <2>4. DeliveryInv'
    BY <1>1, <2>3, SampleKeepsDelivery
  <2> QED BY <2>2, <2>4
<1>2. CASE EdgeStep
  <2>1. UNCHANGED <<telemetryVars, ingestVars, strays>>
    BY <1>2 DEF EdgeStep
  <2>2. DedupInv'
    BY <2>1, IngestStays DEF telemetryVars
  <2>3. DeliveryInv'
    BY <1>2, <2>1, CollectKeepsDelivery, CallEndKeepsDelivery, UpkeepKeepsDelivery DEF EdgeStep
  <2> QED BY <2>2, <2>3
<1>3. ASSUME NEW c \in Caller, Serve(c) PROVE DedupInv' /\ DeliveryInv'
  <2>1. call[c].rows \in SUBSET Row /\ day' = day
    BY <1>3 DEF OutboxTypeOK, Serve, telemetryVars
  <2>2. \A r \in call[c].rows : Retriable(r)
    BY DEF DeliveryInv, DeliverableIsRetriable
  <2>3. DedupInv' /\ AcceptedGrows /\ call[c].rows \subseteq Accepted'
    BY <1>3, <2>1, <2>2, IngestBatchDedups DEF Serve
  <2> QED BY <1>3, <2>3, ServeKeepsDelivery
<1>4. ASSUME NEW c \in Caller, GiveUp(c) PROVE DedupInv' /\ DeliveryInv'
  <2>1. UNCHANGED <<telemetryVars, ingestVars>>
    BY <1>4 DEF GiveUp
  <2> QED BY <1>4, <2>1, IngestStays, GiveUpKeepsDelivery DEF telemetryVars
<1>5. ASSUME NEW q \in strays, ServeStray(q) PROVE DedupInv' /\ DeliveryInv'
  <2>1. q.rows \in SUBSET Row /\ day' = day
    BY <1>5 DEF Request, ServeStray, telemetryVars
  <2>2. \A r \in q.rows : Retriable(r)
    BY DEF DeliveryInv, DeliverableIsRetriable
  <2>3. DedupInv' /\ AcceptedGrows
    BY <1>5, <2>1, <2>2, IngestBatchDedups DEF ServeStray
  <2>4. UNCHANGED outboxVars /\ strays' \subseteq strays
    BY <1>5 DEF ServeStray
  <2> QED BY <2>1, <2>3, <2>4, ControlRoomKeepsDelivery
<1>6. CASE CrashStep \/ \E b \in backups : RestoreStep(b)
  <2>1. UNCHANGED <<telemetryVars, ingestVars>>
    BY <1>6 DEF CrashStep, RestoreStep
  <2> QED BY <1>6, <2>1, IngestStays, RestartKeepsDelivery DEF telemetryVars
<1>7. CASE ControlRoomStep
  <2>1. day' = day /\ UNCHANGED outboxVars /\ strays' = strays
    BY <1>7 DEF ControlRoomStep, telemetryVars
  <2>2. DedupInv' /\ AcceptedGrows
    BY <1>7, <2>1, MaintenanceDedups DEF ControlRoomStep
  <2> QED BY <2>1, <2>2, ControlRoomKeepsDelivery
<1>8. CASE DayEnds
  <2>1. UNCHANGED ingestVars /\ NextDay
    BY <1>8 DEF DayEnds, OutboxNextDay
  <2> QED BY <1>8, <2>1, IngestStays, DayEndKeepsDelivery
<1>9. CASE UNCHANGED syncVars
  <2>1. UNCHANGED <<telemetryVars, ingestVars, outboxVars, strays>>
    BY <1>9 DEF syncVars
  <2>2. DedupInv' /\ AcceptedGrows
    BY <2>1, IngestStays DEF telemetryVars
  <2> QED BY <2>1, <2>2, ControlRoomKeepsDelivery DEF telemetryVars
<1> QED BY <1>1, <1>2, <1>3, <1>4, <1>5, <1>6, <1>7, <1>8, <1>9 DEF Next

\* The invariant behind delivery: markers, answers, backups and rows in flight agree
\* in every state, as long as retries stay within the markers' window.
THEOREM DeliveryInvariant ==
  ASSUME RetriesWithinWindow
  PROVE  Spec => []IInv
<1>1. Init => IInv
  <2>1. Init => /\ accepted = [r \in Row |-> 0] /\ acceptedAt = [r \in Row |-> Never]
                /\ ingestedEvents = {} /\ ingestedBatches = {} /\ backups = {} /\ strays = {}
                /\ outbox = [r \in Row |-> "absent"] /\ call = [c \in Caller |-> Idle]
    BY DEF Init, IngestInit, OutboxInit
  <2>2. Init => Accepted = {} /\ Pending = {}
    BY <2>1 DEF Accepted, Pending
  <2>3. Init => DedupInv
    BY <2>1, <2>2 DEF DedupInv, MarkersAreSound, AcceptanceIsDated, MarkersLast, BatchMarkerCovers, AtMostOnce
  <2>4. Init => DeliveryInv
    BY <2>1, <2>2 DEF DeliveryInv, AnswersAreTrue, BackupsAreTrue, SentWasAccepted,
                      DeliverableIsRetriable, RestingCallsAreEmpty, Idle
  <2>5. Init => OnlySampledTravel
    BY <2>1, <2>2 DEF OnlySampledTravel, Idle
  <2> QED BY <2>3, <2>4, <2>5 DEF IInv
<1>2. TypeOK /\ IInv /\ [Next]_syncVars => IInv'
  BY NextInv
<1> QED BY <1>1, <1>2, TypeCorrect, PTL DEF Spec

(***************************************************************************)
(* Every row is accepted at most once and marked sent only after it was    *)
(* accepted, through lost answers, stray requests, concurrent runs,        *)
(* crashes and restored backups, as long as retries stay within the        *)
(* retention window of the markers.                                        *)
(***************************************************************************)
THEOREM DeliveryIsSafe ==
  ASSUME RetriesWithinWindow
  PROVE  Spec => [](AtMostOnce /\ SentWasAccepted /\ BatchMarkerCovers)
<1>1. Spec => []IInv
  BY DeliveryInvariant
<1>2. IInv => AtMostOnce /\ SentWasAccepted /\ BatchMarkerCovers
  BY DEF IInv, DedupInv, DeliveryInv
<1> QED BY <1>1, <1>2, PTL

-----------------------------------------------------------------------------
(* What is marked sent: no assumption on retries is needed.                *)

\* A batch is answered for only once its rows are accepted, by itself or before.
LEMMA BatchMarksTruly ==
  ASSUME IngestTypeOK, MarkedWereAccepted, BatchMarkerCovers,
         NEW rows \in SUBSET Row, NEW report, IngestBatch(rows, report)
  PROVE  MarkedWereAccepted' /\ BatchMarkerCovers' /\ Accepted \subseteq Accepted' /\ rows \subseteq Accepted'
<1>1. CASE IngestDuplicate(rows)
  BY <1>1 DEF IngestDuplicate, BatchAlreadyIngested, ingestVars, Accepted, MarkedWereAccepted,
              BatchMarkerCovers
<1>2. CASE IngestNew(rows, report)
  <2> DEFINE new == {r \in rows : ~EventIngested(r)}
  <2>1. \A r \in Row : /\ accepted[r] \in Nat
                       /\ accepted'[r] = (IF r \in new THEN accepted[r] + 1 ELSE accepted[r])
    BY <1>2 DEF IngestNew, IngestTypeOK
  <2>2. Accepted' = Accepted \cup new
    BY <2>1 DEF Accepted
  <2>3. rows \subseteq Accepted'
    BY <2>2 DEF EventIngested, MarkedWereAccepted
  <2>4. /\ ingestedEvents' = ingestedEvents \cup {[id |-> r, at |-> day] : r \in new}
        /\ ingestedBatches' = ingestedBatches \cup {[id |-> rows, at |-> day]}
    BY <1>2 DEF IngestNew
  <2>5. MarkedWereAccepted'
    BY <2>2, <2>4 DEF MarkedWereAccepted
  <2>6. BatchMarkerCovers'
    BY <2>2, <2>3, <2>4 DEF BatchMarkerCovers
  <2> QED BY <2>2, <2>3, <2>5, <2>6
<1> QED BY <1>1, <1>2 DEF IngestBatch

LEMMA SentInvStep == TypeOK /\ SentInv /\ [Next]_syncVars => SentInv'
<1> SUFFICES ASSUME TypeOK, SentInv, [Next]_syncVars PROVE SentInv'
  OBVIOUS
<1> USE DEF TypeOK, SentInv
<1>1. ASSUME NEW c \in Caller, Serve(c)
      PROVE  MarkedWereAccepted' /\ BatchMarkerCovers' /\ Accepted \subseteq Accepted' /\ call[c].rows \subseteq Accepted'
  <2>1. call[c].rows \in SUBSET Row
    BY DEF OutboxTypeOK
  <2> QED BY <1>1, <2>1, BatchMarksTruly DEF Serve
<1>2. MarkedWereAccepted' /\ BatchMarkerCovers' /\ Accepted \subseteq Accepted'
  <2>1. ASSUME NEW q \in strays, ServeStray(q)
        PROVE  MarkedWereAccepted' /\ BatchMarkerCovers' /\ Accepted \subseteq Accepted'
    <3>1. q.rows \in SUBSET Row
      BY DEF Request
    <3> QED BY <2>1, <3>1, BatchMarksTruly DEF ServeStray
  <2>2. CASE accepted' = accepted /\ ingestedEvents' \subseteq ingestedEvents /\ ingestedBatches' \subseteq ingestedBatches
    BY <2>2 DEF MarkedWereAccepted, BatchMarkerCovers, Accepted
  <2> QED BY <1>1, <2>1, <2>2 DEF Next, SampleStep, EdgeStep, GiveUp, CrashStep, RestoreStep,
        ControlRoomStep, GoSilent, RunRetention, DayEnds, syncVars, ingestVars
<1>3. AnswersAreTrue'
  <2> SUFFICES ASSUME NEW c \in Caller, call'[c].phase = "answered" PROVE call'[c].rows \subseteq Accepted'
    BY DEF AnswersAreTrue
  <2>1. CASE Serve(c)
    BY <1>1, <2>1 DEF Serve, CallAnswered, OutboxTypeOK
  <2>2. CASE call'[c] = call[c]
    BY <1>2, <2>2 DEF AnswersAreTrue
  <2>3. ASSUME NEW d \in Caller,
               Collect(d) \/ CollectRaises(d) \/ RecordSent(d) \/ RecordFailed(d) \/ RecordRaises(d) \/ CallFailed(d)
        PROVE  call'[c] = call[c]
    BY <2>3 DEF Collect, CollectRaises, RecordSent, RecordFailed, RecordRaises, CallFailed, Raised,
                Idle, Dead, OutboxTypeOK
  <2>4. ASSUME NEW d \in Caller, Serve(d), d # c PROVE call'[c] = call[c]
    BY <2>4 DEF Serve, CallAnswered, OutboxTypeOK
  <2>5. ~Crash /\ \A b \in backups : ~Restore(b)
    BY DEF Crash, Restore, Idle
  <2> QED BY <2>1, <2>2, <2>3, <2>4, <2>5
       DEF Next, SampleStep, QueueRow, EdgeStep, ChangeDevice, RetryDue, PurgeSent, TakeBackup,
           GiveUp, ServeStray, CrashStep, RestoreStep, ControlRoomStep, DayEnds, OutboxNextDay,
           syncVars, outboxVars
<1>4. SentWasAccepted'
  <2> SUFFICES ASSUME NEW r \in Row, outbox'[r] \in {"sent", "purged"} PROVE r \in Accepted'
    BY DEF SentWasAccepted, Accepted
  <2>1. CASE outbox[r] \in {"sent", "purged"}
    BY <1>2, <2>1 DEF SentWasAccepted, Accepted
  <2>2. ASSUME NEW d \in Caller, RecordSent(d)
        PROVE  outbox[r] \in {"sent", "purged"} \/ r \in Accepted
    BY <2>2 DEF RecordSent, Found, AnswersAreTrue, OutboxTypeOK
  <2>3. ASSUME NEW b \in backups, Restore(b) PROVE r \in Accepted
    BY <2>3 DEF Restore, BackupsAreTrue
  <2>4. CASE \/ \E q \in Row : QueueRow(q) \/ RetryDue(q)
             \/ \E d \in Device : ChangeDevice(d)
             \/ \E c \in Caller : \/ Collect(c) \/ CollectRaises(c) \/ RecordFailed(c)
                                  \/ RecordRaises(c) \/ CallAnswered(c) \/ CallFailed(c)
             \/ PurgeSent \/ TakeBackup \/ Crash \/ OutboxNextDay \/ UNCHANGED outboxVars
    <3>1. outbox[r] \in {"sent", "purged"}
      BY <2>4 DEF QueueRow, ChangeDevice, Collect, CollectRaises, RecordFailed, RecordRaises, RetryDue,
                  PurgeSent, TakeBackup, CallAnswered, CallFailed, Crash, OutboxNextDay, outboxVars,
                  OutboxTypeOK
    <3> QED BY <2>1, <3>1
  <2> QED BY <1>2, <2>1, <2>2, <2>3, <2>4
       DEF Next, SampleStep, EdgeStep, Serve, GiveUp, ServeStray, CrashStep, RestoreStep,
           ControlRoomStep, DayEnds, syncVars
<1>5. BackupsAreTrue'
  <2> SUFFICES ASSUME NEW b \in backups', NEW r \in Row, b.outbox[r] \in {"sent", "purged"}
               PROVE  r \in Accepted'
    BY DEF BackupsAreTrue
  <2>1. b \in backups \/ b.outbox = outbox
    BY DEF Next, SampleStep, QueueRow, EdgeStep, ChangeDevice, Collect, CollectRaises, RecordSent,
         RecordFailed, RecordRaises, RetryDue, PurgeSent, TakeBackup, Serve, CallAnswered, GiveUp,
         CallFailed, ServeStray, CrashStep, Crash, RestoreStep, Restore, ControlRoomStep, DayEnds,
         OutboxNextDay, syncVars, outboxVars
  <2>2. b \in backups => r \in Accepted
    BY DEF BackupsAreTrue
  <2>3. b.outbox = outbox => r \in Accepted
    BY DEF SentWasAccepted, Accepted
  <2> QED BY <1>2, <2>1, <2>2, <2>3
<1> QED BY <1>2, <1>3, <1>4, <1>5

(***************************************************************************)
(* A row is marked sent only after the Control Room accepted it, through   *)
(* lost answers, stray requests, concurrent runs, crashes and restored     *)
(* backups, and however late a retry comes.                                *)
(***************************************************************************)
THEOREM SentRowsWereAccepted == Spec => []SentWasAccepted
<1>1. Init => SentInv
  BY DEF Init, IngestInit, OutboxInit, SentInv, AnswersAreTrue, BackupsAreTrue, SentWasAccepted,
         MarkedWereAccepted, BatchMarkerCovers, Idle
<1>2. SentInv => SentWasAccepted
  BY DEF SentInv
<1> QED BY <1>1, <1>2, SentInvStep, TypeCorrect, PTL DEF Spec

-----------------------------------------------------------------------------
(* Rollups.                                                                *)

(***************************************************************************)
(* Through lost answers, stray requests, concurrent runs, crashes and      *)
(* restored backups, every rollup that is retained is the summary of the   *)
(* distinct rows accepted for its minute.                                  *)
(***************************************************************************)
THEOREM PipelineRollupsAreExact ==
  ASSUME RetriesWithinWindow
  PROVE  Spec => []RollupIsExact
<1>1. Init => RollupInv
  BY RollupsStart DEF Init
<1>2. TypeOK /\ IInv /\ RollupInv /\ [Next]_syncVars => RollupInv'
  <2> SUFFICES ASSUME TypeOK, IInv, RollupInv, [Next]_syncVars PROVE RollupInv'
    OBVIOUS
  <2> USE DEF TypeOK
  <2>1. CASE UNCHANGED ingestVars /\ [NextDay \/ \E r \in Row : Sample(r)]_telemetryVars
    BY <2>1, RollupsStay DEF ingestVars
  <2>2. ASSUME NEW c \in Caller, Serve(c) PROVE RollupInv'
    <3>1. call[c].rows \in SUBSET Row /\ \A r \in call[c].rows : Retriable(r)
      BY DEF OutboxTypeOK, IInv, DeliveryInv, DeliverableIsRetriable
    <3> QED BY <2>2, <3>1, BatchKeepsRollups DEF Serve, IInv
  <2>3. ASSUME NEW q \in strays, ServeStray(q) PROVE RollupInv'
    <3>1. q.rows \in SUBSET Row /\ \A r \in q.rows : Retriable(r)
      BY DEF Request, IInv, DeliveryInv, DeliverableIsRetriable
    <3> QED BY <2>3, <3>1, BatchKeepsRollups DEF ServeStray, IInv
  <2>4. CASE ControlRoomStep
    BY <2>4, MaintenanceKeepsRollups DEF ControlRoomStep
  <2> QED BY <2>1, <2>2, <2>3, <2>4
        DEF Next, SampleStep, QueueRow, EdgeStep, GiveUp, CrashStep, RestoreStep, DayEnds,
            OutboxNextDay, syncVars
<1>3. RollupInv => RollupIsExact
  BY DEF RollupInv
<1> QED BY <1>1, <1>2, <1>3, TypeCorrect, DeliveryInvariant, PTL DEF Spec

-----------------------------------------------------------------------------
(* The pipeline implements the ledger.                                     *)

\* The abstract state, as the substitutions of Ledger give it.
LedgerView == <<Sampled, Accepted, Acknowledged, Counts, Outdated>>

LEMMA LedgerStutters == UNCHANGED LedgerView => UNCHANGED Ledger!ledgerVars
BY DEF LedgerView, Ledger!ledgerVars

\* Steps that touch neither the clock, the Control Room nor the marks of rows.
LEMMA ViewStays ==
  ASSUME UNCHANGED <<telemetryVars, ingestVars>>
  PROVE  UNCHANGED <<Sampled, Accepted, Counts, Outdated>>
BY DEF telemetryVars, ingestVars, Sampled, Accepted, Counts, Outdated, BucketBefore

LEMMA SampleIsRecord ==
  ASSUME TypeOK, OnlySampledTravel, SentWasAccepted, NEW r \in Row, SampleStep(r)
  PROVE  Ledger!Record(r)
<1> USE DEF TypeOK
<1>1. /\ sampledAt[r] = Never /\ sampledAt' = [sampledAt EXCEPT ![r] = day] /\ day' = day
      /\ outbox' = [outbox EXCEPT ![r] = "pending"] /\ UNCHANGED ingestVars
  BY DEF SampleStep, QueueRow, Sample
<1>2. day \in Int /\ day # Never
  BY DEF TelemetryTypeOK, Never
<1>3. r \notin Sampled /\ Sampled' = Sampled \cup {r}
  BY <1>1, <1>2 DEF Sampled, TelemetryTypeOK
<1>4. Accepted' = Accepted
  BY <1>1 DEF Accepted, ingestVars
<1>5. Acknowledged' = Acknowledged
  <2>1. r \notin Accepted
    BY <1>3 DEF OnlySampledTravel
  <2>2. r \notin Acknowledged
    BY <2>1 DEF Acknowledged, SentWasAccepted, Accepted
  <2> QED BY <1>1, <2>2 DEF Acknowledged, OutboxTypeOK
<1>6. Outdated' = Outdated
  <2>1. ASSUME NEW b \in Bucket
        PROVE  BucketBefore(b, day - RollupRetention)' <=> BucketBefore(b, day - RollupRetention)
    <3>1. ~(day < day - RollupRetention)
      BY <1>2, IngestAssumption
    <3>2. \A q \in Row : sampledAt'[q] = (IF q = r THEN day ELSE sampledAt[q])
      BY <1>1 DEF TelemetryTypeOK
    <3>3. \A q \in Row : q \in Sampled' /\ sampledAt'[q] < day - RollupRetention
                        <=> q \in Sampled /\ sampledAt[q] < day - RollupRetention
      BY <1>3, <3>1, <3>2
    <3>4. Sampled \subseteq Row /\ Sampled' \subseteq Row
      BY DEF Sampled
    <3> QED BY <1>1, <3>3, <3>4 DEF BucketBefore
  <2> QED BY <2>1 DEF Outdated
<1>7. Counts' = Counts
  BY <1>1, <1>6 DEF Counts, ingestVars
<1> QED BY <1>3, <1>4, <1>5, <1>6, <1>7 DEF Ledger!Record

\* An answer marks rows of its batch; a purge changes one mark for the other.
LEMMA RecordSentIsAcknowledge ==
  ASSUME TypeOK, AnswersAreTrue, NEW c \in Caller, RecordSent(c),
         UNCHANGED <<telemetryVars, ingestVars>>
  PROVE  (\E rows \in SUBSET Row : Ledger!Acknowledge(rows)) \/ UNCHANGED Ledger!ledgerVars
<1> DEFINE rows == Found(c) \ Acknowledged
<1>1. UNCHANGED <<Sampled, Accepted, Counts, Outdated>>
  BY ViewStays
<1>2. Found(c) \subseteq Row /\ Found(c) \subseteq Accepted
  BY DEF Found, Stored, AnswersAreTrue, RecordSent
<1>3. Acknowledged' = Acknowledged \cup rows
  BY <1>2 DEF RecordSent, Acknowledged
<1>4. CASE rows = {}
  BY <1>1, <1>3, <1>4, LedgerStutters DEF LedgerView
<1>5. CASE rows # {}
  BY <1>1, <1>2, <1>3, <1>5 DEF Ledger!Acknowledge
<1> QED BY <1>4, <1>5

LEMMA EdgeStepOnLedger ==
  ASSUME TypeOK, AnswersAreTrue, EdgeStep
  PROVE  (\E rows \in SUBSET Row : Ledger!Acknowledge(rows)) \/ UNCHANGED Ledger!ledgerVars
<1>1. UNCHANGED <<telemetryVars, ingestVars>>
  BY DEF EdgeStep
<1>2. CASE \E c \in Caller : RecordSent(c)
  BY <1>1, <1>2, RecordSentIsAcknowledge
<1>3. CASE Acknowledged' = Acknowledged
  BY <1>1, <1>3, ViewStays, LedgerStutters DEF LedgerView
<1>4. (\E c \in Caller : RecordSent(c)) \/ Acknowledged' = Acknowledged
  BY DEF EdgeStep, ChangeDevice, Collect, CollectRaises, RecordFailed, RecordRaises, RetryDue,
         PurgeSent, TakeBackup, Acknowledged
<1> QED BY <1>2, <1>3, <1>4

(***************************************************************************)
(* A batch delivers the rows that have no marker; they were never accepted *)
(* before, and are counted in the minutes that are not retired.            *)
(***************************************************************************)
LEMMA BatchIsDelivery ==
  ASSUME TypeOK, DedupInv, RetriesWithinWindow,
         NEW rows \in SUBSET Sampled, NEW report,
         \A r \in rows : Retriable(r),
         IngestBatch(rows, report), UNCHANGED <<telemetryVars, outbox>>
  PROVE  (\E new \in SUBSET Row : Ledger!DeliverRows(new)) \/ UNCHANGED Ledger!ledgerVars
<1> USE DEF TypeOK
<1>1. UNCHANGED <<Sampled, Acknowledged, Outdated>>
  BY DEF telemetryVars, Sampled, Acknowledged, Outdated, BucketBefore
<1>2. CASE IngestDuplicate(rows)
  <2>1. UNCHANGED <<Accepted, Counts>>
    BY <1>1, <1>2 DEF IngestDuplicate, ingestVars, Accepted, Counts
  <2> QED BY <1>1, <2>1, LedgerStutters DEF LedgerView
<1>3. CASE IngestNew(rows, report)
  <2> DEFINE new == {r \in rows : ~EventIngested(r)}
             counted == new \cap {r \in Row : HasValue(r)}
             Here(b) == {r \in counted : BucketOf[r] = b}
  <2>1. rows \in SUBSET Row
    BY DEF Sampled
  <2>2. \A r \in new : r \in Row /\ accepted[r] = 0
    BY <2>1, UnmarkedIsNew
  <2>3. Accepted' = Accepted \cup new /\ new \subseteq Sampled \ Accepted
    <3>1. \A r \in Row : accepted'[r] = (IF r \in new THEN 1 ELSE accepted[r])
      BY <1>3, <2>2 DEF IngestNew
    <3> QED BY <2>2, <3>1 DEF Accepted
  <2>4. ASSUME NEW b \in Bucket
        PROVE  rollup'[b].sample_count = rollup[b].sample_count + Cardinality(Here(b))
    <3> DEFINE here == {r \in new : BucketOf[r] = b}
               valued == {r \in here : HasValue(r)}
    <3>1. rollup'[b] = Rolled(rollup[b], here)
      BY <1>3 DEF IngestNew, UpdateMinuteRollups
    <3>2. valued = Here(b)
      BY <2>2
    <3>3. Rolled(rollup[b], here).sample_count = rollup[b].sample_count + Cardinality(valued)
      <4>1. CASE valued = {}
        <5>1. Rolled(rollup[b], here) = rollup[b] /\ Cardinality(valued) = 0
          BY <4>1, FS_EmptySet DEF Rolled
        <5>2. rollup[b].sample_count \in Nat
          BY DEF IngestTypeOK
        <5> HIDE DEF valued, here
        <5> QED BY <5>1, <5>2
      <4>2. CASE valued # {}
        BY <4>2 DEF Rolled
      <4> QED BY <4>1, <4>2
    <3> HIDE DEF valued, here, Here
    <3> QED BY <3>1, <3>2, <3>3
  <2>5. Counts' = [b \in Bucket |-> IF b \in Outdated THEN Counts[b] ELSE Counts[b] + Cardinality(Here(b))]
    <3> HIDE DEF Here
    <3> QED BY <1>1, <2>4 DEF Counts
  <2>6. CASE new = {}
    <3>1. Accepted' = Accepted
      BY <2>3, <2>6
    <3>2. \A b \in Bucket : Cardinality(Here(b)) = 0 /\ rollup[b].sample_count \in Nat
      <4>1. \A b : Here(b) = {}
        BY <2>6
      <4> HIDE DEF Here
      <4> QED BY <4>1, FS_EmptySet DEF IngestTypeOK
    <3>3. Counts' = Counts
      <4> HIDE DEF Here
      <4> QED BY <2>5, <3>2 DEF Counts
    <3> QED BY <1>1, <3>1, <3>3, LedgerStutters DEF LedgerView
  <2>7. CASE new # {}
    <3>1. new \subseteq Sampled \ Accepted /\ Accepted' = Accepted \cup new
      BY <2>3
    <3>2. UNCHANGED <<Sampled, Acknowledged, Outdated>>
      BY <1>1
    <3> HIDE DEF new
    <3>3. \A S : Ledger!Cardinality(S) = Cardinality(S)
      BY DEF Ledger!Cardinality, Cardinality
    <3>4. Ledger!DeliverRows(new)
      BY <2>5, <2>7, <3>1, <3>2, <3>3 DEF Ledger!DeliverRows
    <3> QED BY <2>2, <3>4
  <2> QED BY <2>6, <2>7
<1> QED BY <1>2, <1>3 DEF IngestBatch

\* A restored backup may forget acknowledgements, but knows of accepted rows only.
LEMMA RestoreIsForget ==
  ASSUME TypeOK, BackupsAreTrue, NEW b \in backups, RestoreStep(b)
  PROVE  Ledger!Forget
<1>1. UNCHANGED <<Sampled, Accepted, Counts, Outdated>>
  BY ViewStays DEF RestoreStep
<1>2. Acknowledged' \subseteq Accepted
  BY DEF RestoreStep, Restore, Acknowledged, BackupsAreTrue
<1> QED BY <1>1, <1>2 DEF Ledger!Forget

\* Retention deletes rollups of retired minutes only.
LEMMA ControlRoomOnLedger ==
  ASSUME ControlRoomStep
  PROVE  UNCHANGED Ledger!ledgerVars
<1>1. UNCHANGED <<telemetryVars, outbox, accepted>>
  BY DEF ControlRoomStep, outboxVars, GoSilent, RunRetention
<1>2. UNCHANGED <<Sampled, Accepted, Acknowledged, Outdated>>
  BY <1>1 DEF telemetryVars, Sampled, Accepted, Acknowledged, Outdated, BucketBefore
<1>3. \A b \in Bucket \ Outdated : rollup'[b] = rollup[b]
  BY DEF ControlRoomStep, GoSilent, RunRetention, Outdated
<1>4. Counts' = Counts
  BY <1>2, <1>3 DEF Counts
<1> QED BY <1>2, <1>4, LedgerStutters DEF LedgerView

\* When a day ends minutes may retire.
LEMMA DayEndIsRetire ==
  ASSUME TypeOK, DayEnds
  PROVE  (\E minutes \in SUBSET Bucket : Ledger!Retire(minutes)) \/ UNCHANGED Ledger!ledgerVars
<1> USE DEF TypeOK
<1>1. NextDay /\ UNCHANGED <<sampledAt, outbox, ingestVars>>
  BY DEF DayEnds, OutboxNextDay, NextDay
<1>2. UNCHANGED <<Sampled, Accepted, Acknowledged>>
  BY <1>1 DEF Sampled, Accepted, Acknowledged, ingestVars
<1>3. Outdated \subseteq Outdated' /\ Outdated' \subseteq Bucket
  BY <1>1, BucketsEnd, IngestAssumption DEF Outdated
<1> DEFINE minutes == Outdated' \ Outdated
<1>4. Counts' = [b \in Bucket |-> IF b \in minutes THEN 0 ELSE Counts[b]]
  BY <1>1, <1>3 DEF Counts, ingestVars
<1>5. CASE minutes = {}
  <2>1. Outdated' = Outdated
    BY <1>3, <1>5
  <2>2. Counts' = Counts
    BY <1>1, <2>1 DEF Counts, ingestVars
  <2> QED BY <1>2, <2>1, <2>2, LedgerStutters DEF LedgerView
<1>6. CASE minutes # {}
  <2>1. Ledger!Retire(minutes)
    BY <1>2, <1>3, <1>4, <1>6 DEF Ledger!Retire
  <2> QED BY <1>3, <2>1
<1> QED BY <1>5, <1>6

\* Every step of the pipeline is a step of the ledger, or none.
LEMMA StepSimulation ==
  ASSUME RetriesWithinWindow
  PROVE  TypeOK /\ IInv /\ [Next]_syncVars => [Ledger!LedgerNext]_(Ledger!ledgerVars)
<1> SUFFICES ASSUME TypeOK, IInv, [Next]_syncVars
             PROVE  Ledger!LedgerNext \/ UNCHANGED Ledger!ledgerVars
  OBVIOUS
<1>0. /\ OnlySampledTravel /\ DedupInv /\ AnswersAreTrue /\ BackupsAreTrue /\ SentWasAccepted
      /\ DeliverableIsRetriable
  BY DEF IInv, DeliveryInv
<1>1. ASSUME NEW r \in Row, SampleStep(r) PROVE Ledger!LedgerNext
  BY <1>0, <1>1, SampleIsRecord DEF Ledger!LedgerNext
<1>2. CASE EdgeStep
  BY <1>0, <1>2, EdgeStepOnLedger DEF Ledger!LedgerNext
<1>3. ASSUME NEW c \in Caller, Serve(c)
      PROVE  Ledger!LedgerNext \/ UNCHANGED Ledger!ledgerVars
  <2>1. call[c].rows \in SUBSET Sampled /\ \A r \in call[c].rows : Retriable(r)
    BY <1>0 DEF OnlySampledTravel, DeliverableIsRetriable
  <2>2. UNCHANGED <<telemetryVars, outbox>> /\ IngestBatch(call[c].rows, call[c].report)
    BY <1>3 DEF Serve, CallAnswered
  <2> QED BY <1>0, <2>1, <2>2, BatchIsDelivery DEF Ledger!LedgerNext
<1>4. ASSUME NEW q \in strays, ServeStray(q)
      PROVE  Ledger!LedgerNext \/ UNCHANGED Ledger!ledgerVars
  <2>1. q.rows \in SUBSET Sampled /\ \A r \in q.rows : Retriable(r)
    BY <1>0 DEF OnlySampledTravel, DeliverableIsRetriable
  <2>2. UNCHANGED <<telemetryVars, outbox>> /\ IngestBatch(q.rows, q.report)
    BY <1>4 DEF ServeStray, outboxVars
  <2> QED BY <1>0, <2>1, <2>2, BatchIsDelivery DEF Ledger!LedgerNext
<1>5. CASE UNCHANGED <<telemetryVars, ingestVars, outbox>>
  <2>1. Acknowledged' = Acknowledged
    BY <1>5 DEF Acknowledged
  <2> QED BY <1>5, <2>1, ViewStays, LedgerStutters DEF LedgerView
<1>6. ASSUME NEW b \in backups, RestoreStep(b) PROVE Ledger!LedgerNext
  BY <1>0, <1>6, RestoreIsForget DEF Ledger!LedgerNext
<1>7. CASE ControlRoomStep
  BY <1>7, ControlRoomOnLedger
<1>8. CASE DayEnds
  BY <1>8, DayEndIsRetire DEF Ledger!LedgerNext
<1> QED BY <1>1, <1>2, <1>3, <1>4, <1>5, <1>6, <1>7, <1>8
      DEF Next, GiveUp, CallFailed, CrashStep, Crash, syncVars, outboxVars

(***************************************************************************)
(* Edge, network and Control Room implement the ledger: every row is       *)
(* delivered at most once and counted when it is, and acknowledged only    *)
(* afterwards, as long as retries stay within the window of the markers.   *)
(***************************************************************************)
THEOREM PipelineImplementsLedger ==
  ASSUME RetriesWithinWindow
  PROVE  Spec => ImplementsLedger
<1>1. Init => Ledger!LedgerInit
  <2> SUFFICES ASSUME Init PROVE Ledger!LedgerInit
    OBVIOUS
  <2>1. /\ sampledAt = [r \in Row |-> Never] /\ accepted = [r \in Row |-> 0]
        /\ outbox = [r \in Row |-> "absent"] /\ rollup = [b \in Bucket |-> NoRollup]
    BY DEF Init, TelemetryInit, OutboxInit, IngestInit
  <2>2. Sampled = {} /\ Accepted = {} /\ Acknowledged = {}
    BY <2>1 DEF Sampled, Accepted, Acknowledged
  <2>3. Outdated = {}
    BY <2>2 DEF Outdated, BucketBefore
  <2>4. Counts = [b \in Bucket |-> 0]
    BY <2>1, <2>3 DEF Counts, NoRollup
  <2> QED BY <2>2, <2>3, <2>4 DEF Ledger!LedgerInit
<1>2. TypeOK /\ IInv /\ [Next]_syncVars => [Ledger!LedgerNext]_(Ledger!ledgerVars)
  BY StepSimulation
<1> QED BY <1>1, <1>2, TypeCorrect, DeliveryInvariant, PTL DEF Spec, ImplementsLedger, Ledger!LedgerSpec

=============================================================================

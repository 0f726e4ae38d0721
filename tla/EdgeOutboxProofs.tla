-------------------------- MODULE EdgeOutboxProofs --------------------------
(* Theorems about EdgeOutbox, and the typing lemmas its users rely on.     *)
EXTENDS EdgeOutbox, TLAPS, FiniteSetTheorems

\* A backlog is a number of rows.
LEMMA BacklogIsBounded ==
  ASSUME NEW S \in SUBSET Row
  PROVE  Cardinality(S) \in 0..MaxRow
<1>1. IsFiniteSet(Row) /\ Cardinality(Row) = MaxRow
  BY BoundsAssumption, FS_Interval DEF Row
<1>2. Cardinality(S) \in Nat /\ Cardinality(S) <= Cardinality(Row)
  BY <1>1, FS_Subset, FS_CardinalityType
<1> QED BY <1>1, <1>2, BoundsAssumption

LEMMA ReportType == CurrentReport \in Report
<1>1. Cardinality(Pending) \in 0..MaxRow
  BY BacklogIsBounded DEF Pending
<1> QED BY <1>1 DEF CurrentReport, Report

LEMMA RestingCallType ==
  \A c \in Caller : {Idle, Dead, Raised(c)} \subseteq [phase : Phase, rows : SUBSET Row, report : Report]
<1>1. NoReport \in Report
  BY BoundsAssumption DEF NoReport, Report
<1> QED BY <1>1 DEF Idle, Dead, Raised, Phase

-----------------------------------------------------------------------------
(* Typing.                                                                 *)

\* The steps of a run of sync_once.
LEMMA CallStepType ==
  ASSUME TelemetryTypeOK, OutboxTypeOK, NEW c \in Caller,
         \/ Collect(c) \/ CollectRaises(c) \/ CallAnswered(c) \/ CallFailed(c)
         \/ RecordSent(c) \/ RecordFailed(c) \/ RecordRaises(c)
  PROVE  OutboxTypeOK'
<1> DEFINE CallRec == [phase : Phase, rows : SUBSET Row, report : Report]
<1>1. Idle \in CallRec /\ Raised(c) \in CallRec
  BY RestingCallType
<1>2. \A rows : PutOff(rows) \in [Row -> Attempt]
  BY DEF PutOff, OutboxTypeOK, Attempt
<1>3. call[c] \in CallRec
  BY DEF OutboxTypeOK
<1>4. CASE Collect(c)
  <2> DEFINE posted == [phase |-> "posting", rows |-> Selected \ PoisonRow, report |-> CurrentReport]
  <2>1. posted \in CallRec
    BY ReportType DEF Phase, Selected, Due, Pending
  <2>2. call' \in [Caller -> CallRec]
    BY <1>4, <2>1 DEF Collect, OutboxTypeOK
  <2> QED BY <1>2, <1>4, <2>2 DEF Collect, OutboxTypeOK
<1>5. CASE CollectRaises(c)
  BY <1>1, <1>2, <1>5, OutboxAssumption DEF CollectRaises, OutboxTypeOK
<1>6. CASE CallAnswered(c)
  <2>1. [call[c] EXCEPT !.phase = "answered"] \in CallRec
    BY <1>3 DEF Phase
  <2>2. call' \in [Caller -> CallRec]
    BY <1>6, <2>1 DEF CallAnswered, OutboxTypeOK
  <2> QED BY <1>6, <2>2 DEF CallAnswered, OutboxTypeOK
<1>7. CASE CallFailed(c)
  <2>1. [call[c] EXCEPT !.phase = "failed"] \in CallRec
    BY <1>3 DEF Phase
  <2>2. call' \in [Caller -> CallRec]
    BY <1>7, <2>1 DEF CallFailed, OutboxTypeOK
  <2> QED BY <1>7, <2>2, OutboxAssumption DEF CallFailed, OutboxTypeOK
<1>8. CASE RecordSent(c)
  <2>1. outbox' \in [Row -> RowState] /\ sentAt' \in [Row -> -1..MaxDay]
    BY <1>8 DEF RecordSent, OutboxTypeOK, TelemetryTypeOK, RowState, Found
  <2> QED BY <1>1, <1>8, <2>1 DEF RecordSent, OutboxTypeOK, Found
<1>9. CASE RecordFailed(c)
  <2>1. nextAttempt' \in [Row -> Attempt]
    BY <1>9 DEF RecordFailed, OutboxTypeOK, Attempt, Found
  <2> QED BY <1>1, <1>9, <2>1 DEF RecordFailed, OutboxTypeOK
<1>10. CASE RecordRaises(c)
  BY <1>1, <1>10, OutboxAssumption DEF RecordRaises, OutboxTypeOK
<1> QED BY <1>4, <1>5, <1>6, <1>7, <1>8, <1>9, <1>10

\* The other steps of the Edge.
LEMMA EdgeStepType ==
  ASSUME TelemetryTypeOK, OutboxTypeOK,
         \/ \E r \in Row : QueueRow(r) \/ RetryDue(r)
         \/ \E d \in Device : ChangeDevice(d)
         \/ PurgeSent \/ TakeBackup \/ OutboxNextDay \/ Crash
         \/ \E b \in backups : Restore(b)
  PROVE  OutboxTypeOK'
<1> DEFINE CallRec == [phase : Phase, rows : SUBSET Row, report : Report]
<1>1. \A c \in Caller : Idle \in CallRec
  BY RestingCallType
<1>2. ASSUME NEW r \in Row, QueueRow(r) \/ RetryDue(r)
      PROVE  OutboxTypeOK'
  BY <1>2 DEF QueueRow, RetryDue, OutboxTypeOK, RowState, Attempt
<1>3. ASSUME NEW d \in Device, ChangeDevice(d)
      PROVE  OutboxTypeOK'
  BY <1>3 DEF ChangeDevice, OutboxTypeOK, DeviceState
<1>4. CASE PurgeSent
  <2>1. outbox' \in [Row -> RowState] /\ sentAt' \in [Row -> -1..MaxDay]
    BY <1>4, BoundsAssumption DEF PurgeSent, OutboxTypeOK, RowState, Never
  <2> QED BY <1>4, <2>1 DEF PurgeSent, OutboxTypeOK
<1>5. CASE TakeBackup
  BY <1>5 DEF TakeBackup, OutboxTypeOK, Snapshot
<1>6. CASE OutboxNextDay
  BY <1>6 DEF OutboxNextDay, OutboxTypeOK, Attempt
<1>7. CASE Crash
  BY <1>1, <1>7, OutboxAssumption DEF Crash, OutboxTypeOK
<1>8. ASSUME NEW b \in backups, Restore(b)
      PROVE  OutboxTypeOK'
  <2>1. b \in Snapshot
    BY DEF OutboxTypeOK
  <2>2. outbox' \in [Row -> RowState]
    BY <1>8, <2>1 DEF Restore, Snapshot, RowState
  <2> QED BY <1>1, <1>8, <2>1, <2>2, OutboxAssumption DEF Restore, OutboxTypeOK, Snapshot
<1> QED BY <1>2, <1>3, <1>4, <1>5, <1>6, <1>7, <1>8

LEMMA OutboxInitType == TelemetryInit /\ OutboxInit => TelemetryTypeOK /\ OutboxTypeOK
<1>1. \A c \in Caller : Idle \in [phase : Phase, rows : SUBSET Row, report : Report]
  BY RestingCallType
<1> QED
  BY <1>1, BoundsAssumption, OutboxAssumption
  DEF TelemetryInit, OutboxInit, TelemetryTypeOK, OutboxTypeOK, RowState, Attempt, DeviceState, Never

LEMMA OutboxNextType ==
  TelemetryTypeOK /\ OutboxTypeOK /\ [OutboxNext]_allOutboxVars => TelemetryTypeOK' /\ OutboxTypeOK'
<1> SUFFICES ASSUME TelemetryTypeOK, OutboxTypeOK, [OutboxNext]_allOutboxVars
             PROVE  TelemetryTypeOK' /\ OutboxTypeOK'
  OBVIOUS
<1>1. CASE \E r \in Row : QueueRow(r)
  <2>1. TelemetryTypeOK'
    BY <1>1, BoundsAssumption DEF QueueRow, Sample, TelemetryTypeOK
  <2> QED BY <1>1, <2>1, EdgeStepType
<1>2. CASE OutboxNextDay
  <2>1. TelemetryTypeOK'
    BY <1>2, BoundsAssumption DEF OutboxNextDay, NextDay, TelemetryTypeOK
  <2> QED BY <1>2, <2>1, EdgeStepType
<1>3. CASE OutboxStep /\ UNCHANGED telemetryVars
  <2>1. TelemetryTypeOK'
    BY <1>3 DEF telemetryVars, TelemetryTypeOK
  <2>2. OutboxTypeOK'
    BY <1>3, CallStepType, EdgeStepType DEF OutboxStep, OutboxReply
  <2> QED BY <2>1, <2>2
<1>4. CASE UNCHANGED allOutboxVars
  BY <1>4 DEF allOutboxVars, telemetryVars, outboxVars, TelemetryTypeOK, OutboxTypeOK
<1> QED BY <1>1, <1>2, <1>3, <1>4 DEF OutboxNext

(***************************************************************************)
(* The type invariant of the outbox.                                       *)
(***************************************************************************)
THEOREM OutboxTypeCorrect == OutboxSpec => [](TelemetryTypeOK /\ OutboxTypeOK)
BY OutboxInitType, OutboxNextType, PTL DEF OutboxSpec, OutboxStart

-----------------------------------------------------------------------------
(***************************************************************************)
(* A pending row leaves the outbox only by a 2xx answer to a run that      *)
(* carried it, or by a restore.                                            *)
(***************************************************************************)
THEOREM PendingIsNeverDropped == OutboxSpec => PendingIsKept
<1> DEFINE Kept == \A r \in Pending : outbox'[r] # "pending" =>
                     \/ \E c \in Caller : call[c].phase = "answered" /\ r \in call[c].rows
                     \/ \E b \in backups : Restore(b)
<1>1. OutboxTypeOK /\ [OutboxNext]_allOutboxVars => [Kept]_allOutboxVars
  <2> SUFFICES ASSUME OutboxTypeOK, OutboxNext, NEW r \in Pending, outbox'[r] # "pending"
               PROVE  \/ \E c \in Caller : call[c].phase = "answered" /\ r \in call[c].rows
                      \/ \E b \in backups : Restore(b)
    OBVIOUS
  <2>1. r \in Row /\ outbox[r] = "pending"
    BY DEF Pending
  <2>2. ASSUME NEW q \in Row, QueueRow(q)
        PROVE  FALSE
    BY <2>1, <2>2 DEF QueueRow, OutboxTypeOK
  <2>3. CASE OutboxNextDay
    BY <2>1, <2>3 DEF OutboxNextDay
  <2>4. CASE OutboxStep
    <3>1. ASSUME NEW c \in Caller, RecordSent(c)
          PROVE  call[c].phase = "answered" /\ r \in call[c].rows
      BY <2>1, <3>1 DEF RecordSent, Found
    <3>2. CASE PurgeSent
      BY <2>1, <3>2 DEF PurgeSent
    <3>3. outbox' = outbox \/ PurgeSent \/ (\E c \in Caller : RecordSent(c))
            \/ (\E b \in backups : Restore(b))
      BY <2>4 DEF OutboxStep, ChangeDevice, Collect, CollectRaises, OutboxReply, CallAnswered,
                  CallFailed, RecordFailed, RecordRaises, RetryDue, TakeBackup, Crash
    <3> QED BY <2>1, <3>1, <3>2, <3>3
  <2> QED BY <2>2, <2>3, <2>4 DEF OutboxNext
<1> QED BY <1>1, OutboxTypeCorrect, PTL DEF OutboxSpec, OutboxStart, PendingIsKept

=============================================================================

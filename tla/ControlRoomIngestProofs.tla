----------------------- MODULE ControlRoomIngestProofs -----------------------
(* Theorems about ControlRoomIngest, and the lemmas its users rely on.     *)
EXTENDS ControlRoomIngest, FiniteSums

LEMMA RowsAreFinite ==
  ASSUME NEW S \in SUBSET Row
  PROVE  IsFiniteSet(S) /\ Cardinality(S) \in Nat
<1>1. IsFiniteSet(Row)
  BY BoundsAssumption, FS_Interval DEF Row
<1> QED BY <1>1, FS_Subset, FS_CardinalityType

-----------------------------------------------------------------------------
(* Typing.                                                                 *)

\* A rollup keeps its counts natural, whatever events it absorbs.
LEMMA RolledCounts ==
  ASSUME NEW item, item.sample_count \in Nat, item.good_count \in Nat,
         NEW rows \in SUBSET Row
  PROVE  Rolled(item, rows).sample_count \in Nat /\ Rolled(item, rows).good_count \in Nat
<1> DEFINE valued == {r \in rows : HasValue(r)}
<1>1. Cardinality(valued) \in Nat /\ Cardinality(valued \cap GoodRow) \in Nat
  BY RowsAreFinite
<1>2. CASE valued = {}
  BY <1>2 DEF Rolled
<1>3. CASE valued # {}
  BY <1>1, <1>3 DEF Rolled
<1> QED BY <1>2, <1>3

LEMMA IngestBatchType ==
  ASSUME TelemetryTypeOK, IngestTypeOK, NEW rows \in SUBSET Row, NEW report,
         report.backlog \in Nat, report.devices \subseteq RemoteDeviceId,
         IngestBatch(rows, report)
  PROVE  IngestTypeOK'
<1>1. CASE IngestDuplicate(rows)
  BY <1>1 DEF IngestDuplicate, IngestTypeOK, ingestVars
<1>2. CASE IngestNew(rows, report)
  <2> DEFINE new == {r \in rows : ~EventIngested(r)}
  <2>1. ingestedEvents' \subseteq EventMarker /\ ingestedBatches' \subseteq BatchMarker
    BY <1>2 DEF IngestNew, IngestTypeOK, TelemetryTypeOK, EventMarker, BatchMarker
  <2>2. samples' \in [Row -> Nat] /\ accepted' \in [Row -> Nat] /\ acceptedAt' \in [Row -> -1..MaxDay]
    BY <1>2, BoundsAssumption DEF IngestNew, IngestTypeOK, TelemetryTypeOK
  <2>3. ASSUME NEW b \in Bucket
        PROVE  rollup'[b].sample_count \in Nat /\ rollup'[b].good_count \in Nat
    <3>1. rollup'[b] = Rolled(rollup[b], {r \in new : BucketOf[r] = b})
      BY <1>2 DEF IngestNew, UpdateMinuteRollups
    <3>2. {r \in new : BucketOf[r] = b} \in SUBSET Row
      OBVIOUS
    <3> QED BY <3>1, <3>2, RolledCounts DEF IngestTypeOK
  <2>4. /\ edge' \in [status : {"offline", "online"}, seen : BOOLEAN, backlog : Nat,
                      inventory : SUBSET RemoteDeviceId]
        /\ remoteDevices' \subseteq RemoteDeviceId
    BY <1>2 DEF IngestNew, IngestTypeOK
  <2> QED BY <2>1, <2>2, <2>3, <2>4 DEF IngestTypeOK
<1> QED BY <1>1, <1>2 DEF IngestBatch

LEMMA IngestMaintenanceType ==
  ASSUME TelemetryTypeOK, IngestTypeOK, GoSilent \/ RunRetention
  PROVE  IngestTypeOK'
<1>1. CASE GoSilent
  BY <1>1 DEF GoSilent, IngestTypeOK
<1>2. CASE RunRetention
  <2>1. ASSUME NEW b \in Bucket
        PROVE  rollup'[b].sample_count \in Nat /\ rollup'[b].good_count \in Nat
    BY <1>2 DEF RunRetention, IngestTypeOK, NoRollup
  <2>2. samples' \in [Row -> Nat]
    BY <1>2 DEF RunRetention, IngestTypeOK
  <2>3. edge' \in [status : {"offline", "online"}, seen : BOOLEAN, backlog : Nat,
                   inventory : SUBSET RemoteDeviceId]
    BY <1>2 DEF RunRetention, IngestTypeOK, EdgeAfterSilence
  <2> QED BY <1>2, <2>1, <2>2, <2>3 DEF RunRetention, IngestTypeOK, EdgeAfterSilence
<1> QED BY <1>1, <1>2

LEMMA TelemetryStepType ==
  ASSUME TelemetryTypeOK, NextDay \/ \E r \in Row : Sample(r)
  PROVE  TelemetryTypeOK'
BY BoundsAssumption DEF TelemetryTypeOK, NextDay, Sample

(***************************************************************************)
(* The type invariant of the Control Room.                                 *)
(***************************************************************************)
THEOREM IngestTypeCorrect == IngestSpec => [](TelemetryTypeOK /\ IngestTypeOK)
<1>1. TelemetryInit /\ IngestInit => TelemetryTypeOK /\ IngestTypeOK
  BY BoundsAssumption DEF TelemetryInit, IngestInit, TelemetryTypeOK, IngestTypeOK, Never, NoRollup
<1>2. TelemetryTypeOK /\ IngestTypeOK /\ [IngestNext]_allIngestVars
        => TelemetryTypeOK' /\ IngestTypeOK'
  <2> SUFFICES ASSUME TelemetryTypeOK, IngestTypeOK, [IngestNext]_allIngestVars
               PROVE  TelemetryTypeOK' /\ IngestTypeOK'
    OBVIOUS
  <2>1. CASE (NextDay \/ \E r \in Row : Sample(r)) /\ UNCHANGED ingestVars
    <3>1. TelemetryTypeOK'
      BY <2>1, TelemetryStepType
    <3>2. IngestTypeOK'
      BY <2>1 DEF IngestTypeOK, ingestVars
    <3> QED BY <3>1, <3>2
  <2>2. CASE UNCHANGED telemetryVars /\ Deliver
    <3>1. PICK rows \in (SUBSET Sampled) \ {{}}, shown \in SUBSET RemoteDeviceId :
                 IngestBatch(rows, [backlog |-> 0, devices |-> shown])
      BY <2>2 DEF Deliver
    <3>2. rows \in SUBSET Row
      BY <3>1 DEF Sampled
    <3>3. IngestTypeOK'
      BY <3>1, <3>2, IngestBatchType
    <3> QED BY <2>2, <3>3 DEF TelemetryTypeOK, telemetryVars
  <2>3. CASE UNCHANGED telemetryVars /\ (GoSilent \/ RunRetention)
    BY <2>3, IngestMaintenanceType DEF TelemetryTypeOK, telemetryVars
  <2>4. CASE UNCHANGED allIngestVars
    BY <2>4 DEF TelemetryTypeOK, IngestTypeOK, allIngestVars, telemetryVars, ingestVars
  <2> QED BY <2>1, <2>2, <2>3, <2>4 DEF IngestNext
<1> QED BY <1>1, <1>2, PTL DEF IngestSpec, IngestStart

-----------------------------------------------------------------------------
(* Deduplication.                                                          *)

\* Acceptances are never undone or redated, and are dated with the day.
AcceptedGrows ==
  \A r \in Row :
    /\ accepted[r] > 0 => accepted'[r] > 0 /\ acceptedAt'[r] = acceptedAt[r]
    /\ accepted[r] = 0 /\ accepted'[r] > 0 => acceptedAt'[r] = day

\* A row that may be delivered and has no marker was never accepted.
LEMMA UnmarkedIsNew ==
  ASSUME TelemetryTypeOK, IngestTypeOK, DedupInv, RetriesWithinWindow,
         NEW r \in Row, Retriable(r), ~EventIngested(r)
  PROVE  accepted[r] = 0 /\ acceptedAt[r] = Never
<1>1. accepted[r] \in Nat /\ acceptedAt[r] \in Int /\ day \in Int
  BY DEF IngestTypeOK, TelemetryTypeOK
<1>2. CASE accepted[r] > 0
  <2>1. day <= acceptedAt[r] + MaxRetryLag
    BY <1>2 DEF Retriable
  <2>2. acceptedAt[r] + RetentionDays < day
    BY <1>2 DEF DedupInv, MarkersLast, Accepted
  <2> QED BY <1>1, <2>1, <2>2, IngestAssumption DEF RetriesWithinWindow
<1>3. CASE accepted[r] = 0
  BY <1>1, <1>3 DEF DedupInv, AcceptanceIsDated
<1> QED BY <1>1, <1>2, <1>3

(***************************************************************************)
(* A batch of retriable rows preserves the deduplication invariant, and    *)
(* afterwards all its rows are accepted.                                   *)
(***************************************************************************)
LEMMA IngestBatchDedups ==
  ASSUME TelemetryTypeOK, IngestTypeOK, DedupInv, RetriesWithinWindow,
         NEW rows \in SUBSET Row, NEW report,
         \A r \in rows : Retriable(r),
         IngestBatch(rows, report), day' = day
  PROVE  DedupInv' /\ AcceptedGrows /\ rows \subseteq Accepted'
<1>1. CASE IngestDuplicate(rows)
  <2>1. rows \subseteq Accepted
    BY <1>1 DEF IngestDuplicate, BatchAlreadyIngested, DedupInv, BatchMarkerCovers
  <2>2. DedupInv' /\ Accepted' = Accepted
    BY <1>1 DEF IngestDuplicate, ingestVars, DedupInv, MarkersAreSound, AcceptanceIsDated,
                MarkersLast, BatchMarkerCovers, AtMostOnce, EventIngested, Accepted
  <2>3. AcceptedGrows
    BY <1>1 DEF IngestDuplicate, ingestVars, AcceptedGrows
  <2> QED BY <2>1, <2>2, <2>3
<1>2. CASE IngestNew(rows, report)
  <2> DEFINE new == {r \in rows : ~EventIngested(r)}
  <2>1. \A r \in Row : accepted[r] \in Nat /\ acceptedAt[r] \in Int /\ day \in Int
    BY DEF IngestTypeOK, TelemetryTypeOK
  <2>2. \A r \in new : r \in Row /\ accepted[r] = 0 /\ acceptedAt[r] = Never
    BY UnmarkedIsNew
  <2>3. \A r \in Row : accepted'[r] = (IF r \in new THEN 1 ELSE accepted[r])
    BY <1>2, <2>2 DEF IngestNew
  <2>4. \A r \in Row : acceptedAt'[r] = (IF r \in new THEN day ELSE acceptedAt[r])
    BY <1>2, <2>2 DEF IngestNew
  <2>5. ingestedEvents' = ingestedEvents \cup {[id |-> r, at |-> day] : r \in new}
    BY <1>2 DEF IngestNew
  <2>6. AcceptedGrows
    BY <2>1, <2>2, <2>3, <2>4 DEF AcceptedGrows
  <2>7. rows \subseteq Accepted'
    <3> SUFFICES ASSUME NEW r \in rows PROVE accepted'[r] > 0
      BY DEF Accepted
    <3>1. CASE r \in new
      BY <3>1, <2>3
    <3>2. CASE r \notin new
      BY <3>2, <2>3 DEF EventIngested, DedupInv, MarkersAreSound
    <3> QED BY <3>1, <3>2
  <2>8. MarkersAreSound'
    <3> SUFFICES ASSUME NEW m \in ingestedEvents'
                 PROVE  accepted'[m.id] > 0 /\ acceptedAt'[m.id] <= m.at
      BY DEF MarkersAreSound
    <3>1. CASE m \in ingestedEvents
      <4>1. m.id \in Row /\ accepted[m.id] > 0 /\ acceptedAt[m.id] <= m.at
        BY <3>1 DEF DedupInv, MarkersAreSound, IngestTypeOK, EventMarker
      <4> QED BY <4>1, <2>6 DEF AcceptedGrows
    <3>2. CASE \E r \in new : m = [id |-> r, at |-> day]
      BY <3>2, <2>1, <2>3, <2>4
    <3> QED BY <2>5, <3>1, <3>2
  <2>9. AcceptanceIsDated'
    <3>1. day # Never
      BY DEF TelemetryTypeOK, Never
    <3> QED BY <2>1, <2>3, <2>4, <3>1 DEF DedupInv, AcceptanceIsDated
  <2>10. MarkersLast'
    <3> SUFFICES ASSUME NEW r \in Row, accepted'[r] > 0
                 PROVE  (EventIngested(r) \/ acceptedAt[r] + RetentionDays < day)'
      BY DEF MarkersLast, Accepted
    <3>1. CASE r \in new
      <4>1. [id |-> r, at |-> day] \in ingestedEvents'
        BY <3>1, <2>5
      <4> QED BY <4>1 DEF EventIngested
    <3>2. CASE r \notin new
      BY <3>2, <2>3, <2>4, <2>5 DEF DedupInv, MarkersLast, Accepted, EventIngested
    <3> QED BY <3>1, <3>2
  <2>11. BatchMarkerCovers'
    <3> SUFFICES ASSUME NEW m \in ingestedBatches', NEW r \in m.id
                 PROVE  r \in Accepted'
      BY DEF BatchMarkerCovers
    <3>1. CASE m \in ingestedBatches
      BY <3>1, <2>6 DEF DedupInv, BatchMarkerCovers, Accepted, AcceptedGrows
    <3>2. CASE m.id = rows
      BY <3>2, <2>7
    <3> QED BY <1>2, <3>1, <3>2 DEF IngestNew
  <2>12. AtMostOnce'
    BY <2>3 DEF DedupInv, AtMostOnce
  <2> QED BY <2>6, <2>7, <2>8, <2>9, <2>10, <2>11, <2>12 DEF DedupInv
<1> QED BY <1>1, <1>2 DEF IngestBatch

\* Silence and retention preserve it: an expired marker was older than the window.
LEMMA MaintenanceDedups ==
  ASSUME TelemetryTypeOK, IngestTypeOK, DedupInv, GoSilent \/ RunRetention, day' = day
  PROVE  DedupInv' /\ AcceptedGrows /\ Accepted' = Accepted
<1>1. UNCHANGED <<accepted, acceptedAt>>
  BY DEF GoSilent, RunRetention
<1>2. ingestedEvents' \subseteq ingestedEvents /\ ingestedBatches' \subseteq ingestedBatches
  BY DEF GoSilent, RunRetention
<1>3. Accepted' = Accepted /\ AcceptedGrows
  BY <1>1 DEF Accepted, AcceptedGrows
<1>4. MarkersLast'
  <2> SUFFICES ASSUME NEW r \in Accepted
               PROVE  EventIngested(r)' \/ acceptedAt[r] + RetentionDays < day
    BY <1>1, <1>3 DEF MarkersLast
  <2>1. r \in Row /\ acceptedAt[r] \in Int /\ day \in Int
    BY DEF Accepted, IngestTypeOK, TelemetryTypeOK
  <2>2. CASE ~EventIngested(r)
    BY <2>2 DEF DedupInv, MarkersLast
  <2>3. ASSUME NEW m \in ingestedEvents, m.id = r
        PROVE  m \in ingestedEvents' \/ acceptedAt[r] + RetentionDays < day
    <3>1. m.at \in Int /\ acceptedAt[r] <= m.at
      BY <2>3 DEF DedupInv, MarkersAreSound, IngestTypeOK, EventMarker
    <3>2. m \in ingestedEvents' \/ m.at < day - RetentionDays
      BY DEF GoSilent, RunRetention, Expired
    <3> QED BY <2>1, <3>1, <3>2, IngestAssumption
  <2> QED BY <2>2, <2>3 DEF EventIngested
<1> QED
  BY <1>1, <1>2, <1>3, <1>4 DEF DedupInv, MarkersAreSound, AcceptanceIsDated, BatchMarkerCovers, AtMostOnce

\* Nothing but the passing of days leaves it as it is.
LEMMA IngestStays ==
  ASSUME TelemetryTypeOK, IngestTypeOK, DedupInv, UNCHANGED ingestVars, day' = day \/ NextDay
  PROVE  DedupInv' /\ AcceptedGrows
<1>1. Accepted' = Accepted /\ \A r \in Row : EventIngested(r)' = EventIngested(r)
  BY DEF ingestVars, Accepted, EventIngested
<1>2. MarkersLast'
  BY <1>1, IngestAssumption DEF MarkersLast, DedupInv, ingestVars, NextDay, TelemetryTypeOK, IngestTypeOK, Accepted
<1> QED
  BY <1>1, <1>2 DEF DedupInv, MarkersAreSound, AcceptanceIsDated, BatchMarkerCovers, AtMostOnce,
                    AcceptedGrows, ingestVars

(***************************************************************************)
(* Every row is accepted at most once, and a batch marker covers only      *)
(* accepted rows, provided retries stay within the retention window of the *)
(* markers.                                                                *)
(***************************************************************************)
THEOREM IngestDedups ==
  ASSUME RetriesWithinWindow
  PROVE  IngestSpec => []DedupInv
<1>1. TelemetryInit /\ IngestInit => DedupInv
  BY DEF TelemetryInit, IngestInit, DedupInv, MarkersAreSound, AcceptanceIsDated, MarkersLast,
         BatchMarkerCovers, AtMostOnce, Accepted
<1>2. TelemetryTypeOK /\ IngestTypeOK /\ DedupInv /\ [IngestNext]_allIngestVars => DedupInv'
  <2> SUFFICES ASSUME TelemetryTypeOK, IngestTypeOK, DedupInv, [IngestNext]_allIngestVars
               PROVE  DedupInv'
    OBVIOUS
  <2>1. CASE UNCHANGED ingestVars /\ (day' = day \/ NextDay)
    BY <2>1, IngestStays
  <2>2. CASE UNCHANGED telemetryVars /\ Deliver
    <3>1. PICK rows \in (SUBSET Sampled) \ {{}}, shown \in SUBSET RemoteDeviceId :
                 /\ \A r \in rows : Retriable(r)
                 /\ IngestBatch(rows, [backlog |-> 0, devices |-> shown])
      BY <2>2 DEF Deliver
    <3>2. rows \in SUBSET Row /\ day' = day
      BY <2>2 DEF Sampled, telemetryVars
    <3> QED BY <3>1, <3>2, IngestBatchDedups
  <2>3. CASE UNCHANGED telemetryVars /\ (GoSilent \/ RunRetention)
    BY <2>3, MaintenanceDedups DEF telemetryVars
  <2> QED BY <2>1, <2>2, <2>3 DEF IngestNext, Sample, allIngestVars, telemetryVars
<1> QED BY <1>1, <1>2, IngestTypeCorrect, PTL DEF IngestSpec, IngestStart

-----------------------------------------------------------------------------
(* Raw samples: no assumption on retries is needed.                        *)

(***************************************************************************)
(* A raw sample is never stored twice, even when a row is delivered again  *)
(* after its marker expired: the sample expired before it.                 *)
(***************************************************************************)
THEOREM RawSamplesAreUnique == IngestSpec => []RawSampleUnique
<1>1. TelemetryInit /\ IngestInit => RawInv
  BY DEF TelemetryInit, IngestInit, RawInv, SamplesAreMarked, SampledInThePast, RawSampleUnique, Never
<1>2. TelemetryTypeOK /\ IngestTypeOK /\ RawInv /\ [IngestNext]_allIngestVars => RawInv'
  <2> SUFFICES ASSUME TelemetryTypeOK, IngestTypeOK, RawInv, [IngestNext]_allIngestVars
               PROVE  RawInv'
    OBVIOUS
  <2> USE DEF RawInv
  <2>1. \A r \in Row : samples[r] \in Nat /\ sampledAt[r] \in Int /\ day \in Int
    BY DEF IngestTypeOK, TelemetryTypeOK
  <2>2. CASE UNCHANGED ingestVars /\ NextDay
    BY <2>1, <2>2 DEF ingestVars, NextDay, SamplesAreMarked, SampledInThePast, RawSampleUnique, Sampled
  <2>3. ASSUME NEW q \in Row, Sample(q), UNCHANGED ingestVars
        PROVE  RawInv'
    <3>1. \A r \in Row : sampledAt'[r] = (IF r = q THEN day ELSE sampledAt[r]) /\ day' = day
      BY <2>3 DEF Sample, TelemetryTypeOK
    <3>2. day # Never
      BY DEF TelemetryTypeOK, Never
    <3>3. \A r \in Row : samples[r] > 0 => r # q
      BY <2>3 DEF SamplesAreMarked, Sampled, Sample
    <3>4. SamplesAreMarked'
      BY <2>3, <3>1, <3>2, <3>3 DEF SamplesAreMarked, Sampled, ingestVars
    <3>5. SampledInThePast'
      BY <2>1, <3>1 DEF SampledInThePast
    <3>6. RawSampleUnique'
      BY <2>3 DEF RawSampleUnique, ingestVars
    <3> QED BY <3>4, <3>5, <3>6
  <2>4. CASE UNCHANGED telemetryVars /\ Deliver
    <3>1. PICK rows \in (SUBSET Sampled) \ {{}}, shown \in SUBSET RemoteDeviceId :
                 IngestBatch(rows, [backlog |-> 0, devices |-> shown])
      BY <2>4 DEF Deliver
    <3>2. UNCHANGED <<day, sampledAt>> /\ Sampled' = Sampled
      BY <2>4 DEF telemetryVars, Sampled
    <3>3. CASE IngestDuplicate(rows)
      BY <3>2, <3>3 DEF IngestDuplicate, ingestVars, SamplesAreMarked, SampledInThePast, RawSampleUnique
    <3>4. CASE IngestNew(rows, [backlog |-> 0, devices |-> shown])
      <4> DEFINE new == {r \in rows : ~EventIngested(r)}
      <4>1. \A r \in new : r \in Row /\ samples[r] = 0
        BY <2>1 DEF Sampled, SamplesAreMarked, EventIngested
      <4>2. \A r \in Row : samples'[r] = (IF r \in new THEN 1 ELSE samples[r])
        BY <3>4, <4>1 DEF IngestNew
      <4>3. ingestedEvents' = ingestedEvents \cup {[id |-> r, at |-> day] : r \in new}
        BY <3>4 DEF IngestNew
      <4>4. SamplesAreMarked'
        <5> SUFFICES ASSUME NEW r \in Row, samples'[r] > 0
                     PROVE  /\ r \in Sampled
                            /\ \E m \in ingestedEvents' : m.id = r /\ sampledAt[r] <= m.at
          BY <3>2 DEF SamplesAreMarked
        <5>1. CASE r \in new
          <6>1. [id |-> r, at |-> day] \in ingestedEvents' /\ sampledAt[r] <= day
            BY <5>1, <4>3 DEF SampledInThePast
          <6> QED BY <6>1, <5>1
        <5>2. CASE r \notin new
          BY <5>2, <4>2, <4>3 DEF SamplesAreMarked
        <5> QED BY <5>1, <5>2
      <4> QED BY <3>2, <4>2, <4>4 DEF SampledInThePast, RawSampleUnique
    <3> QED BY <3>1, <3>3, <3>4 DEF IngestBatch
  <2>5. CASE UNCHANGED telemetryVars /\ GoSilent
    BY <2>5 DEF telemetryVars, GoSilent, SamplesAreMarked, SampledInThePast, RawSampleUnique, Sampled
  <2>6. CASE UNCHANGED telemetryVars /\ RunRetention
    <3>1. UNCHANGED <<day, sampledAt>> /\ Sampled' = Sampled
      BY <2>6 DEF telemetryVars, Sampled
    <3>2. \A r \in Row : samples'[r] > 0 => /\ samples'[r] = samples[r]
                                             /\ ~(sampledAt[r] # Never /\ sampledAt[r] < day - RetentionDays)
      BY <2>1, <2>6 DEF RunRetention, Expired
    <3>3. ingestedEvents' = {m \in ingestedEvents : ~(m.at < day - RetentionDays)}
      BY <2>6 DEF RunRetention, Expired
    <3>4. SamplesAreMarked'
      <4> SUFFICES ASSUME NEW r \in Row, samples'[r] > 0
                   PROVE  /\ r \in Sampled
                          /\ \E m \in ingestedEvents' : m.id = r /\ sampledAt[r] <= m.at
        BY <3>1 DEF SamplesAreMarked
      <4>1. r \in Sampled /\ ~(sampledAt[r] < day - RetentionDays)
        BY <3>2 DEF SamplesAreMarked, Sampled
      <4>2. PICK m \in ingestedEvents : m.id = r /\ sampledAt[r] <= m.at
        BY <3>2 DEF SamplesAreMarked
      <4>3. m.at \in Int
        BY DEF IngestTypeOK, EventMarker
      <4>4. ~(m.at < day - RetentionDays)
        BY <2>1, <4>1, <4>2, <4>3, IngestAssumption
      <4> QED BY <3>3, <4>1, <4>2, <4>4
    <3>5. RawSampleUnique'
      BY <2>1, <2>6 DEF RunRetention, RawSampleUnique
    <3> QED BY <3>1, <3>4, <3>5 DEF SampledInThePast
  <2>7. CASE UNCHANGED allIngestVars
    BY <2>7 DEF allIngestVars, telemetryVars, ingestVars, SamplesAreMarked, SampledInThePast, RawSampleUnique, Sampled
  <2> QED BY <2>2, <2>3, <2>4, <2>5, <2>6, <2>7 DEF IngestNext
<1> QED BY <1>1, <1>2, IngestTypeCorrect, PTL DEF IngestSpec, IngestStart, RawInv

-----------------------------------------------------------------------------
(* Rollups.                                                                *)

LEMMA TotalIsSum == \A rows : TotalOf(rows) = SumOf(ValueOf, rows)
BY DEF TotalOf, MapThenSumSet, MapThenFoldSet, SumOf, Sums, First

LEMMA ValuesAreFinite ==
  ASSUME NEW rows \in SUBSET Row, \A r \in rows : HasValue(r)
  PROVE  /\ ValuesOf(rows) \in SUBSET Int /\ IsFiniteSet(ValuesOf(rows))
         /\ rows # {} => ValuesOf(rows) # {}
<1>1. \A r \in rows : ValueOf[r] \in Int
  BY PayloadAssumption DEF HasValue
<1>2. IsFiniteSet(ValuesOf(rows))
  <2>1. IsFiniteSet(rows)
    BY RowsAreFinite
  <2> DEFINE f == [r \in rows |-> ValueOf[r]]
  <2>2. f \in Surjection(rows, ValuesOf(rows))
    BY DEF Surjection, ValuesOf
  <2> HIDE DEF f
  <2> QED BY <2>1, <2>2, FS_Surjection
<1> QED BY <1>1, <1>2 DEF ValuesOf

(***************************************************************************)
(* A rollup that summarises some rows summarises, after a batch of other   *)
(* rows of its minute, both.                                               *)
(***************************************************************************)
LEMMA RolledSummarises ==
  ASSUME NEW counted \in SUBSET Row, \A r \in counted : HasValue(r),
         NEW fresh \in SUBSET Row, fresh \cap counted = {},
         NEW item, Summarises(item, counted), counted = {} => item.minimum = NoValue
  PROVE  Summarises(Rolled(item, fresh), counted \cup {r \in fresh : HasValue(r)})
<1> DEFINE valued == {r \in fresh : HasValue(r)}
           all == counted \cup valued
<1>1. CASE valued = {}
  <2>1. Rolled(item, fresh) = item /\ all = counted
    BY <1>1 DEF Rolled
  <2> QED BY <2>1
<1>2. CASE valued # {}
  <2> DEFINE known == IF item.minimum = NoValue THEN {} ELSE {item.minimum, item.maximum}
             values == known \cup ValuesOf(valued)
             new == Rolled(item, fresh)
  <2>1. /\ new.sample_count = item.sample_count + Cardinality(valued)
        /\ new.good_count = item.good_count + Cardinality(valued \cap GoodRow)
        /\ new.minimum = Min(values) /\ new.maximum = Max(values)
        /\ new.total = item.total + TotalOf(valued)
        /\ new.last_value = ValueOf[Max(valued)]
    BY <1>2 DEF Rolled
  <2>2. /\ valued \in SUBSET Row /\ counted \cap valued = {}
        /\ \A r \in all : HasValue(r) /\ ValueOf[r] \in Int
    BY PayloadAssumption DEF HasValue
  <2> HIDE DEF valued, new
  <2>3. Cardinality(all) = Cardinality(counted) + Cardinality(valued)
    <3>1. IsFiniteSet(counted) /\ IsFiniteSet(valued)
      BY <2>2, RowsAreFinite
    <3> QED BY <2>2, <3>1, SizeOfUnion
  <2>4. Cardinality(all \cap GoodRow) = Cardinality(counted \cap GoodRow) + Cardinality(valued \cap GoodRow)
    <3> DEFINE A == counted \cap GoodRow
               B == valued \cap GoodRow
    <3>1. /\ A \in SUBSET Row /\ B \in SUBSET Row /\ A \cap B = {} /\ all \cap GoodRow = A \cup B
      BY <2>2
    <3> HIDE DEF A, B
    <3>2. IsFiniteSet(A) /\ IsFiniteSet(B)
      BY <3>1, RowsAreFinite
    <3>3. Cardinality(A \cup B) = Cardinality(A) + Cardinality(B)
      BY <3>1, <3>2, SizeOfUnion
    <3> QED BY <3>1, <3>3 DEF A, B
  <2>5. TotalOf(all) = TotalOf(counted) + TotalOf(valued)
    <3>1. IsFiniteSet(counted) /\ IsFiniteSet(valued)
      BY <2>2, RowsAreFinite
    <3> QED BY <2>2, <3>1, TotalIsSum, SumOfUnion
  <2>6. ValuesOf(all) = ValuesOf(counted) \cup ValuesOf(valued)
    BY DEF ValuesOf
  <2>7. /\ ValuesOf(counted) \in SUBSET Int /\ IsFiniteSet(ValuesOf(counted))
        /\ ValuesOf(valued) \in SUBSET Int /\ IsFiniteSet(ValuesOf(valued))
        /\ counted # {} => ValuesOf(counted) # {}
    BY <2>2, ValuesAreFinite
  <2>8. Min(values) = Min(ValuesOf(all)) /\ Max(values) = Max(ValuesOf(all))
    <3>1. CASE counted = {}
      <4>1. ValuesOf(counted) = {} /\ known = {}
        BY <3>1 DEF ValuesOf
      <4>2. values = ValuesOf(all)
        BY <2>6, <4>1
      <4> QED BY <4>2
    <3>2. CASE counted # {}
      <4> DEFINE S == ValuesOf(counted)
      <4>1. item.minimum = Min(S) /\ item.maximum = Max(S) /\ Min(S) \in Int
        BY <3>2, <2>7, MinAndMax DEF Summarises
      <4>2. known = {Min(S), Max(S)}
        BY <4>1, PayloadAssumption
      <4>3. S \in SUBSET Int /\ IsFiniteSet(S) /\ S # {}
        BY <2>7, <3>2
      <4>4. values = {Min(S), Max(S)} \cup ValuesOf(valued) /\ ValuesOf(all) = S \cup ValuesOf(valued)
        BY <2>6, <4>2
      <4> HIDE DEF S, values, all
      <4> QED BY <2>7, <4>3, <4>4, MinAndMaxOfUnion
    <3> QED BY <3>1, <3>2
  <2>9. ValueOf[Max(valued)] \in ValuesOf(all)
    <3>1. valued \in SUBSET Int /\ IsFiniteSet(valued)
      BY <2>2, RowsAreFinite DEF Row
    <3>2. Max(valued) \in valued
      BY <1>2, <3>1, MinAndMax
    <3> QED BY <3>2 DEF ValuesOf
  <2>10. Summarises(new, all)
    BY <2>1, <2>3, <2>4, <2>5, <2>8, <2>9 DEF Summarises
  <2> QED BY <2>10 DEF new, valued
<1> QED BY <1>1, <1>2

\* A minute that is over stays over.
LEMMA BucketsEnd ==
  ASSUME TelemetryTypeOK, NEW window \in Nat, NEW b,
         [NextDay \/ \E r \in Row : Sample(r)]_telemetryVars
  PROVE  BucketBefore(b, day - window) => BucketBefore(b, day - window)'
<1>1. \A r \in Row : sampledAt[r] # Never => sampledAt'[r] = sampledAt[r]
  BY DEF TelemetryTypeOK, NextDay, Sample, telemetryVars
<1>2. day \in Int /\ day' \in Int /\ day' >= day /\ \A r \in Row : sampledAt[r] \in Int
  BY DEF TelemetryTypeOK, NextDay, Sample, telemetryVars
<1> QED BY <1>1, <1>2 DEF BucketBefore, Sampled

\* What the Control Room has accepted and stored is not touched.
LEMMA RollupsStay ==
  ASSUME TelemetryTypeOK, RollupInv, UNCHANGED <<accepted, rollup>>,
         [NextDay \/ \E r \in Row : Sample(r)]_telemetryVars
  PROVE  RollupInv'
<1>1. \A b : CountedIn(b)' = CountedIn(b)
  BY DEF CountedIn, Accepted
<1>2. ASSUME NEW b \in Bucket, ~BucketBefore(b, day - RollupRetention)'
      PROVE  ~BucketBefore(b, day - RollupRetention)
  BY <1>2, BucketsEnd, IngestAssumption
<1>3. \A b \in Bucket : Summarises(rollup[b], CountedIn(b))' = Summarises(rollup[b], CountedIn(b))
  BY <1>1 DEF Summarises
<1> QED BY <1>1, <1>2, <1>3 DEF RollupInv, RollupIsExact, UncountedIsEmpty

\* A batch adds to every rollup the rows that it makes accepted.
LEMMA BatchKeepsRollups ==
  ASSUME TelemetryTypeOK, IngestTypeOK, DedupInv, RetriesWithinWindow, RollupInv,
         NEW rows \in SUBSET Row, NEW report,
         \A r \in rows : Retriable(r),
         IngestBatch(rows, report), UNCHANGED telemetryVars
  PROVE  RollupInv'
<1>1. CASE IngestDuplicate(rows)
  BY <1>1, RollupsStay DEF IngestDuplicate, ingestVars
<1>2. CASE IngestNew(rows, report)
  <2> DEFINE new == {r \in rows : ~EventIngested(r)}
  <2>1. \A r \in new : r \in Row /\ accepted[r] = 0
    BY UnmarkedIsNew
  <2>2. Accepted' = Accepted \cup new /\ Accepted \cap new = {}
    <3>1. \A r \in Row : accepted'[r] = (IF r \in new THEN 1 ELSE accepted[r])
      BY <1>2, <2>1 DEF IngestNew
    <3> QED BY <2>1, <3>1 DEF Accepted
  <2>3. ASSUME NEW b \in Bucket, ~BucketBefore(b, day - RollupRetention)'
        PROVE  /\ Summarises(rollup[b], CountedIn(b))'
               /\ CountedIn(b)' = {} => rollup'[b].minimum = NoValue
    <3> DEFINE here == {r \in new : BucketOf[r] = b}
    <3>1. ~BucketBefore(b, day - RollupRetention)
      BY <2>3 DEF BucketBefore, Sampled, telemetryVars
    <3>2. Summarises(rollup[b], CountedIn(b)) /\ (CountedIn(b) = {} => rollup[b].minimum = NoValue)
      BY <3>1 DEF RollupInv, RollupIsExact, UncountedIsEmpty
    <3>3. rollup'[b] = Rolled(rollup[b], here)
      BY <1>2 DEF IngestNew, UpdateMinuteRollups
    <3>4. CountedIn(b)' = CountedIn(b) \cup {r \in here : HasValue(r)}
      BY <2>2 DEF CountedIn
    <3>5. /\ CountedIn(b) \in SUBSET Row /\ \A r \in CountedIn(b) : HasValue(r)
          /\ here \in SUBSET Row /\ here \cap CountedIn(b) = {}
      BY <2>1, <2>2 DEF CountedIn, Accepted
    <3>6. Summarises(rollup'[b], CountedIn(b)')
      <4> HIDE DEF here
      <4> QED BY <3>2, <3>3, <3>4, <3>5, RolledSummarises
    <3>7. CountedIn(b)' = {} => rollup'[b] = rollup[b] /\ CountedIn(b) = {}
      BY <3>3, <3>4 DEF Rolled
    <3> QED BY <3>2, <3>6, <3>7 DEF Summarises
  <2> QED BY <2>3 DEF RollupInv, RollupIsExact, UncountedIsEmpty
<1> QED BY <1>1, <1>2 DEF IngestBatch

\* Retention deletes rollups of minutes that are over only.
LEMMA MaintenanceKeepsRollups ==
  ASSUME RollupInv, GoSilent \/ RunRetention, UNCHANGED telemetryVars
  PROVE  RollupInv'
<1>1. /\ \A b : CountedIn(b)' = CountedIn(b)
      /\ \A b : BucketBefore(b, day - RollupRetention)' = BucketBefore(b, day - RollupRetention)
  BY DEF GoSilent, RunRetention, CountedIn, Accepted, BucketBefore, Sampled, telemetryVars
<1>2. \A b \in Bucket : ~BucketBefore(b, day - RollupRetention) => rollup'[b] = rollup[b]
  BY DEF GoSilent, RunRetention
<1> QED BY <1>1, <1>2 DEF RollupInv, RollupIsExact, UncountedIsEmpty, Summarises

LEMMA RollupsStart == IngestInit => RollupInv
<1> SUFFICES ASSUME IngestInit PROVE RollupInv
  OBVIOUS
<1>1. \A b \in Bucket : CountedIn(b) = {} /\ rollup[b] = NoRollup
  BY DEF IngestInit, CountedIn, Accepted
<1>2. Summarises(NoRollup, {})
  <2>1. TotalOf({}) = 0 /\ Cardinality({}) = 0 /\ {} \cap GoodRow = {}
    BY TotalIsSum, SumOfNothing, FS_EmptySet
  <2> QED BY <2>1 DEF Summarises, NoRollup
<1>3. \A b \in Bucket : Summarises(rollup[b], CountedIn(b))
  <2> TAKE b \in Bucket
  <2>1. CountedIn(b) = {} /\ rollup[b] = NoRollup
    BY <1>1
  <2> QED BY <1>2, <2>1
<1>4. \A b \in Bucket : rollup[b].minimum = NoValue
  BY <1>1 DEF NoRollup
<1> QED BY <1>3, <1>4 DEF RollupInv, RollupIsExact, UncountedIsEmpty

(***************************************************************************)
(* The rollup of every minute that is retained is the summary - count,     *)
(* good count, minimum, maximum, total, a last value - of the distinct     *)
(* rows accepted for it, however they were batched, repeated and           *)
(* reordered, as long as retries stay within the window of the markers.    *)
(***************************************************************************)
THEOREM RollupsAreExact ==
  ASSUME RetriesWithinWindow
  PROVE  IngestSpec => []RollupIsExact
<1>1. IngestStart => RollupInv
  BY RollupsStart DEF IngestStart
<1>2. TelemetryTypeOK /\ IngestTypeOK /\ DedupInv /\ RollupInv /\ [IngestNext]_allIngestVars => RollupInv'
  <2> SUFFICES ASSUME TelemetryTypeOK, IngestTypeOK, DedupInv, RollupInv, [IngestNext]_allIngestVars
               PROVE  RollupInv'
    OBVIOUS
  <2>1. CASE UNCHANGED ingestVars /\ [NextDay \/ \E r \in Row : Sample(r)]_telemetryVars
    BY <2>1, RollupsStay DEF ingestVars
  <2>2. CASE UNCHANGED telemetryVars /\ Deliver
    <3>1. PICK rows \in (SUBSET Sampled) \ {{}}, shown \in SUBSET RemoteDeviceId :
                 /\ \A r \in rows : Retriable(r)
                 /\ IngestBatch(rows, [backlog |-> 0, devices |-> shown])
      BY <2>2 DEF Deliver
    <3>2. rows \in SUBSET Row
      BY <3>1 DEF Sampled
    <3> QED BY <2>2, <3>1, <3>2, BatchKeepsRollups
  <2>3. CASE UNCHANGED telemetryVars /\ (GoSilent \/ RunRetention)
    BY <2>3, MaintenanceKeepsRollups
  <2> QED BY <2>1, <2>2, <2>3 DEF IngestNext, allIngestVars
<1>3. RollupInv => RollupIsExact
  BY DEF RollupInv
<1> QED BY <1>1, <1>2, <1>3, IngestTypeCorrect, IngestDedups, PTL DEF IngestSpec

-----------------------------------------------------------------------------
(* Raw samples and rollups.                                                *)

LEMMA RawCountIsSum ==
  \A b : MapThenSumSet(LAMBDA r : samples[r], {r \in Row : BucketOf[r] = b /\ HasValue(r)})
           = SumOf(samples, {r \in Row : BucketOf[r] = b /\ HasValue(r)})
BY DEF MapThenSumSet, MapThenFoldSet, SumOf, Sums, First

\* Raw samples of accepted rows are there until their retention.
LEMMA RawStaysKept ==
  ASSUME TelemetryTypeOK, IngestTypeOK, RawKeptInv, [IngestNext]_allIngestVars
  PROVE  RawKeptInv'
<1> USE DEF RawKeptInv, RawIsKept, AcceptedWereSampled
<1>1. day \in Int /\ \A r \in Row : sampledAt[r] \in Int /\ accepted[r] \in Nat /\ samples[r] \in Nat
  BY DEF TelemetryTypeOK, IngestTypeOK
<1>2. CASE UNCHANGED ingestVars /\ NextDay
  BY <1>1, <1>2, IngestAssumption DEF ingestVars, NextDay, Expired, Accepted, Sampled
<1>3. ASSUME NEW q \in Row, Sample(q), UNCHANGED ingestVars
      PROVE  RawKeptInv'
  <2>1. \A r \in Row : sampledAt'[r] = (IF r = q THEN day ELSE sampledAt[r]) /\ day' = day
    BY <1>3 DEF Sample, TelemetryTypeOK
  <2>2. day # Never /\ sampledAt[q] = Never
    BY <1>3 DEF TelemetryTypeOK, Never, Sample
  <2> QED BY <1>3, <2>1, <2>2 DEF ingestVars, Expired, Accepted, Sampled
<1>4. CASE UNCHANGED telemetryVars /\ Deliver
  <2>1. PICK rows \in (SUBSET Sampled) \ {{}}, shown \in SUBSET RemoteDeviceId :
               IngestBatch(rows, [backlog |-> 0, devices |-> shown])
    BY <1>4 DEF Deliver
  <2>2. CASE IngestDuplicate(rows)
    BY <1>4, <2>2 DEF IngestDuplicate, ingestVars, telemetryVars, Expired, Accepted, Sampled
  <2>3. CASE IngestNew(rows, [backlog |-> 0, devices |-> shown])
    <3> DEFINE new == {r \in rows : ~EventIngested(r)}
    <3>1. \A r \in Row : /\ samples'[r] = (IF r \in new THEN samples[r] + 1 ELSE samples[r])
                         /\ accepted'[r] = (IF r \in new THEN accepted[r] + 1 ELSE accepted[r])
      BY <2>3 DEF IngestNew
    <3>2. RawIsKept'
      BY <1>4, <3>1 DEF telemetryVars, Expired
    <3>3. new \subseteq Sampled /\ Sampled' = Sampled
      BY <1>4 DEF telemetryVars, Sampled
    <3>4. AcceptedWereSampled'
      BY <3>1, <3>3 DEF Accepted
    <3> QED BY <3>2, <3>4
  <2> QED BY <2>1, <2>2, <2>3 DEF IngestBatch
<1>5. CASE UNCHANGED telemetryVars /\ (GoSilent \/ RunRetention)
  <2>1. accepted' = accepted
    BY <1>5 DEF GoSilent, RunRetention
  <2>2. \A r \in Row : sampledAt[r] = Never \/ ~Expired(sampledAt[r], RetentionDays) => samples'[r] = samples[r]
    BY <1>5 DEF GoSilent, RunRetention
  <2> QED BY <1>5, <2>1, <2>2 DEF telemetryVars, Expired, Accepted, Sampled
<1>6. CASE UNCHANGED allIngestVars
  BY <1>6 DEF allIngestVars, ingestVars, telemetryVars, Expired, Accepted, Sampled
<1> QED BY <1>2, <1>3, <1>4, <1>5, <1>6 DEF IngestNext

\* Exact rollups and kept samples tell the same.
LEMMA KeptRawAgrees ==
  ASSUME TelemetryTypeOK, IngestTypeOK, AtMostOnce, RollupIsExact, RawKeptInv
  PROVE  RawAndRollupAgree
<1> SUFFICES ASSUME NEW b \in Bucket,
                    ~BucketBefore(b, day - RetentionDays), ~BucketBefore(b, day - RollupRetention)
             PROVE  rollup[b].sample_count = SumOf(samples, {r \in Row : BucketOf[r] = b /\ HasValue(r)})
  BY RawCountIsSum DEF RawAndRollupAgree
<1> DEFINE here == {r \in Row : BucketOf[r] = b /\ HasValue(r)}
<1>1. \A r \in here : samples[r] = accepted[r] /\ accepted[r] \in {0, 1}
  <2> SUFFICES ASSUME NEW r \in here PROVE samples[r] = accepted[r] /\ accepted[r] \in {0, 1}
    OBVIOUS
  <2>1. accepted[r] \in {0, 1}
    BY DEF AtMostOnce, IngestTypeOK
  <2>2. sampledAt[r] = Never \/ ~Expired(sampledAt[r], RetentionDays)
    BY DEF BucketBefore, Sampled, Expired
  <2> QED BY <2>1, <2>2 DEF RawKeptInv, RawIsKept
<1>2. {r \in here : samples[r] = 1} = CountedIn(b)
  <2>1. \A r \in here : samples[r] = 1 <=> accepted[r] > 0
    BY <1>1
  <2> QED BY <2>1 DEF CountedIn, Accepted
<1>3. SumOf(samples, here) = Cardinality({r \in here : samples[r] = 1})
  <2>1. IsFiniteSet(here) /\ \A r \in here : samples[r] \in {0, 1}
    BY <1>1, RowsAreFinite
  <2> HIDE DEF here
  <2> QED BY <2>1, SumOfOnes
<1>4. rollup[b].sample_count = Cardinality(CountedIn(b))
  BY DEF RollupIsExact, Summarises
<1> QED BY <1>2, <1>3, <1>4

(***************************************************************************)
(* As long as both are retained, the raw samples of a minute and its       *)
(* rollup tell the same number of samples.                                 *)
(***************************************************************************)
THEOREM RawAndRollupsAgree ==
  ASSUME RetriesWithinWindow
  PROVE  IngestSpec => []RawAndRollupAgree
<1>1. IngestStart => RawKeptInv
  BY DEF IngestStart, IngestInit, RawKeptInv, RawIsKept, AcceptedWereSampled, Accepted
<1>2. TelemetryTypeOK /\ IngestTypeOK /\ RawKeptInv /\ [IngestNext]_allIngestVars => RawKeptInv'
  BY RawStaysKept
<1>3. TelemetryTypeOK /\ IngestTypeOK /\ DedupInv /\ RollupIsExact /\ RawKeptInv => RawAndRollupAgree
  BY KeptRawAgrees DEF DedupInv
<1> QED BY <1>1, <1>2, <1>3, IngestTypeCorrect, IngestDedups, RollupsAreExact, PTL DEF IngestSpec

=============================================================================

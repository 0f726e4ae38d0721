------------------------- MODULE ControlRoomIngest -------------------------
(***************************************************************************)
(* The Control Room's side of the synchronisation: the ingest_batch        *)
(* handler with its two levels of deduplication, the per-minute rollups,   *)
(* the fleet state of one Edge and the retention of all of these.          *)
(*                                                                         *)
(* ingest_batch does not wait for anything between reading the body and    *)
(* committing, and runs on the event loop, so a batch is one step.  The    *)
(* requests the handler refuses (size, signature, schema, token) change    *)
(* nothing; to the Edge they are failed requests.                          *)
(***************************************************************************)
EXTENDS Telemetry, FiniteSetsExt

CONSTANTS
  Bucket,           \* the minutes of the rollups
  RemoteDeviceId,   \* the devices an Edge may report
  RetentionDays,    \* control_raw_retention_days
  MaxRetryLag,      \* environment: no accepted row is delivered again later than this
  RollupRetention   \* rollup_retention_days

ASSUME IngestAssumption ==
  /\ \A r \in Row : BucketOf[r] \in Bucket
  /\ RetentionDays \in Nat /\ RollupRetention \in Nat /\ MaxRetryLag \in Nat

VARIABLES
  ingestedEvents,   \* IngestedEvent: the markers of the events
  ingestedBatches,  \* IngestedBatch: the markers of the batches
  samples,          \* TelemetrySample: how many copies of each row are stored
  rollup,           \* TelemetryRollup, per minute
  edge,             \* the Edge record
  remoteDevices,    \* RemoteDevice: the devices known of the Edge
  accepted,         \* history: how often each row was stored and counted
  acceptedAt        \* history: the day each row was first accepted, or Never

ingestVars == <<ingestedEvents, ingestedBatches, samples, rollup, edge,
                remoteDevices, accepted, acceptedAt>>

NoRollup == [sample_count |-> 0, good_count |-> 0, minimum |-> NoValue,
             maximum |-> NoValue, total |-> 0, last_value |-> NoValue]

IngestInit ==
  /\ ingestedEvents = {} /\ ingestedBatches = {}
  /\ samples = [r \in Row |-> 0]
  /\ rollup = [b \in Bucket |-> NoRollup]
  /\ edge = [status |-> "offline", seen |-> FALSE, backlog |-> 0, inventory |-> {}]
  /\ remoteDevices = {}
  /\ accepted = [r \in Row |-> 0]
  /\ acceptedAt = [r \in Row |-> Never]

\* The day is the received_at of the marker.
EventMarker == [id : Row, at : 0..MaxDay]

\* The batch_id is a hash of the row ids, so the set of rows stands for it.
BatchMarker == [id : SUBSET Row, at : 0..MaxDay]

\* The types of the Control Room's tables.
IngestTypeOK ==
  /\ ingestedEvents \subseteq EventMarker
  /\ ingestedBatches \subseteq BatchMarker
  /\ samples \in [Row -> Nat]
  /\ \A b \in Bucket : rollup[b].sample_count \in Nat /\ rollup[b].good_count \in Nat
  /\ edge \in [status : {"offline", "online"}, seen : BOOLEAN, backlog : Nat,
              inventory : SUBSET RemoteDeviceId]
  /\ remoteDevices \subseteq RemoteDeviceId
  /\ accepted \in [Row -> Nat]
  /\ acceptedAt \in [Row -> -1..MaxDay]

-----------------------------------------------------------------------------
(* The rollups.                                                            *)

HasValue(r) == ValueOf[r] # NoValue

ValuesOf(rows) == {ValueOf[r] : r \in rows}

TotalOf(rows) == MapThenSumSet(LAMBDA r : ValueOf[r], rows)

\* Mutant: the minimum of the batch replaces the minimum of the minute.
RolledAfresh(item, rows) ==
  LET valued == {r \in rows : HasValue(r)}
  IN  IF valued = {} THEN item
      ELSE [sample_count |-> item.sample_count + Cardinality(valued),
            good_count   |-> item.good_count + Cardinality(valued \cap GoodRow),
            minimum      |-> Min(ValuesOf(valued)),
            maximum      |-> Max(ValuesOf(valued)),
            total        |-> item.total + TotalOf(valued),
            last_value   |-> ValueOf[Max(valued)]]

(***************************************************************************)
(* update_minute_rollups for one minute.  Only events with a value count;  *)
(* the average is kept as the total it stands for; last_value is that of   *)
(* the last event of this batch.                                           *)
(***************************************************************************)
Rolled(item, rows) ==
  LET valued == {r \in rows : HasValue(r)}
      known  == IF item.minimum = NoValue THEN {} ELSE {item.minimum, item.maximum}
      values == known \cup ValuesOf(valued)
  IN  IF valued = {} THEN item
      ELSE [sample_count |-> item.sample_count + Cardinality(valued),
            good_count   |-> item.good_count + Cardinality(valued \cap GoodRow),
            minimum      |-> Min(values),
            maximum      |-> Max(values),
            total        |-> item.total + TotalOf(valued),
            last_value   |-> ValueOf[Max(valued)]]

\* Mutant: the stored rollup of a minute is not looked up.
UpdateWithoutLookup(rows) ==
  rollup' = [b \in Bucket |->
    LET here == {r \in rows : BucketOf[r] = b}
    IN  IF here = {} THEN rollup[b] ELSE Rolled(NoRollup, here)]

UpdateMinuteRollups(rows) ==
  rollup' = [b \in Bucket |-> Rolled(rollup[b], {r \in rows : BucketOf[r] = b})]

-----------------------------------------------------------------------------
(* Ingest.                                                                 *)

\* Mutant: events are not deduplicated, only batches are.
NoEventMarker(r) == FALSE

EventIngested(r) == \E m \in ingestedEvents : m.id = r

\* Mutant: the batch_id is derived from the first row alone.
BatchOfFirstRow(rows) == \E m \in ingestedBatches : Min(m.id) = Min(rows)

BatchAlreadyIngested(rows) == \E m \in ingestedBatches : m.id = rows

(***************************************************************************)
(* A batch whose marker is stored is answered as a duplicate, and nothing  *)
(* changes, not even the time the Edge was last seen.                      *)
(***************************************************************************)
IngestDuplicate(rows) ==
  /\ BatchAlreadyIngested(rows)
  /\ UNCHANGED ingestVars

(***************************************************************************)
(* Any other batch: the events without a marker are stored, marked and     *)
(* counted in the rollups; the reported devices are added or refreshed;    *)
(* the Edge is online with the reported backlog and inventory; the batch   *)
(* is marked.                                                              *)
(***************************************************************************)
IngestNew(rows, report) ==
  LET new == {r \in rows : ~EventIngested(r)} IN
  /\ ~BatchAlreadyIngested(rows)
  /\ samples' = [r \in Row |-> IF r \in new THEN samples[r] + 1 ELSE samples[r]]
  /\ ingestedEvents' = ingestedEvents \cup {[id |-> r, at |-> day] : r \in new}
  /\ UpdateMinuteRollups(new)
  /\ remoteDevices' = remoteDevices \cup report.devices
  /\ edge' = [status |-> "online", seen |-> TRUE,
              backlog |-> report.backlog, inventory |-> report.devices]
  /\ ingestedBatches' = ingestedBatches \cup {[id |-> rows, at |-> day]}
  /\ accepted' = [r \in Row |-> IF r \in new THEN accepted[r] + 1 ELSE accepted[r]]
  /\ acceptedAt' = [r \in Row |-> IF r \in new /\ acceptedAt[r] = Never
                                  THEN day ELSE acceptedAt[r]]

IngestBatch(rows, report) == IngestDuplicate(rows) \/ IngestNew(rows, report)

-----------------------------------------------------------------------------
(* Retention and the state of the fleet.                                   *)

\* Two minutes go by without a new batch from the Edge.
GoSilent ==
  /\ edge.seen
  /\ edge' = [edge EXCEPT !.seen = FALSE]
  /\ UNCHANGED <<ingestedEvents, ingestedBatches, samples, rollup, remoteDevices,
                 accepted, acceptedAt>>

\* The minute of a bucket is over when one of its rows was sampled before the limit.
BucketBefore(b, limit) == \E r \in Sampled : BucketOf[r] = b /\ sampledAt[r] < limit

\* Mutant: the window is one day short.
ExpiredEarly(at, window) == at <= day - window

\* Older than a retention window.
Expired(at, window) == at < day - window

\* Mutant: only an Edge that was just heard of is shown offline.
EdgeKeptOnline == IF edge.status = "online" /\ edge.seen
                  THEN [edge EXCEPT !.status = "offline"] ELSE edge

\* A silent Edge is shown offline.
EdgeAfterSilence == IF edge.status = "online" /\ ~edge.seen
                    THEN [edge EXCEPT !.status = "offline"] ELSE edge

(***************************************************************************)
(* run_retention, in one transaction: raw samples go by sample_at, rollups *)
(* by the start of the minute, markers by received_at.                     *)
(***************************************************************************)
RunRetention ==
  /\ samples' = [r \in Row |-> IF sampledAt[r] # Never /\ Expired(sampledAt[r], RetentionDays)
                               THEN 0 ELSE samples[r]]
  /\ rollup' = [b \in Bucket |-> IF BucketBefore(b, day - RollupRetention)
                                 THEN NoRollup ELSE rollup[b]]
  /\ ingestedBatches' = {m \in ingestedBatches : ~Expired(m.at, RetentionDays)}
  /\ ingestedEvents' = {m \in ingestedEvents : ~Expired(m.at, RetentionDays)}
  /\ edge' = EdgeAfterSilence
  /\ UNCHANGED <<remoteDevices, accepted, acceptedAt>>

-----------------------------------------------------------------------------
(* The Control Room on its own: Edges that deliver any batch of the rows   *)
(* sampled so far, any number of times, in any grouping.                   *)

\* The row was not accepted yet, or is delivered again soon enough.
Retriable(r) == accepted[r] > 0 => day <= acceptedAt[r] + MaxRetryLag

Deliver ==
  \E rows \in (SUBSET Sampled) \ {{}}, shown \in SUBSET RemoteDeviceId :
    /\ \A r \in rows : Retriable(r)
    /\ IngestBatch(rows, [backlog |-> 0, devices |-> shown])

IngestNext ==
  \/ \E r \in Row : Sample(r) /\ UNCHANGED ingestVars
  \/ NextDay /\ UNCHANGED ingestVars
  \/ UNCHANGED telemetryVars /\ (Deliver \/ GoSilent \/ RunRetention)

allIngestVars == <<telemetryVars, ingestVars>>

\* maintenance_loop catches every exception of a cycle, so it goes on for ever.
IngestFairness == WF_allIngestVars(RunRetention /\ UNCHANGED telemetryVars)

IngestStart == TelemetryInit /\ IngestInit

IngestSpec == IngestStart /\ [][IngestNext]_allIngestVars /\ IngestFairness

-----------------------------------------------------------------------------
Accepted == {r \in Row : accepted[r] > 0}

\* The rows a minute must account for.
CountedIn(b) == {r \in Accepted : BucketOf[r] = b /\ HasValue(r)}

\* The item is the summary of these rows.
Summarises(item, counted) ==
  /\ item.sample_count = Cardinality(counted)
  /\ item.good_count = Cardinality(counted \cap GoodRow)
  /\ item.total = TotalOf(counted)
  /\ counted # {} => /\ item.minimum = Min(ValuesOf(counted))
                     /\ item.maximum = Max(ValuesOf(counted))
                     /\ item.last_value \in ValuesOf(counted)

(***************************************************************************)
(* Every row is stored and counted at most once (README.md:153), however   *)
(* often, in whatever batches and in whatever order it is delivered, if no *)
(* accepted row is delivered again after its marker expired.               *)
(***************************************************************************)
AtMostOnce == \A r \in Row : accepted[r] <= 1

(***************************************************************************)
(* The rollup of a minute is exactly the summary of the distinct rows the  *)
(* Control Room accepted for it: count, good count, minimum, maximum and   *)
(* total (hence average), however the rows were grouped into batches,      *)
(* repeated and reordered, until the retention of rollups deletes it       *)
(* (README.md:153: batches and events are deduplicated before samples and  *)
(* per-minute rollups are saved).                                          *)
(***************************************************************************)
RollupIsExact ==
  \A b \in Bucket : ~BucketBefore(b, day - RollupRetention) => Summarises(rollup[b], CountedIn(b))

(***************************************************************************)
(* As long as the raw samples of a minute are retained, they and its       *)
(* rollup tell the same number of samples: the two are written and deleted *)
(* by different statements of different operations.                        *)
(***************************************************************************)
RawAndRollupAgree ==
  \A b \in Bucket :
    ~BucketBefore(b, day - RetentionDays) /\ ~BucketBefore(b, day - RollupRetention) =>
      rollup[b].sample_count =
        MapThenSumSet(LAMBDA r : samples[r], {r \in Row : BucketOf[r] = b /\ HasValue(r)})

(***************************************************************************)
(* A raw sample is never stored twice, whenever its row is delivered       *)
(* again: the marker of an event expires no earlier than its sample,       *)
(* because an event is received after it was sampled and both are deleted  *)
(* by the same window in the same transaction.                             *)
(***************************************************************************)
RawSampleUnique == \A r \in Row : samples[r] <= 1

(***************************************************************************)
(* Answering a repeated batch from its marker alone is sound: every row of *)
(* a marked batch was accepted, by that batch or by an earlier one.        *)
(***************************************************************************)
BatchMarkerCovers == \A m \in ingestedBatches : m.id \subseteq Accepted

(***************************************************************************)
(* An Edge that stays silent is eventually shown offline.                  *)
(***************************************************************************)
SilentEdgeGoesOffline == ~edge.seen ~> (edge.status = "offline" \/ edge.seen)

-----------------------------------------------------------------------------
(* The inductive strengthening of the deduplication invariants.            *)

\* The operational assumption under which the markers suffice.
RetriesWithinWindow == MaxRetryLag <= RetentionDays

\* Only accepted rows are marked, and no marker is older than the acceptance.
MarkersAreSound ==
  \A m \in ingestedEvents : accepted[m.id] > 0 /\ acceptedAt[m.id] <= m.at

\* The day of the first acceptance is known exactly of the accepted rows.
AcceptanceIsDated == \A r \in Row : accepted[r] > 0 <=> acceptedAt[r] # Never

\* A marker disappears only when the retention window has passed.
MarkersLast ==
  \A r \in Accepted : EventIngested(r) \/ acceptedAt[r] + RetentionDays < day

\* A stored raw sample has a marker that is not older than the sample.
SamplesAreMarked ==
  \A r \in Row : samples[r] > 0 =>
    /\ r \in Sampled
    /\ \E m \in ingestedEvents : m.id = r /\ sampledAt[r] <= m.at

SampledInThePast == \A r \in Row : sampledAt[r] <= day

(***************************************************************************)
(* Deduplication is sound: markers tell of accepted rows only, none is     *)
(* missing within its window, and so no row is accepted twice by           *)
(* ingest_batch, whatever run_retention deletes in between.                *)
(***************************************************************************)
DedupInv ==
  MarkersAreSound /\ AcceptanceIsDated /\ MarkersLast /\ BatchMarkerCovers /\ AtMostOnce

\* The inductive form of RawSampleUnique.
RawInv == SamplesAreMarked /\ SampledInThePast /\ RawSampleUnique

\* A minute without a counted row has no minimum yet.
UncountedIsEmpty ==
  \A b \in Bucket : ~BucketBefore(b, day - RollupRetention) /\ CountedIn(b) = {} =>
    rollup[b].minimum = NoValue

\* The inductive form of RollupIsExact.
RollupInv == RollupIsExact /\ UncountedIsEmpty

\* Within its window the raw sample of an accepted row is there.
RawIsKept ==
  \A r \in Row : sampledAt[r] = Never \/ ~Expired(sampledAt[r], RetentionDays) =>
    samples[r] = accepted[r]

\* Only rows that exist are accepted.
AcceptedWereSampled == Accepted \subseteq Sampled

\* With RollupInv, the inductive form of RawAndRollupAgree.
RawKeptInv == RawIsKept /\ AcceptedWereSampled

=============================================================================

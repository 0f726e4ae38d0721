----------------------------- MODULE Telemetry -----------------------------
(***************************************************************************)
(* The telemetry rows that travel from one Edge to its Control Room, and   *)
(* the clock both installations read.                                      *)
(*                                                                         *)
(* A row stands for one SyncOutbox record (models.py, class SyncOutbox)    *)
(* and for the event built from it: the UUID of the record is the event_id *)
(* of the event.  Rows are numbered in creation order, the order of        *)
(* SyncOutbox.created_at.  What a row carries never changes, so its minute *)
(* bucket, value and quality are constants of the model.                   *)
(*                                                                         *)
(* Time is counted in days, the unit of every retention window.  Delays    *)
(* below one day (the 10 s sync period, the 10 s request timeout, the      *)
(* retry backoff of at most 300 s) are steps that may happen at any moment *)
(* of the day.                                                             *)
(***************************************************************************)
EXTENDS Integers, FiniteSets

CONSTANTS
  MaxRow,     \* rows the Edge may create (bounds the model)
  MaxDay,     \* last day of the clock (bounds the model)
  BucketOf,   \* the minute (of one device and measurement) of a row's sample
  ValueOf,    \* the value of a row's sample, or NoValue
  GoodRow,    \* rows whose quality is "good"
  NoValue     \* the sample has no value (value is None)

Row == 1..MaxRow

ASSUME BoundsAssumption == MaxRow \in Nat \ {0} /\ MaxDay \in Nat

ASSUME PayloadAssumption ==
  /\ DOMAIN BucketOf = Row
  /\ ValueOf \in [Row -> Int \cup {NoValue}]
  /\ NoValue \notin Int
  /\ GoodRow \subseteq Row

VARIABLES
  day,        \* the current day
  sampledAt   \* the day a row was sampled (sample_at), or Never

Never == -1

Sampled == {r \in Row : sampledAt[r] # Never}

(***************************************************************************)
(* poll_device stores a sample and queues its outbox row in one            *)
(* transaction.  A poll that yields several rows is several steps here:    *)
(* the sender may see a prefix of them, which only adds behaviours.  Rows  *)
(* of one minute bucket are sampled on the same day.                       *)
(***************************************************************************)
Sample(r) ==
  /\ sampledAt[r] = Never
  /\ \A q \in Row : q < r => sampledAt[q] # Never
  /\ \A q \in Sampled : BucketOf[q] = BucketOf[r] => sampledAt[q] = day
  /\ sampledAt' = [sampledAt EXCEPT ![r] = day]
  /\ day' = day

(***************************************************************************)
(* A day goes by.                                                          *)
(***************************************************************************)
NextDay ==
  /\ day < MaxDay
  /\ day' = day + 1
  /\ sampledAt' = sampledAt

TelemetryInit ==
  /\ day = 0
  /\ sampledAt = [r \in Row |-> Never]

TelemetryTypeOK ==
  /\ day \in 0..MaxDay
  /\ sampledAt \in [Row -> -1..MaxDay]

telemetryVars == <<day, sampledAt>>

=============================================================================

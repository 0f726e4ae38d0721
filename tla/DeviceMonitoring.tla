-------------------------- MODULE DeviceMonitoring --------------------------
(***************************************************************************)
(* The polling of devices and what it does to their rows and alarms: the   *)
(* cycles of polling_loop, polls asked for by hand, the lock of each       *)
(* channel, and the handlers that configure devices while polls are in     *)
(* progress.                                                               *)
(*                                                                         *)
(* poll_device is three steps: it reads the row of the device and queues   *)
(* for the lock of its channel; it exchanges with the device; and, without *)
(* giving up control after the exchange, it reads the row again and stores *)
(* the outcome, unless an exception ends it.  Handlers run in threads; they *)
(* read a row, check it and write it back in two steps.  A channel has a   *)
(* kind that poll_device knows: no other can be configured.                *)
(***************************************************************************)
EXTENDS Alarms, Sequences

CONSTANTS
  Channel,       \* locks: one per direct TCP device, one per shared bus
  DeviceGroups,  \* polling groups the profile of each device has points in
  KeyGroup,      \* the polling group of each measurement
  Period,        \* cycles between two readings of a group (1, 6 and 60)
  CycleLength,   \* a common multiple of the periods, where the counter wraps
  Condition,     \* what devices may answer
  Operation,     \* what handlers may be asked to do
  MaxRequests,   \* handlers in progress (bound)
  MaxRestarts,   \* restarts of the Edge (bound)
  MayRaise       \* whether the database may fail under polling_loop and a poll

PollingGroup == {"fast", "normal", "slow"}

\* A device answers every reading of a group well, with implausible values,
\* or with an error; without a link it does not even accept the connection.
Answer == {"good", "bad", "error"}
DeviceCondition == [link : BOOLEAN, group : [PollingGroup -> Answer]]

ASSUME MonitoringAssumption ==
  /\ Channel # {}
  /\ DeviceGroups \in [Device -> SUBSET PollingGroup]
  /\ KeyGroup \in [Key -> PollingGroup]
  /\ Period \in [PollingGroup -> Nat \ {0}]
  /\ Period["fast"] = 1
  /\ CycleLength \in Nat \ {0}
  /\ \A g \in PollingGroup : CycleLength % Period[g] = 0
  /\ Condition \subseteq DeviceCondition
  /\ Operation \subseteq {"update", "remove", "activate", "deactivate"}
  /\ MaxRequests \in Nat /\ MaxRestarts \in Nat
  /\ MayRaise \in BOOLEAN

VARIABLES
  row,       \* the Device table
  field,     \* the condition of each device
  cycle,     \* _device_cycles
  due,       \* devices selected by polling_loop whose poll has not begun
  queue,     \* polls at the lock of each channel; the first one holds it
  requests,  \* handlers that have read and checked their device
  loop,      \* whether polling_loop runs
  restarts   \* how much of MaxRestarts is used

monitoringVars == <<row, field, cycle, due, queue, requests, loop, restarts>>
vars == <<alarmVars, monitoringVars>>

DeviceStatus == {"absent", "unknown", "online", "degraded", "offline", "removed"}
Row == [status : DeviceStatus, active : BOOLEAN, errors : 0..AlarmAfter, channel : Channel]
Poll == [by : {"loop", "hand"}, device : Device, groups : SUBSET PollingGroup]
Request == [operation : Operation, device : Device, seen : Row, to : Channel]

-----------------------------------------------------------------------------
(* Polling.                                                                *)

Queued(by, d) ==
  \E c \in Channel : \E i \in DOMAIN queue[c] : queue[c][i].by = by /\ queue[c][i].device = d

\* asyncio.gather returns when every poll of the cycle has ended.
CycleEnded == due = {} /\ \A d \in Device : ~Queued("loop", d)

ActiveDevices == {d \in Device : row[d].active}

StartCycle ==
  /\ loop = "running" /\ CycleEnded
  /\ due' = ActiveDevices
  /\ UNCHANGED <<alarmVars, row, field, cycle, queue, requests, loop, restarts>>

\* An exception in the select of polling_loop ends the task.
LoopRaises ==
  /\ MayRaise
  /\ loop = "running" /\ CycleEnded
  /\ loop' = "dead"
  /\ UNCHANGED <<alarmVars, row, field, cycle, due, queue, requests, restarts>>

DueGroups(d) == {g \in DeviceGroups[d] : cycle[d] % Period[g] = 0}

\* Mutant: the lock serves the last one first.
EnqueueFirst(by, d, groups) ==
  queue' = [queue EXCEPT ![row[d].channel] =
              <<[by |-> by, device |-> d, groups |-> groups]>> \o @]

Enqueue(by, d, groups) ==
  queue' = [queue EXCEPT ![row[d].channel] =
              Append(@, [by |-> by, device |-> d, groups |-> groups])]

\* Mutant: a scheduled poll relies on the select of its cycle.
StartSelectedPoll(d) ==
  /\ d \in due
  /\ due' = due \ {d}
  /\ cycle' = [cycle EXCEPT ![d] = (@ + 1) % CycleLength]
  /\ Enqueue("loop", d, DueGroups(d))
  /\ UNCHANGED <<alarmVars, row, field, requests, loop, restarts>>

\* A scheduled poll reads its device again and is skipped if it is not active.
StartScheduledPoll(d) ==
  /\ d \in due
  /\ due' = due \ {d}
  /\ \/ /\ row[d].active
        /\ cycle' = [cycle EXCEPT ![d] = (@ + 1) % CycleLength]
        /\ Enqueue("loop", d, DueGroups(d))
     \/ /\ ~row[d].active
        /\ UNCHANGED <<cycle, queue>>
  /\ UNCHANGED <<alarmVars, row, field, requests, loop, restarts>>

\* manual_poll and the tests of connections; one at a time for each device.
StartManualPoll(d) ==
  /\ row[d].active
  /\ ~Queued("hand", d)
  /\ Enqueue("hand", d, DeviceGroups[d])
  /\ UNCHANGED <<alarmVars, row, field, cycle, due, requests, loop, restarts>>

Failed(poll) ==
  \/ ~field[poll.device].link
  \/ \E g \in poll.groups : field[poll.device].group[g] = "error"

HasBadKeys(poll) ==
  ~Failed(poll) /\ \E g \in poll.groups : field[poll.device].group[g] = "bad"

GoodKeys(poll) ==
  IF Failed(poll) THEN {}
  ELSE {k \in Key : KeyGroup[k] \in poll.groups
                    /\ field[poll.device].group[KeyGroup[k]] = "good"}

\* consecutive_errors, cut off where it makes no difference any more.
OneMore(errors) == IF errors < AlarmAfter THEN errors + 1 ELSE AlarmAfter

StatusAfter(poll) ==
  IF Failed(poll) THEN "offline" ELSE IF HasBadKeys(poll) THEN "degraded" ELSE "online"

\* Mutant: a good poll takes one error back.
RowRecovering(r, poll) ==
  [r EXCEPT !.status = StatusAfter(poll),
            !.errors = IF StatusAfter(poll) = "online" THEN @ - 1 ELSE OneMore(@)]

\* Mutant: a failed exchange is not counted, only bad data is.
RowWithoutFailures(r, poll) ==
  [r EXCEPT !.status = StatusAfter(poll),
            !.errors = IF StatusAfter(poll) = "degraded" THEN OneMore(@) ELSE 0]

RowAfter(r, poll) ==
  [r EXCEPT !.status = StatusAfter(poll),
            !.errors = IF StatusAfter(poll) = "online" THEN 0 ELSE OneMore(@)]

ReportOf(poll, value) ==
  [error |-> Failed(poll), bad |-> HasBadKeys(poll), good |-> GoodKeys(poll),
   errors |-> RowAfter(row[poll.device], poll).errors, value |-> value]

\* The exchange ends, by an answer or a timeout, the lock passes on, and the
\* outcome is stored: the row of the device and its alarms in one transaction.
FinishPoll(c) ==
  /\ queue[c] # <<>>
  /\ queue' = [queue EXCEPT ![c] = Tail(@)]
  /\ LET poll == Head(queue[c]) IN
       /\ row' = [row EXCEPT ![poll.device] = RowAfter(@, poll)]
       /\ \E value \in [Key -> Value] : Evaluate(poll.device, ReportOf(poll, value))
  /\ UNCHANGED <<field, cycle, due, requests, loop, restarts>>

\* Nothing is stored by a poll that ends with an exception outside of its "try" or
\* in its commit; gather keeps the exception away from polling_loop.
PollRaises(c) ==
  /\ MayRaise
  /\ queue[c] # <<>>
  /\ queue' = [queue EXCEPT ![c] = Tail(@)]
  /\ UNCHANGED <<alarmVars, row, field, cycle, due, requests, loop, restarts>>

-----------------------------------------------------------------------------
(* Handlers.                                                               *)

\* create_device and provision_device.
CreateDevice(d, c) ==
  /\ row[d].status = "absent"
  /\ row' = [row EXCEPT ![d] = [status |-> "unknown", active |-> TRUE, errors |-> 0, channel |-> c]]
  /\ UNCHANGED <<alarmVars, field, cycle, due, queue, requests, loop, restarts>>

\* update_device, delete_device and toggle_device find the device and check it; an
\* update may move it to another channel.
ReadDevice(operation, d, c) ==
  /\ row[d].status \notin {"absent", "removed"}
  /\ operation # "update" => c = row[d].channel
  /\ Cardinality(requests) < MaxRequests
  /\ requests' = requests \cup {[operation |-> operation, device |-> d, seen |-> row[d], to |-> c]}
  /\ UNCHANGED <<alarmVars, row, field, cycle, due, queue, loop, restarts>>

Wanted(q) ==
  CASE q.operation = "update"     -> [q.seen EXCEPT !.status = "unknown", !.errors = 0, !.channel = q.to]
    [] q.operation = "remove"     -> [q.seen EXCEPT !.status = "removed", !.active = FALSE]
    [] q.operation = "activate"   -> [q.seen EXCEPT !.active = TRUE]
    [] q.operation = "deactivate" -> [q.seen EXCEPT !.active = FALSE]

\* SQLAlchemy writes only the columns that differ from what it has read.
Flushed(current, seen, wanted) ==
  [column \in DOMAIN current |->
     IF wanted[column] # seen[column] THEN wanted[column] ELSE current[column]]

WriteDevice(q) ==
  /\ q \in requests
  /\ requests' = requests \ {q}
  /\ row' = [row EXCEPT ![q.device] = Flushed(@, q.seen, Wanted(q))]
  /\ IF q.operation = "remove" THEN RemoveRules(q.device) ELSE UNCHANGED alarmVars
  /\ UNCHANGED <<field, cycle, due, queue, loop, restarts>>

-----------------------------------------------------------------------------
(* The plant, and the end and start of the process.                        *)

FieldChanges(d) ==
  /\ \E condition \in Condition \ {field[d]} : field' = [field EXCEPT ![d] = condition]
  /\ UNCHANGED <<alarmVars, row, cycle, due, queue, requests, loop, restarts>>

\* Everything in memory is lost; polling_loop starts with the process.
Restart ==
  /\ restarts < MaxRestarts
  /\ restarts' = restarts + 1
  /\ loop' = "running"
  /\ cycle' = [d \in Device |-> 0]
  /\ due' = {}
  /\ queue' = [c \in Channel |-> <<>>]
  /\ requests' = {}
  /\ ForgetAcks
  /\ UNCHANGED <<row, field>>

-----------------------------------------------------------------------------
MonitoringStart ==
  /\ AlarmsStart
  /\ row = [d \in Device |-> [status |-> "absent", active |-> FALSE, errors |-> 0,
                             channel |-> CHOOSE c \in Channel : TRUE]]
  /\ field \in [Device -> Condition]
  /\ cycle = [d \in Device |-> 0]
  /\ due = {}
  /\ queue = [c \in Channel |-> <<>>]
  /\ requests = {}
  /\ loop = "running"
  /\ restarts = 0

Next ==
  \/ StartCycle \/ LoopRaises
  \/ \E d \in Device : StartScheduledPoll(d) \/ StartManualPoll(d)
  \/ \E c \in Channel : FinishPoll(c) \/ PollRaises(c)
  \/ \E d \in Device, c \in Channel : CreateDevice(d, c)
  \/ \E operation \in Operation, d \in Device, c \in Channel : ReadDevice(operation, d, c)
  \/ \E q \in requests : WriteDevice(q)
  \/ \E d \in Device : FieldChanges(d)
  \/ Restart
  \/ WebStep /\ UNCHANGED monitoringVars

\* polling_loop repeats every 5 seconds; asyncio runs its tasks; every exchange
\* ends because pymodbus has a timeout; asyncio.Lock serves its waiters in order.
Fairness ==
  /\ WF_vars(StartCycle)
  /\ \A d \in Device : WF_vars(StartScheduledPoll(d))
  /\ \A c \in Channel : WF_vars(FinishPoll(c))

Spec == MonitoringStart /\ [][Next]_vars

FairSpec == Spec /\ Fairness

-----------------------------------------------------------------------------
(* Properties.                                                             *)

\* Types of the polling state.
MonitoringTypeOK ==
  /\ AlarmsTypeOK
  /\ row \in [Device -> Row]
  /\ field \in [Device -> Condition]
  /\ cycle \in [Device -> 0..(CycleLength - 1)]
  /\ due \subseteq Device
  /\ queue \in [Channel -> Seq(Poll)]
  /\ requests \subseteq Request
  /\ loop \in {"running", "dead"}
  /\ restarts \in 0..MaxRestarts

HasEvent(d, source) == \E s \in Slot : events[d][source][s] # "closed"

\* A device shown online has no health alarm, whatever handlers, polls by hand
\* and restarts came between the poll that set its status and now.
OnlineHasNoHealthAlarm ==
  \A d \in Device, h \in Health : row[d].status = "online" => ~HasEvent(d, h)

\* Why: without a late acknowledgement a source has one active event at most, so
\* the poll that closes "any" active event leaves none.  Inductive if MaxAcks = 0.
SingleEvent ==
  \A d \in Device, source \in Source, s, t \in Slot :
    events[d][source][s] # "closed" /\ events[d][source][t] # "closed" => s = t

HealthInv == acks = {} /\ SingleEvent /\ OnlineHasNoHealthAlarm

\* An acknowledgement that writes over an event which was closed since it was read.
AcknowledgesLate == \E a \in acks : AcknowledgeWrite(a) /\ events[a.device][a.source][a.slot] = "closed"

\* While polling_loop runs every active device is polled again and again, and
\* no poll waits for ever, however many polls by hand compete for the bus.
EveryActiveDeviceIsPolled ==
  \A d \in Device : /\ []<>(~row[d].active \/ Queued("loop", d))
                    /\ []<>~Queued("loop", d)

Broken(d, g) == g \in DeviceGroups[d] /\ field[d].group[g] = "error"

\* A device that fails in every cycle is reported, even if its alarm is closed
\* by hand: the next poll raises it again.
PersistentFailureIsReported ==
  \A d \in Device : <>[](row[d].active /\ (~field[d].link \/ Broken(d, "fast")))
                      => []<>HasEvent(d, "communication")

\* A device that answers well from now on loses its health alarms, also one
\* that a late acknowledgement made active again.
RecoveryIsReported ==
  \A d \in Device :
    <>[](row[d].active /\ field[d].link /\ \A g \in PollingGroup : field[d].group[g] = "good")
      => <>[](\A h \in Health : ~HasEvent(d, h))

\* "Open system alarms after repeated failures" (docstring of evaluate_device_health),
\* for readings of any polling group.
RepeatedFailureIsReported ==
  \A d \in Device : <>[](row[d].active /\ \E g \in PollingGroup : Broken(d, g))
                      => []<>HasEvent(d, "communication")

\* Nothing that was begun before a device was removed is still in progress for it.
Settled(d) ==
  /\ row[d].status = "removed" /\ ~row[d].active
  /\ \A c \in Channel : \A i \in DOMAIN queue[c] : queue[c][i].device # d
  /\ \A q \in requests : q.device # d

\* A removal is final once the polls and handlers it overtook have ended: no later
\* cycle, poll by hand or handler brings the device back (poll_device and the
\* handlers of devices).
RemovalSettles == [][\A d \in Device : Settled(d) => Settled(d)']_vars

\* A removed device keeps "lo stato removed" (docs/edge-provisioning.md).
RemovedStaysRemoved ==
  [][\A d \in Device : row[d].status = "removed" => row'[d].status = "removed"]_vars
=============================================================================

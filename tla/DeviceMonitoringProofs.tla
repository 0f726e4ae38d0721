----------------------- MODULE DeviceMonitoringProofs -----------------------
(* Theorems about Alarms, and then about DeviceMonitoring, which evaluates *)
(* the alarms with each poll.                                              *)
EXTENDS DeviceMonitoring, FiniteSetTheorems, TLAPS

\* Hysteresis: no value both raises and clears the alarm of a rule, for any
\* limits and deadband that create_alarm_rule accepts.
THEOREM Hysteresis ==
  ASSUME NEW r \in Rule, NEW v \in Int
  PROVE  ~(IsActive(RuleDef[r], v) /\ IsClear(RuleDef[r], v))
<1> DEFINE rule == RuleDef[r]
<1>1. /\ rule.kind \in RuleKind
      /\ rule.threshold \in Int /\ rule.low \in Int /\ rule.high \in Int
      /\ rule.deadband \in Nat
  BY AlarmAssumption
<1>2. CASE rule.kind = "measurement_above"
  BY <1>1, <1>2 DEF IsActive, IsClear
<1>3. CASE rule.kind = "measurement_below"
  BY <1>1, <1>3 DEF IsActive, IsClear
<1>4. CASE rule.kind = "measurement_outside"
  BY <1>1, <1>4 DEF IsActive, IsClear
<1> QED BY <1>1, <1>2, <1>3, <1>4 DEF RuleKind

-----------------------------------------------------------------------------
(* One poll.                                                               *)

\* The events of one source after a poll.
LEMMA EventsAfterCases ==
  ASSUME AlarmsTypeOK, NEW d \in Device, NEW source \in Source, NEW report,
         NEW s \in Located(d, source)
  PROVE  LET old == events[d][source]
             new == EventsAfter(d, source, report, s)
         IN  /\ s \in Slot
             /\ new \in [Slot -> Status]
             /\ \/ new = old
                \/ /\ \A t \in Slot : old[t] = "closed"
                   /\ new = [old EXCEPT ![s] = "open"]
                \/ /\ old[s] # "closed"
                   /\ new = [old EXCEPT ![s] = "closed"]
                   /\ Clears(source, d, report)
<1> DEFINE old == events[d][source]
           new == EventsAfter(d, source, report, s)
<1>1. old \in [Slot -> Status]
  BY DEF AlarmsTypeOK
<1>2. s \in Slot
  BY DEF Located, ActiveSlots, FreeSlots
<1>3. CASE ActiveSlots(d, source) = {} /\ Raises(source, d, report)
  <2>1. new = [old EXCEPT ![s] = "open"]
    BY <1>3 DEF EventsAfter
  <2>2. \A t \in Slot : old[t] = "closed"
    BY <1>3 DEF ActiveSlots
  <2> QED BY <1>1, <1>2, <2>1, <2>2 DEF Status
<1>4. CASE ActiveSlots(d, source) # {} /\ Clears(source, d, report)
  <2>1. new = [old EXCEPT ![s] = "closed"]
    BY <1>4 DEF EventsAfter
  <2>2. old[s] # "closed"
    BY <1>4 DEF Located, ActiveSlots
  <2> QED BY <1>1, <1>2, <1>4, <2>1, <2>2 DEF Status
<1>5. CASE /\ ~(ActiveSlots(d, source) = {} /\ Raises(source, d, report))
           /\ ~(ActiveSlots(d, source) # {} /\ Clears(source, d, report))
  <2>1. new = old
    BY <1>5 DEF EventsAfter
  <2> QED BY <1>1, <1>2, <2>1
<1> QED BY <1>3, <1>4, <1>5

LEMMA EvaluateType ==
  ASSUME AlarmsTypeOK, NEW d \in Device, NEW report, Evaluate(d, report)
  PROVE  AlarmsTypeOK'
<1>1. PICK at \in [Source -> Slot] :
        /\ \A source \in Source : at[source] \in Located(d, source)
        /\ events' = [events EXCEPT ![d] =
             [source \in Source |-> EventsAfter(d, source, report, at[source])]]
  BY DEF Evaluate
<1>2. \A source \in Source : EventsAfter(d, source, report, at[source]) \in [Slot -> Status]
  BY <1>1, EventsAfterCases
<1>3. [source \in Source |-> EventsAfter(d, source, report, at[source])]
        \in [Source -> [Slot -> Status]]
  BY <1>2
<1> QED BY <1>1, <1>3 DEF AlarmsTypeOK, Evaluate

LEMMA EvaluateOneOpen ==
  ASSUME AlarmsTypeOK, OneOpenEvent, NEW d \in Device, NEW report, Evaluate(d, report)
  PROVE  OneOpenEvent'
<1>1. PICK at \in [Source -> Slot] :
        /\ \A source \in Source : at[source] \in Located(d, source)
        /\ events' = [events EXCEPT ![d] =
             [source \in Source |-> EventsAfter(d, source, report, at[source])]]
  BY DEF Evaluate
<1> SUFFICES ASSUME NEW e \in Device, NEW source \in Source, NEW s \in Slot, NEW t \in Slot,
                    events'[e][source][s] = "open", events'[e][source][t] = "open"
             PROVE  s = t
  BY DEF OneOpenEvent
<1>2. CASE e # d
  <2>1. events'[e] = events[e]
    BY <1>1, <1>2 DEF AlarmsTypeOK
  <2> QED BY <2>1 DEF OneOpenEvent
<1>3. CASE e = d
  <2>1. events'[e][source] = EventsAfter(d, source, report, at[source])
    BY <1>1, <1>3 DEF AlarmsTypeOK
  <2>2. events[d][source] \in [Slot -> Status]
    BY DEF AlarmsTypeOK
  <2>3. \A u, w \in Slot : events[d][source][u] = "open" /\ events[d][source][w] = "open" => u = w
    BY DEF OneOpenEvent
  <2> QED BY <1>1, <2>1, <2>2, <2>3, EventsAfterCases
<1> QED BY <1>2, <1>3

-----------------------------------------------------------------------------
(* The web client.                                                         *)

LEMMA WebStepType ==
  ASSUME AlarmsTypeOK, WebStep
  PROVE  AlarmsTypeOK'
<1>1. ASSUME NEW d \in Device, NEW source \in Source, NEW s \in Slot, AcknowledgeRead(d, source, s)
      PROVE  AlarmsTypeOK'
  BY <1>1 DEF AcknowledgeRead, AlarmsTypeOK, Ack
<1>2. ASSUME NEW a \in acks, AcknowledgeWrite(a)
      PROVE  AlarmsTypeOK'
  <2>1. a.device \in Device /\ a.source \in Source /\ a.slot \in Slot
    BY DEF AlarmsTypeOK, Ack
  <2> QED BY <1>2, <2>1 DEF AcknowledgeWrite, AlarmsTypeOK, Status
<1>3. ASSUME NEW d \in Device, NEW source \in Source, NEW s \in Slot, CloseEvent(d, source, s)
      PROVE  AlarmsTypeOK'
  BY <1>3 DEF CloseEvent, AlarmsTypeOK, Status
<1>4. ASSUME NEW r \in Rule, NEW active \in BOOLEAN, SetRuleActive(r, active)
      PROVE  AlarmsTypeOK'
  BY <1>4 DEF SetRuleActive, AlarmsTypeOK
<1> QED BY <1>1, <1>2, <1>3, <1>4 DEF WebStep

\* No handler opens an event.
LEMMA WebStepOneOpen ==
  ASSUME AlarmsTypeOK, OneOpenEvent, WebStep
  PROVE  OneOpenEvent'
<1>1. ASSUME NEW d \in Device, NEW source \in Source, NEW s \in Slot, AcknowledgeRead(d, source, s)
      PROVE  OneOpenEvent'
  BY <1>1 DEF AcknowledgeRead, OneOpenEvent
<1>2. ASSUME NEW a \in acks, AcknowledgeWrite(a)
      PROVE  OneOpenEvent'
  <2>1. a.device \in Device /\ a.source \in Source /\ a.slot \in Slot
    BY DEF AlarmsTypeOK, Ack
  <2> QED BY <1>2, <2>1 DEF AcknowledgeWrite, OneOpenEvent, AlarmsTypeOK
<1>3. ASSUME NEW d \in Device, NEW source \in Source, NEW s \in Slot, CloseEvent(d, source, s)
      PROVE  OneOpenEvent'
  BY <1>3 DEF CloseEvent, OneOpenEvent, AlarmsTypeOK
<1>4. ASSUME NEW r \in Rule, NEW active \in BOOLEAN, SetRuleActive(r, active)
      PROVE  OneOpenEvent'
  BY <1>4 DEF SetRuleActive, OneOpenEvent
<1> QED BY <1>1, <1>2, <1>3, <1>4 DEF WebStep

-----------------------------------------------------------------------------
\* The handler of a removed device and the end of the process touch no event.
LEMMA RulesAndAcksType ==
  ASSUME AlarmsTypeOK, (\E d \in Device : RemoveRules(d)) \/ ForgetAcks
  PROVE  AlarmsTypeOK' /\ events' = events
<1>1. ASSUME NEW d \in Device, RemoveRules(d)
      PROVE  AlarmsTypeOK' /\ events' = events
  BY <1>1 DEF RemoveRules, AlarmsTypeOK
<1>2. CASE ForgetAcks
  BY <1>2 DEF ForgetAcks, AlarmsTypeOK
<1> QED BY <1>1, <1>2

LEMMA AlarmsStartCorrect == AlarmsStart => AlarmsTypeOK /\ OneOpenEvent
<1> SUFFICES ASSUME AlarmsStart PROVE AlarmsTypeOK /\ OneOpenEvent
  OBVIOUS
<1>1. AlarmsTypeOK
  BY DEF AlarmsStart, AlarmsTypeOK, Status
<1>2. OneOpenEvent
  BY DEF AlarmsStart, OneOpenEvent
<1> QED BY <1>1, <1>2

\* For any sequence of polls, whatever they report, and of handlers: the types
\* hold and no source has two open events on one device.
THEOREM AlarmsAreSafe == AlarmsSpec => [](AlarmsTypeOK /\ OneOpenEvent)
<1>1. AlarmsStart => AlarmsTypeOK /\ OneOpenEvent
  BY AlarmsStartCorrect
<1>2. AlarmsTypeOK /\ OneOpenEvent /\ [AlarmsNext]_alarmVars => (AlarmsTypeOK /\ OneOpenEvent)'
  <2> SUFFICES ASSUME AlarmsTypeOK, OneOpenEvent, [AlarmsNext]_alarmVars
               PROVE  (AlarmsTypeOK /\ OneOpenEvent)'
    OBVIOUS
  <2>1. ASSUME NEW d \in Device, NEW report \in PollReport, Evaluate(d, report)
        PROVE  (AlarmsTypeOK /\ OneOpenEvent)'
    BY <2>1, EvaluateType, EvaluateOneOpen
  <2>2. CASE WebStep
    BY <2>2, WebStepType, WebStepOneOpen
  <2>3. CASE (\E d \in Device : RemoveRules(d)) \/ ForgetAcks
    BY <2>3, RulesAndAcksType DEF OneOpenEvent
  <2>4. CASE UNCHANGED alarmVars
    BY <2>4 DEF alarmVars, AlarmsTypeOK, OneOpenEvent
  <2> QED BY <2>1, <2>2, <2>3, <2>4 DEF AlarmsNext
<1> QED BY <1>1, <1>2, PTL DEF AlarmsSpec

-----------------------------------------------------------------------------
(* Typing of the helpers.                                                  *)

LEMMA RowAfterType ==
  ASSUME NEW r \in Row, NEW poll
  PROVE  /\ RowAfter(r, poll) \in Row
         /\ RowAfter(r, poll).status = "online" => ~Failed(poll) /\ ~HasBadKeys(poll)
<1>1. r.errors \in 0..AlarmAfter
  BY DEF Row
<1>2. OneMore(r.errors) \in 0..AlarmAfter /\ 0 \in 0..AlarmAfter
  BY <1>1, AlarmAssumption DEF OneMore
<1>3. /\ RowAfter(r, poll).status = StatusAfter(poll)
      /\ RowAfter(r, poll) \in Row
  BY <1>2 DEF RowAfter, StatusAfter, Row, DeviceStatus
<1> QED BY <1>3 DEF StatusAfter

\* What a handler writes is a row, and never the status of a successful poll.
LEMMA FlushedType ==
  ASSUME NEW current \in Row, NEW q \in Request
  PROVE  LET new == Flushed(current, q.seen, Wanted(q))
         IN  /\ new \in Row
             /\ new.status = "online" => current.status = "online"
<1> DEFINE wanted == Wanted(q)
           new == Flushed(current, q.seen, wanted)
<1>1. /\ q.seen \in Row /\ q.to \in Channel
      /\ q.operation \in {"update", "remove", "activate", "deactivate"}
  BY MonitoringAssumption DEF Request
<1>2. wanted \in Row /\ (wanted.status = q.seen.status \/ wanted.status # "online")
  <2>1. 0 \in 0..AlarmAfter
    BY AlarmAssumption
  <2>2. CASE q.operation = "update"
    <3>1. wanted = [q.seen EXCEPT !.status = "unknown", !.errors = 0, !.channel = q.to]
      BY <2>2 DEF Wanted
    <3> QED BY <1>1, <2>1, <3>1 DEF Row, DeviceStatus
  <2>3. CASE q.operation = "remove"
    <3>1. wanted = [q.seen EXCEPT !.status = "removed", !.active = FALSE]
      BY <2>3 DEF Wanted
    <3> QED BY <1>1, <3>1 DEF Row, DeviceStatus
  <2>4. CASE q.operation = "activate"
    <3>1. wanted = [q.seen EXCEPT !.active = TRUE]
      BY <2>4 DEF Wanted
    <3> QED BY <1>1, <3>1 DEF Row
  <2>5. CASE q.operation = "deactivate"
    <3>1. wanted = [q.seen EXCEPT !.active = FALSE]
      BY <2>5 DEF Wanted
    <3> QED BY <1>1, <3>1 DEF Row
  <2> QED BY <1>1, <2>2, <2>3, <2>4, <2>5
<1>3. new = [status |-> IF wanted.status # q.seen.status THEN wanted.status ELSE current.status,
             active |-> IF wanted.active # q.seen.active THEN wanted.active ELSE current.active,
             errors |-> IF wanted.errors # q.seen.errors THEN wanted.errors ELSE current.errors,
             channel |-> IF wanted.channel # q.seen.channel THEN wanted.channel ELSE current.channel]
  <2>1. DOMAIN current = {"status", "active", "errors", "channel"}
    BY DEF Row
  <2> QED BY <2>1, <1>1, <1>2 DEF Flushed, Row
<1>4. /\ current.status \in DeviceStatus /\ wanted.status \in DeviceStatus
      /\ current.active \in BOOLEAN /\ wanted.active \in BOOLEAN
      /\ current.errors \in 0..AlarmAfter /\ wanted.errors \in 0..AlarmAfter
      /\ current.channel \in Channel /\ wanted.channel \in Channel
  BY <1>2 DEF Row
<1>5. new \in Row
  BY <1>3, <1>4 DEF Row
<1>6. new.status = "online" => current.status = "online"
  BY <1>2, <1>3
<1> QED BY <1>5, <1>6

-----------------------------------------------------------------------------
(* Every step keeps the types.                                             *)

LEMMA MonitoringStartType == MonitoringStart => MonitoringTypeOK
<1> SUFFICES ASSUME MonitoringStart PROVE MonitoringTypeOK
  OBVIOUS
<1>1. AlarmsTypeOK
  BY AlarmsStartCorrect DEF MonitoringStart
<1>2. [status |-> "absent", active |-> FALSE, errors |-> 0,
       channel |-> CHOOSE c \in Channel : TRUE] \in Row
  BY AlarmAssumption, MonitoringAssumption DEF Row, DeviceStatus
<1>3. 0 \in 0..(CycleLength - 1) /\ 0 \in 0..MaxRestarts
  BY MonitoringAssumption
<1>4. queue \in [Channel -> Seq(Poll)]
  BY DEF MonitoringStart
<1> QED BY <1>1, <1>2, <1>3, <1>4 DEF MonitoringStart, MonitoringTypeOK

LEMMA EnqueueType ==
  ASSUME MonitoringTypeOK, NEW by \in {"loop", "hand"}, NEW d \in Device,
         NEW groups \in SUBSET PollingGroup, Enqueue(by, d, groups)
  PROVE  queue' \in [Channel -> Seq(Poll)]
<1>1. [by |-> by, device |-> d, groups |-> groups] \in Poll
  BY DEF Poll
<1>2. row[d].channel \in Channel /\ queue[row[d].channel] \in Seq(Poll)
  BY DEF MonitoringTypeOK, Row
<1>3. Append(queue[row[d].channel], [by |-> by, device |-> d, groups |-> groups]) \in Seq(Poll)
  BY <1>1, <1>2
<1> QED BY <1>2, <1>3 DEF Enqueue, MonitoringTypeOK

LEMMA PollingType ==
  ASSUME MonitoringTypeOK,
         \/ StartCycle \/ LoopRaises
         \/ \E d \in Device : StartScheduledPoll(d) \/ StartManualPoll(d)
         \/ \E c \in Channel : FinishPoll(c) \/ PollRaises(c)
  PROVE  MonitoringTypeOK'
<1>1. ASSUME UNCHANGED alarmVars PROVE AlarmsTypeOK'
  BY <1>1 DEF alarmVars, MonitoringTypeOK, AlarmsTypeOK
<1>2. CASE StartCycle
  BY <1>1, <1>2 DEF StartCycle, ActiveDevices, MonitoringTypeOK
<1>3. CASE LoopRaises
  BY <1>1, <1>3 DEF LoopRaises, MonitoringTypeOK
<1>4. ASSUME NEW d \in Device, StartScheduledPoll(d)
      PROVE  MonitoringTypeOK'
  <2>1. CASE row[d].active /\ cycle' = [cycle EXCEPT ![d] = (@ + 1) % CycleLength]
             /\ Enqueue("loop", d, DueGroups(d))
    <3>1. DueGroups(d) \in SUBSET PollingGroup
      BY MonitoringAssumption DEF DueGroups
    <3>2. queue' \in [Channel -> Seq(Poll)]
      BY <2>1, <3>1, EnqueueType
    <3>3. cycle[d] \in Nat /\ CycleLength \in Nat \ {0}
      BY MonitoringAssumption DEF MonitoringTypeOK
    <3>4. (cycle[d] + 1) % CycleLength \in 0..(CycleLength - 1)
      BY <3>3
    <3>5. cycle' \in [Device -> 0..(CycleLength - 1)]
      BY <2>1, <3>4 DEF MonitoringTypeOK
    <3> QED BY <1>1, <1>4, <3>2, <3>5 DEF StartScheduledPoll, MonitoringTypeOK
  <2>2. CASE UNCHANGED <<cycle, queue>>
    BY <1>1, <1>4, <2>2 DEF StartScheduledPoll, MonitoringTypeOK
  <2> QED BY <1>4, <2>1, <2>2 DEF StartScheduledPoll
<1>5. ASSUME NEW d \in Device, StartManualPoll(d)
      PROVE  MonitoringTypeOK'
  <2>1. DeviceGroups[d] \in SUBSET PollingGroup
    BY MonitoringAssumption
  <2>2. queue' \in [Channel -> Seq(Poll)]
    BY <1>5, <2>1, EnqueueType DEF StartManualPoll
  <2> QED BY <1>1, <1>5, <2>2 DEF StartManualPoll, MonitoringTypeOK
<1>6. ASSUME NEW c \in Channel, FinishPoll(c)
      PROVE  MonitoringTypeOK'
  <2> DEFINE poll == Head(queue[c])
  <2>1. queue[c] \in Seq(Poll) /\ queue[c] # <<>>
    BY <1>6 DEF FinishPoll, MonitoringTypeOK
  <2>2. poll \in Poll /\ Tail(queue[c]) \in Seq(Poll)
    BY <2>1
  <2>3. poll.device \in Device
    BY <2>2 DEF Poll
  <2>4. row' \in [Device -> Row]
    BY <1>6, <2>3, RowAfterType DEF FinishPoll, MonitoringTypeOK
  <2>5. PICK value \in [Key -> Value] : Evaluate(poll.device, ReportOf(poll, value))
    BY <1>6 DEF FinishPoll
  <2>6. AlarmsTypeOK'
    BY <2>3, <2>5, EvaluateType DEF MonitoringTypeOK
  <2> QED BY <1>6, <2>2, <2>4, <2>6 DEF FinishPoll, MonitoringTypeOK
<1>7. ASSUME NEW c \in Channel, PollRaises(c)
      PROVE  MonitoringTypeOK'
  <2>1. queue[c] \in Seq(Poll) /\ queue[c] # <<>>
    BY <1>7 DEF PollRaises, MonitoringTypeOK
  <2>2. Tail(queue[c]) \in Seq(Poll)
    BY <2>1
  <2> QED BY <1>1, <1>7, <2>2 DEF PollRaises, MonitoringTypeOK
<1> QED BY <1>2, <1>3, <1>4, <1>5, <1>6, <1>7

LEMMA HandlerType ==
  ASSUME MonitoringTypeOK,
         \/ \E d \in Device, c \in Channel : CreateDevice(d, c)
         \/ \E operation \in Operation, d \in Device, c \in Channel : ReadDevice(operation, d, c)
         \/ \E q \in requests : WriteDevice(q)
  PROVE  MonitoringTypeOK'
<1>1. ASSUME UNCHANGED alarmVars PROVE AlarmsTypeOK'
  BY <1>1 DEF alarmVars, MonitoringTypeOK, AlarmsTypeOK
<1>2. ASSUME NEW d \in Device, NEW c \in Channel, CreateDevice(d, c)
      PROVE  MonitoringTypeOK'
  <2>1. [status |-> "unknown", active |-> TRUE, errors |-> 0, channel |-> c] \in Row
    BY AlarmAssumption DEF Row, DeviceStatus
  <2> QED BY <1>1, <1>2, <2>1 DEF CreateDevice, MonitoringTypeOK
<1>3. ASSUME NEW operation \in Operation, NEW d \in Device, NEW c \in Channel, ReadDevice(operation, d, c)
      PROVE  MonitoringTypeOK'
  <2>1. [operation |-> operation, device |-> d, seen |-> row[d], to |-> c] \in Request
    BY DEF Request, MonitoringTypeOK
  <2> QED BY <1>1, <1>3, <2>1 DEF ReadDevice, MonitoringTypeOK
<1>4. ASSUME NEW q \in requests, WriteDevice(q)
      PROVE  MonitoringTypeOK'
  <2>1. q \in Request /\ q.device \in Device
    BY DEF MonitoringTypeOK, Request
  <2>2. row' \in [Device -> Row]
    BY <1>4, <2>1, FlushedType DEF WriteDevice, MonitoringTypeOK
  <2>3. RemoveRules(q.device) \/ UNCHANGED alarmVars
    BY <1>4 DEF WriteDevice
  <2>4. AlarmsTypeOK'
    BY <1>1, <2>1, <2>3, RulesAndAcksType DEF MonitoringTypeOK
  <2> QED BY <1>4, <2>2, <2>4 DEF WriteDevice, MonitoringTypeOK
<1> QED BY <1>2, <1>3, <1>4

LEMMA PlantType ==
  ASSUME MonitoringTypeOK,
         \/ \E d \in Device : FieldChanges(d)
         \/ Restart
         \/ WebStep /\ UNCHANGED monitoringVars
         \/ UNCHANGED vars
  PROVE  MonitoringTypeOK'
<1>1. ASSUME NEW d \in Device, FieldChanges(d)
      PROVE  MonitoringTypeOK'
  BY <1>1 DEF FieldChanges, alarmVars, MonitoringTypeOK, AlarmsTypeOK
<1>2. CASE Restart
  <2>1. cycle' \in [Device -> 0..(CycleLength - 1)]
    BY <1>2, MonitoringAssumption DEF Restart
  <2>2. queue' \in [Channel -> Seq(Poll)]
    BY <1>2 DEF Restart
  <2>3. restarts' \in 0..MaxRestarts
    BY <1>2, MonitoringAssumption DEF Restart, MonitoringTypeOK
  <2>4. AlarmsTypeOK'
    BY <1>2, RulesAndAcksType DEF Restart, MonitoringTypeOK
  <2> QED BY <1>2, <2>1, <2>2, <2>3, <2>4 DEF Restart, MonitoringTypeOK
<1>3. CASE WebStep /\ UNCHANGED monitoringVars
  BY <1>3, WebStepType DEF monitoringVars, MonitoringTypeOK
<1>4. CASE UNCHANGED vars
  BY <1>4 DEF vars, alarmVars, monitoringVars, MonitoringTypeOK, AlarmsTypeOK
<1> QED BY <1>1, <1>2, <1>3, <1>4

LEMMA NextType == MonitoringTypeOK /\ [Next]_vars => MonitoringTypeOK'
BY PollingType, HandlerType, PlantType DEF Next

\* The types of the polling state and of the alarms, for any plant.
THEOREM MonitoringTypeCorrect == Spec => []MonitoringTypeOK
<1> QED BY MonitoringStartType, NextType, PTL DEF Spec

-----------------------------------------------------------------------------
(* Alarms.                                                                 *)

\* What a poll reports is a report that AlarmsNext allows.
LEMMA ReportsAreConsistent ==
  ASSUME MonitoringTypeOK, NEW poll \in Poll, NEW value \in [Key -> Value]
  PROVE  ReportOf(poll, value) \in PollReport /\ Consistent(ReportOf(poll, value))
<1> DEFINE report == ReportOf(poll, value)
           after  == RowAfter(row[poll.device], poll)
<1>1. row[poll.device] \in Row /\ row[poll.device].errors \in 0..AlarmAfter
  BY DEF MonitoringTypeOK, Poll, Row
<1>2. after \in Row
  BY <1>1, RowAfterType
<1>3. GoodKeys(poll) \in SUBSET Key /\ (Failed(poll) => GoodKeys(poll) = {} /\ ~HasBadKeys(poll))
  BY DEF GoodKeys, HasBadKeys
<1>4. Failed(poll) \in BOOLEAN /\ HasBadKeys(poll) \in BOOLEAN
  BY DEF Failed, HasBadKeys
<1>5. after.errors \in 0..AlarmAfter
  BY <1>2 DEF Row
<1>6. report \in PollReport
  BY <1>3, <1>4, <1>5 DEF ReportOf, PollReport
<1>7. OneMore(row[poll.device].errors) > 0
  BY <1>1, AlarmAssumption DEF OneMore
<1>8. (after.errors > 0) <=> (Failed(poll) \/ HasBadKeys(poll))
  BY <1>7 DEF RowAfter, StatusAfter
<1> QED BY <1>3, <1>4, <1>6, <1>8 DEF ReportOf, Consistent

LEMMA FinishPollEvaluates ==
  ASSUME MonitoringTypeOK, NEW c \in Channel, FinishPoll(c)
  PROVE  \E d \in Device, report \in PollReport : Consistent(report) /\ Evaluate(d, report)
<1> DEFINE poll == Head(queue[c])
<1>1. queue[c] \in Seq(Poll) /\ queue[c] # <<>>
  BY DEF FinishPoll, MonitoringTypeOK
<1>2. poll \in Poll
  BY <1>1
<1>3. poll.device \in Device
  BY <1>2 DEF Poll
<1>4. PICK value \in [Key -> Value] : Evaluate(poll.device, ReportOf(poll, value))
  BY DEF FinishPoll
<1>5. ReportOf(poll, value) \in PollReport /\ Consistent(ReportOf(poll, value))
  BY <1>2, ReportsAreConsistent
<1> QED BY <1>3, <1>4, <1>5

\* Seen from the alarms every step is one of AlarmsNext or a stutter.
LEMMA StepOnAlarms ==
  ASSUME MonitoringTypeOK, [Next]_vars
  PROVE  [AlarmsNext]_alarmVars
<1>1. ASSUME NEW c \in Channel, FinishPoll(c)
      PROVE  AlarmsNext
  BY <1>1, FinishPollEvaluates DEF AlarmsNext
<1>2. CASE StartCycle \/ LoopRaises
  BY <1>2 DEF StartCycle, LoopRaises
<1>3. ASSUME NEW d \in Device, StartScheduledPoll(d) \/ StartManualPoll(d)
      PROVE  UNCHANGED alarmVars
  BY <1>3 DEF StartScheduledPoll, StartManualPoll
<1>4. ASSUME NEW d \in Device, NEW c \in Channel, CreateDevice(d, c)
      PROVE  UNCHANGED alarmVars
  BY <1>4 DEF CreateDevice
<1>5. ASSUME NEW operation \in Operation, NEW d \in Device, NEW c \in Channel, ReadDevice(operation, d, c)
      PROVE  UNCHANGED alarmVars
  BY <1>5 DEF ReadDevice
<1>6. ASSUME NEW q \in requests, WriteDevice(q)
      PROVE  [AlarmsNext]_alarmVars
  <2>1. q.device \in Device
    BY DEF MonitoringTypeOK, Request
  <2> QED BY <1>6, <2>1 DEF WriteDevice, AlarmsNext
<1>7. CASE Restart
  BY <1>7 DEF Restart, AlarmsNext
<1>8. CASE WebStep
  BY <1>8 DEF AlarmsNext
<1>9. ASSUME NEW d \in Device, FieldChanges(d)
      PROVE  UNCHANGED alarmVars
  BY <1>9 DEF FieldChanges
<1>10. ASSUME NEW c \in Channel, PollRaises(c)
       PROVE  UNCHANGED alarmVars
  BY <1>10 DEF PollRaises
<1>11. CASE UNCHANGED vars
  BY <1>11 DEF vars
<1> QED BY <1>1, <1>2, <1>3, <1>4, <1>5, <1>6, <1>7, <1>8, <1>9, <1>10, <1>11 DEF Next

\* The polls, handlers and restarts of DeviceMonitoring implement the alarms on
\* their own, in which a poll may report anything consistent at any time.
THEOREM MonitoringImplementsAlarms == Spec => AlarmsSpec
<1>1. MonitoringStart => AlarmsStart
  BY DEF MonitoringStart
<1>2. MonitoringTypeOK /\ [Next]_vars => [AlarmsNext]_alarmVars
  BY StepOnAlarms
<1> QED BY <1>1, <1>2, MonitoringTypeCorrect, PTL DEF Spec, AlarmsSpec

\* Whatever polls, handlers and restarts do to each other, no source has two
\* open events on one device.
THEOREM MonitoringRaisesOnce == Spec => []OneOpenEvent
<1> QED BY MonitoringImplementsAlarms, AlarmsAreSafe, PTL

-----------------------------------------------------------------------------
(* Health alarms, if acknowledgements do not race with polls.              *)

\* A poll keeps the event of a source single, and one that succeeds with
\* plausible data only leaves the device without health alarms.
LEMMA EvaluateHealth ==
  ASSUME AlarmsTypeOK, SingleEvent, NEW d \in Device, NEW report, Evaluate(d, report)
  PROVE  /\ SingleEvent'
         /\ \A e \in Device \ {d} : events'[e] = events[e]
         /\ ~report.error /\ ~report.bad => \A h \in Health : ~HasEvent(d, h)'
<1>1. PICK at \in [Source -> Slot] :
        /\ \A source \in Source : at[source] \in Located(d, source)
        /\ events' = [events EXCEPT ![d] =
             [source \in Source |-> EventsAfter(d, source, report, at[source])]]
  BY DEF Evaluate
<1>2. \A e \in Device \ {d} : events'[e] = events[e]
  BY <1>1 DEF AlarmsTypeOK
<1>3. \A source \in Source : /\ events'[d][source] = EventsAfter(d, source, report, at[source])
                             /\ events[d][source] \in [Slot -> Status]
  BY <1>1 DEF AlarmsTypeOK
<1>4. ASSUME NEW source \in Source, NEW s \in Slot, NEW t \in Slot,
             events'[d][source][s] # "closed", events'[d][source][t] # "closed"
      PROVE  s = t
  <2>1. \A u, w \in Slot : events[d][source][u] # "closed" /\ events[d][source][w] # "closed" => u = w
    BY DEF SingleEvent
  <2> QED BY <1>1, <1>3, <1>4, <2>1, EventsAfterCases
<1>5. SingleEvent'
  BY <1>2, <1>4 DEF SingleEvent
<1>6. ASSUME ~report.error, ~report.bad, NEW h \in Health
      PROVE  ~HasEvent(d, h)'
  <2>1. h \in Source /\ Clears(h, d, report) /\ ~Raises(h, d, report)
    BY <1>6 DEF Source, Health, Clears, Raises
  <2>2. \A u, w \in Slot : events[d][h][u] # "closed" /\ events[d][h][w] # "closed" => u = w
    BY <2>1 DEF SingleEvent
  <2>3. CASE ActiveSlots(d, h) = {}
    <3>1. EventsAfter(d, h, report, at[h]) = events[d][h]
      BY <2>1, <2>3 DEF EventsAfter
    <3> QED BY <1>3, <2>1, <2>3, <3>1 DEF HasEvent, ActiveSlots
  <2>4. CASE ActiveSlots(d, h) # {}
    <3>1. EventsAfter(d, h, report, at[h]) = [events[d][h] EXCEPT ![at[h]] = "closed"]
      BY <2>1, <2>4 DEF EventsAfter
    <3>2. at[h] \in Slot /\ events[d][h][at[h]] # "closed"
      BY <1>1, <2>1, <2>4 DEF Located, ActiveSlots
    <3> QED BY <1>3, <2>1, <2>2, <3>1, <3>2 DEF HasEvent
  <2> QED BY <2>3, <2>4
<1> QED BY <1>2, <1>5, <1>6

LEMMA NoAckReads ==
  ASSUME MaxAcks = 0, acks = {}
  PROVE  \A d \in Device, source \in Source, s \in Slot : ~AcknowledgeRead(d, source, s)
<1>1. Cardinality(acks) = 0
  BY FS_EmptySet
<1> QED BY <1>1 DEF AcknowledgeRead

\* What every step but a late acknowledgement keeps.
HealthIsShown == SingleEvent /\ OnlineHasNoHealthAlarm

LEMMA HealthIsKept ==
  ASSUME MonitoringTypeOK, HealthIsShown, [Next]_vars, ~AcknowledgesLate
  PROVE  HealthIsShown'
<1>1. AlarmsTypeOK /\ SingleEvent
  BY DEF MonitoringTypeOK, HealthIsShown, SingleEvent
<1>2. ASSUME events' = events,
             \A d \in Device : row'[d].status = "online" => row[d].status = "online"
      PROVE  HealthIsShown'
  BY <1>2 DEF HealthIsShown, SingleEvent, OnlineHasNoHealthAlarm, HasEvent
<1>3. ASSUME NEW c \in Channel, FinishPoll(c)
      PROVE  HealthIsShown'
  <2> DEFINE poll == Head(queue[c])
  <2>1. queue[c] \in Seq(Poll) /\ queue[c] # <<>>
    BY <1>3 DEF FinishPoll, MonitoringTypeOK
  <2>2. PICK d \in Device : d = poll.device
    <3>1. poll \in Poll
      BY <2>1
    <3> QED BY <3>1 DEF Poll
  <2>3. PICK value \in [Key -> Value] : Evaluate(d, ReportOf(poll, value))
    BY <1>3, <2>2 DEF FinishPoll
  <2>4. /\ SingleEvent'
        /\ \A e \in Device \ {d} : events'[e] = events[e]
        /\ ~Failed(poll) /\ ~HasBadKeys(poll) => \A h \in Health : ~HasEvent(d, h)'
    <3>1. /\ ReportOf(poll, value).error = Failed(poll)
          /\ ReportOf(poll, value).bad = HasBadKeys(poll)
      BY DEF ReportOf
    <3> QED BY <1>1, <2>2, <2>3, <3>1, EvaluateHealth
  <2>5. /\ row'[d].status = "online" => ~Failed(poll) /\ ~HasBadKeys(poll)
        /\ \A e \in Device \ {d} : row'[e] = row[e]
    BY <1>3, <2>2, RowAfterType DEF FinishPoll, MonitoringTypeOK
  <2>6. OnlineHasNoHealthAlarm'
    <3> SUFFICES ASSUME NEW e \in Device, NEW h \in Health, row'[e].status = "online"
                 PROVE  ~HasEvent(e, h)'
      BY DEF OnlineHasNoHealthAlarm
    <3>1. CASE e = d
      BY <2>4, <2>5, <3>1
    <3>2. CASE e # d
      <4>1. events'[e] = events[e] /\ row[e].status = "online"
        BY <2>4, <2>5, <3>2
      <4> QED BY <4>1 DEF HealthIsShown, SingleEvent, OnlineHasNoHealthAlarm, HasEvent
    <3> QED BY <3>1, <3>2
  <2> QED BY <2>4, <2>6 DEF HealthIsShown, SingleEvent
<1>4. CASE StartCycle \/ LoopRaises
  BY <1>2, <1>4 DEF StartCycle, LoopRaises, alarmVars
<1>5. ASSUME NEW d \in Device, StartScheduledPoll(d) \/ StartManualPoll(d)
      PROVE  HealthIsShown'
  BY <1>2, <1>5 DEF StartScheduledPoll, StartManualPoll, alarmVars
<1>6. ASSUME NEW d \in Device, NEW c \in Channel, CreateDevice(d, c)
      PROVE  HealthIsShown'
  <2>1. \A e \in Device : row'[e].status = "online" => row[e].status = "online"
    BY <1>6 DEF CreateDevice, MonitoringTypeOK
  <2> QED BY <1>2, <1>6, <2>1 DEF CreateDevice, alarmVars
<1>7. ASSUME NEW d \in Device, FieldChanges(d)
      PROVE  HealthIsShown'
  BY <1>2, <1>7 DEF FieldChanges, alarmVars
<1>8. ASSUME NEW operation \in Operation, NEW d \in Device, NEW c \in Channel, ReadDevice(operation, d, c)
      PROVE  HealthIsShown'
  BY <1>2, <1>8 DEF ReadDevice, alarmVars
<1>9. ASSUME NEW q \in requests, WriteDevice(q)
      PROVE  HealthIsShown'
  <2>1. q \in Request /\ q.device \in Device
    BY DEF MonitoringTypeOK, Request
  <2>2. \A e \in Device : row'[e].status = "online" => row[e].status = "online"
    BY <1>9, <2>1, FlushedType DEF WriteDevice, MonitoringTypeOK
  <2>3. events' = events
    BY <1>9 DEF WriteDevice, RemoveRules, alarmVars
  <2> QED BY <1>2, <2>2, <2>3
<1>10. CASE Restart
  BY <1>2, <1>10 DEF Restart, ForgetAcks
<1>11. CASE WebStep /\ UNCHANGED monitoringVars
  <2>1. ASSUME NEW d \in Device, NEW source \in Source, NEW s \in Slot, CloseEvent(d, source, s)
        PROVE  HealthIsShown'
    <3>1. \A e \in Device, o \in Source, t \in Slot :
            events'[e][o][t] # "closed" => events[e][o][t] # "closed"
      BY <2>1, <1>1 DEF CloseEvent, AlarmsTypeOK
    <3>2. Health \subseteq Source
      BY DEF Source
    <3> QED BY <1>11, <2>1, <3>1, <3>2
            DEF CloseEvent, monitoringVars, HealthIsShown, SingleEvent, OnlineHasNoHealthAlarm, HasEvent
  <2>2. ASSUME NEW r \in Rule, NEW active \in BOOLEAN, SetRuleActive(r, active)
        PROVE  HealthIsShown'
    BY <1>2, <1>11, <2>2 DEF SetRuleActive, monitoringVars
  <2>3. ASSUME NEW a \in acks, AcknowledgeWrite(a) PROVE HealthIsShown'
    <3>1. /\ a.device \in Device /\ a.source \in Source /\ a.slot \in Slot
          /\ events[a.device][a.source][a.slot] # "closed"
      BY <1>1, <2>3 DEF AcknowledgesLate, AlarmsTypeOK, Ack
    <3>2. \A e \in Device, o \in Source, t \in Slot :
            events'[e][o][t] # "closed" => events[e][o][t] # "closed"
      BY <2>3, <1>1, <3>1 DEF AcknowledgeWrite, AlarmsTypeOK
    <3>3. Health \subseteq Source
      BY DEF Source
    <3> QED BY <1>11, <3>2, <3>3
            DEF monitoringVars, HealthIsShown, SingleEvent, OnlineHasNoHealthAlarm, HasEvent
  <2>4. ASSUME NEW d \in Device, NEW source \in Source, NEW s \in Slot, AcknowledgeRead(d, source, s)
        PROVE  HealthIsShown'
    BY <1>2, <1>11, <2>4 DEF AcknowledgeRead, monitoringVars
  <2> QED BY <1>11, <2>1, <2>2, <2>3, <2>4 DEF WebStep
<1>12. CASE UNCHANGED vars
  BY <1>2, <1>12 DEF vars, alarmVars, monitoringVars
<1>13. ASSUME NEW c \in Channel, PollRaises(c)
       PROVE  HealthIsShown'
  BY <1>2, <1>13 DEF PollRaises, alarmVars
<1> QED BY <1>3, <1>4, <1>5, <1>6, <1>7, <1>8, <1>9, <1>10, <1>11, <1>12, <1>13 DEF Next

\* With any number of acknowledgements in progress: only one that writes over an
\* event closed since it was read gives a source a second active event or a device
\* shown online a health alarm; no poll, handler or restart does (evaluate_device_health
\* in alarms.py, acknowledge_alarm in main.py).
THEOREM OnlyLateAcknowledgementsHide ==
  Spec => [][SingleEvent /\ OnlineHasNoHealthAlarm /\ ~AcknowledgesLate
               => SingleEvent' /\ OnlineHasNoHealthAlarm']_vars
<1>1. MonitoringTypeOK /\ [Next]_vars
        => [SingleEvent /\ OnlineHasNoHealthAlarm /\ ~AcknowledgesLate
              => SingleEvent' /\ OnlineHasNoHealthAlarm']_vars
  BY HealthIsKept DEF HealthIsShown
<1> QED BY <1>1, MonitoringTypeCorrect, PTL DEF Spec

LEMMA NoAcksStay ==
  ASSUME MaxAcks = 0, acks = {}, [Next]_vars
  PROVE  acks' = {}
<1>1. \A d : \A report : Evaluate(d, report) => acks' = acks
  BY DEF Evaluate
<1>2. \A d \in Device, source \in Source, s \in Slot : ~AcknowledgeRead(d, source, s)
  BY NoAckReads
<1>3. WebStep => acks' = acks
  BY <1>2 DEF WebStep, CloseEvent, SetRuleActive
<1>4. \A c \in Channel : FinishPoll(c) => acks' = acks
  BY <1>1 DEF FinishPoll
<1> QED BY <1>3, <1>4 DEF Next, StartCycle, LoopRaises, StartScheduledPoll, StartManualPoll, CreateDevice,
          PollRaises, ReadDevice, WriteDevice, RemoveRules, FieldChanges, Restart, ForgetAcks, vars, alarmVars

\* If no acknowledgement is overtaken by a poll, a device shown online has no
\* health alarm.
THEOREM HealthAlarmsEnd ==
  ASSUME MaxAcks = 0
  PROVE  Spec => []HealthInv
<1>1. MonitoringStart => HealthInv
  BY DEF MonitoringStart, AlarmsStart, HealthInv, SingleEvent, OnlineHasNoHealthAlarm
<1>2. MonitoringTypeOK /\ HealthInv /\ [Next]_vars => HealthInv'
  <2> SUFFICES ASSUME MonitoringTypeOK, HealthInv, [Next]_vars PROVE HealthInv'
    OBVIOUS
  <2>1. acks = {} /\ acks' = {} /\ ~AcknowledgesLate
    BY NoAcksStay DEF HealthInv, AcknowledgesLate
  <2> QED BY <2>1, HealthIsKept DEF HealthInv, HealthIsShown
<1> QED BY <1>1, <1>2, MonitoringTypeCorrect, PTL DEF Spec

-----------------------------------------------------------------------------
(* Removal.                                                                *)

LEMMA EnqueueOthers ==
  ASSUME MonitoringTypeOK, NEW d \in Device, NEW e \in Device, e # d, NEW by, NEW groups,
         Enqueue(by, e, groups),
         \A c \in Channel : \A i \in DOMAIN queue[c] : queue[c][i].device # d
  PROVE  \A c \in Channel : \A i \in DOMAIN queue'[c] : queue'[c][i].device # d
<1> SUFFICES ASSUME NEW c \in Channel, NEW i \in DOMAIN queue'[c]
             PROVE  queue'[c][i].device # d
  OBVIOUS
<1>1. queue[c] \in Seq(Poll) /\ row[e].channel \in Channel
  BY DEF MonitoringTypeOK, Row
<1>2. CASE c # row[e].channel
  BY <1>1, <1>2 DEF Enqueue, MonitoringTypeOK
<1>3. CASE c = row[e].channel
  <2> DEFINE new == [by |-> by, device |-> e, groups |-> groups]
  <2>1. queue'[c] = Append(queue[c], new)
    BY <1>1, <1>3 DEF Enqueue, MonitoringTypeOK
  <2>2. \/ i \in DOMAIN queue[c] /\ queue'[c][i] = queue[c][i]
        \/ queue'[c][i] = new
    BY <1>1, <2>1
  <2> QED BY <2>2
<1> QED BY <1>2, <1>3

LEMMA OthersRemain ==
  ASSUME MonitoringTypeOK, NEW d \in Device, NEW c \in Channel,
         queue[c] # <<>>, queue' = [queue EXCEPT ![c] = Tail(@)],
         \A e \in Channel : \A i \in DOMAIN queue[e] : queue[e][i].device # d
  PROVE  \A e \in Channel : \A i \in DOMAIN queue'[e] : queue'[e][i].device # d
<1> SUFFICES ASSUME NEW e \in Channel, NEW i \in DOMAIN queue'[e]
             PROVE  queue'[e][i].device # d
  OBVIOUS
<1>1. queue[c] \in Seq(Poll) /\ queue[c] # <<>>
  BY DEF MonitoringTypeOK
<1>2. CASE e # c
  BY <1>2 DEF MonitoringTypeOK
<1>3. CASE e = c
  <2>1. queue'[c] = Tail(queue[c])
    BY DEF MonitoringTypeOK
  <2>2. i \in DOMAIN Tail(queue[c])
    BY <1>3, <2>1
  <2>3. i + 1 \in DOMAIN queue[c] /\ Tail(queue[c])[i] = queue[c][i + 1]
    BY <1>1, <2>2
  <2>4. queue'[e][i] = queue[c][i + 1]
    BY <1>3, <2>1, <2>3
  <2>5. queue[c][i + 1].device # d
    BY <2>3
  <2> QED BY <2>4, <2>5
<1> QED BY <1>2, <1>3

LEMMA SettledStays ==
  ASSUME MonitoringTypeOK, [Next]_vars, NEW d \in Device, Settled(d)
  PROVE  Settled(d)'
<1>1. ASSUME row'[d] = row[d], UNCHANGED <<queue, requests>>
      PROVE  Settled(d)'
  BY <1>1 DEF Settled
<1>2. ASSUME NEW c \in Channel, FinishPoll(c) \/ PollRaises(c)
      PROVE  Settled(d)'
  <2> DEFINE poll == Head(queue[c])
  <2>1. queue[c] \in Seq(Poll) /\ queue[c] # <<>> /\ queue' = [queue EXCEPT ![c] = Tail(@)]
    BY <1>2 DEF FinishPoll, PollRaises, MonitoringTypeOK
  <2>2. poll.device # d
    BY <2>1 DEF Settled
  <2>3. row'[d] = row[d] /\ requests' = requests
    BY <1>2, <2>2 DEF FinishPoll, PollRaises, MonitoringTypeOK
  <2>4. \A e \in Channel : \A i \in DOMAIN queue'[e] : queue'[e][i].device # d
    BY <2>1, OthersRemain DEF Settled
  <2> QED BY <2>3, <2>4 DEF Settled
<1>3. CASE StartCycle \/ LoopRaises
  BY <1>1, <1>3 DEF StartCycle, LoopRaises
<1>4. ASSUME NEW e \in Device, StartScheduledPoll(e)
      PROVE  Settled(d)'
  <2>1. CASE row[e].active /\ Enqueue("loop", e, DueGroups(e))
    <3>1. e # d
      BY <2>1 DEF Settled
    <3>2. \A c \in Channel : \A i \in DOMAIN queue'[c] : queue'[c][i].device # d
      BY <2>1, <3>1, EnqueueOthers DEF Settled
    <3> QED BY <1>4, <3>2 DEF StartScheduledPoll, Settled
  <2>2. CASE UNCHANGED queue
    BY <1>1, <1>4, <2>2 DEF StartScheduledPoll
  <2> QED BY <1>4, <2>1, <2>2 DEF StartScheduledPoll
<1>5. ASSUME NEW e \in Device, StartManualPoll(e)
      PROVE  Settled(d)'
  <2>1. e # d
    BY <1>5 DEF StartManualPoll, Settled
  <2>2. \A c \in Channel : \A i \in DOMAIN queue'[c] : queue'[c][i].device # d
    BY <1>5, <2>1, EnqueueOthers DEF StartManualPoll, Settled
  <2> QED BY <1>5, <2>2 DEF StartManualPoll, Settled
<1>6. ASSUME NEW e \in Device, NEW c \in Channel, CreateDevice(e, c)
      PROVE  Settled(d)'
  BY <1>1, <1>6 DEF CreateDevice, MonitoringTypeOK, Settled
<1>7. ASSUME NEW operation \in Operation, NEW e \in Device, NEW c \in Channel, ReadDevice(operation, e, c)
      PROVE  Settled(d)'
  <2>1. e # d
    BY <1>7 DEF ReadDevice, Settled
  <2> QED BY <1>7, <2>1 DEF ReadDevice, Settled
<1>8. ASSUME NEW q \in requests, WriteDevice(q)
      PROVE  Settled(d)'
  <2>1. q.device # d
    BY DEF Settled
  <2>2. row'[d] = row[d] /\ queue' = queue /\ requests' = requests \ {q}
    BY <1>8, <2>1 DEF WriteDevice, MonitoringTypeOK
  <2> QED BY <2>2 DEF Settled
<1>9. ASSUME NEW e \in Device, FieldChanges(e)
      PROVE  Settled(d)'
  BY <1>1, <1>9 DEF FieldChanges
<1>10. CASE Restart
  BY <1>10 DEF Restart, Settled
<1>11. CASE UNCHANGED monitoringVars
  BY <1>1, <1>11 DEF monitoringVars
<1> QED BY <1>2, <1>3, <1>4, <1>5, <1>6, <1>7, <1>8, <1>9, <1>10, <1>11 DEF Next, vars

\* For any devices, channels, handlers and restarts: a removal is final once the
\* polls and handlers it overtook have ended (poll_device in polling.py reads the
\* row again only after its exchange).
THEOREM RemovalsSettle == Spec => RemovalSettles
<1>1. MonitoringTypeOK /\ [Next]_vars => [\A d \in Device : Settled(d) => Settled(d)']_vars
  BY SettledStays
<1> QED BY <1>1, MonitoringTypeCorrect, PTL DEF Spec, RemovalSettles
=============================================================================

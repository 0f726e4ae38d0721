------------------------------- MODULE Alarms -------------------------------
(***************************************************************************)
(* Alarm rules and alarm events of an Edge.  Every poll of a device        *)
(* evaluates the threshold rules and the health of the device in the       *)
(* transaction that stores its samples; the event loop runs these          *)
(* transactions one after the other.  The handlers of the web client run   *)
(* in threads and interleave with them: acknowledge_alarm reads the event  *)
(* and writes it back later, so it is two steps.                           *)
(***************************************************************************)
EXTENDS Integers, FiniteSets

CONSTANTS
  Device,      \* the devices of the plant
  Rule,        \* threshold rules (alarm_rules)
  Key,         \* measurement keys
  AnyDevice,   \* a rule without device_id
  RuleDef,     \* kind, limits, measurement and device of each rule
  Value,       \* values a measurement may take
  Slot,        \* names for the events of one source and device (bound)
  MaxAcks,     \* acknowledgements in progress (bound)
  AlarmAfter   \* consecutive errors that raise a health alarm (3 in the code)

\* The alarms without a rule, named after their measurement keys
\* system.communication.available and system.data_quality.valid.
Health == {"communication", "quality"}
Source == Health \cup Rule

RuleKind == {"measurement_above", "measurement_below", "measurement_outside"}

\* What create_alarm_rule accepts.
ASSUME AlarmAssumption ==
  /\ Rule \cap Health = {}
  /\ AnyDevice \notin Device
  /\ Value \subseteq Int
  /\ RuleDef \in [Rule -> [kind : RuleKind, threshold : Int, low : Int, high : Int,
                           deadband : Nat, key : Key, device : Device \cup {AnyDevice}]]
  /\ \A r \in Rule : RuleDef[r].low < RuleDef[r].high
  /\ MaxAcks \in Nat
  /\ AlarmAfter \in Nat \ {0}

VARIABLES
  events,      \* status of the alarm events of each device and source
  ruleActive,  \* AlarmRule.active; a rule not created or deleted is inactive
  acks         \* acknowledgements that have read their event as open

alarmVars == <<events, ruleActive, acks>>

\* An event that was never raised and one that was closed and forgotten are alike.
Status == {"closed", "open", "acknowledged"}

Ack == [device : Device, source : Source, slot : Slot]

-----------------------------------------------------------------------------
(* Thresholds with hysteresis.                                             *)

IsActive(rule, v) ==
  CASE rule.kind = "measurement_above"   -> v > rule.threshold
    [] rule.kind = "measurement_below"   -> v < rule.threshold
    [] rule.kind = "measurement_outside" -> v < rule.low \/ v > rule.high

IsClear(rule, v) ==
  CASE rule.kind = "measurement_above"   -> v <= rule.threshold - rule.deadband
    [] rule.kind = "measurement_below"   -> v >= rule.threshold + rule.deadband
    [] rule.kind = "measurement_outside" -> /\ rule.low + rule.deadband <= v
                                            /\ v <= rule.high - rule.deadband

(***************************************************************************)
(* What one poll reports: an error, or the values of the keys read well    *)
(* and whether others were read badly; errors is consecutive_errors after  *)
(* the poll, cut off at AlarmAfter.                                        *)
(***************************************************************************)
PollReport == [error : BOOLEAN, bad : BOOLEAN, errors : 0..AlarmAfter,
               good : SUBSET Key, value : [Key -> Value]]

RuleApplies(r, d, report) ==
  /\ ruleActive[r]
  /\ RuleDef[r].key \in report.good
  /\ RuleDef[r].device \in {d, AnyDevice}

\* The condition under which a source raises an event, if it has none.
Raises(source, d, report) ==
  CASE source = "communication" -> report.error /\ report.errors >= AlarmAfter
    [] source = "quality"       -> report.bad /\ report.errors >= AlarmAfter
    [] OTHER -> /\ RuleApplies(source, d, report)
                /\ IsActive(RuleDef[source], report.value[RuleDef[source].key])

\* Mutant: the loop over the health alarms stops after the first one.
ClearsCommunicationOnly(source, d, report) ==
  CASE source = "communication" -> ~report.error
    [] source = "quality"       -> FALSE
    [] OTHER -> /\ RuleApplies(source, d, report)
                /\ IsClear(RuleDef[source], report.value[RuleDef[source].key])

\* The condition under which a source closes the event it has.
Clears(source, d, report) ==
  CASE source = "communication" -> ~report.error
    [] source = "quality"       -> ~report.bad
    [] OTHER -> /\ RuleApplies(source, d, report)
                /\ IsClear(RuleDef[source], report.value[RuleDef[source].key])

-----------------------------------------------------------------------------
(* Evaluation.                                                             *)

\* Mutant: the select of the active event asks for one status only.
OpenSlots(d, source) == {s \in Slot : events[d][source][s] = "open"}

\* Mutant: the select of the active event asks for the other status only.
AcknowledgedSlots(d, source) == {s \in Slot : events[d][source][s] = "acknowledged"}

ActiveSlots(d, source) == {s \in Slot : events[d][source][s] # "closed"}

\* A slot is free for a new event when no acknowledgement still refers to it.
FreeSlots(d, source) ==
  {s \in Slot : /\ events[d][source][s] = "closed"
                /\ [device |-> d, source |-> source, slot |-> s] \notin acks}

\* The active event, any one of several (".limit(1)"), or else where a new one goes.
Located(d, source) ==
  IF ActiveSlots(d, source) # {} THEN ActiveSlots(d, source)
  ELSE {s \in FreeSlots(d, source) : s = CHOOSE t \in FreeSlots(d, source) : TRUE}

\* The events of a source after the poll; s is the slot that was located.
EventsAfter(d, source, report, s) ==
  IF ActiveSlots(d, source) = {} /\ Raises(source, d, report)
  THEN [events[d][source] EXCEPT ![s] = "open"]
  ELSE IF ActiveSlots(d, source) # {} /\ Clears(source, d, report)
  THEN [events[d][source] EXCEPT ![s] = "closed"]
  ELSE events[d][source]

\* evaluate_alarm_rules and evaluate_device_health for one poll of device d.
Evaluate(d, report) ==
  \E at \in [Source -> Slot] :
    /\ \A source \in Source : at[source] \in Located(d, source)
    /\ events' = [events EXCEPT ![d] =
         [source \in Source |-> EventsAfter(d, source, report, at[source])]]
    /\ UNCHANGED <<ruleActive, acks>>

-----------------------------------------------------------------------------
(* The web client.                                                         *)

\* acknowledge_alarm reads the event and goes on only if it is open ...
AcknowledgeRead(d, source, s) ==
  /\ events[d][source][s] = "open"
  /\ Cardinality(acks) < MaxAcks
  /\ acks' = acks \cup {[device |-> d, source |-> source, slot |-> s]}
  /\ UNCHANGED <<events, ruleActive>>

\* Mutant: the status, a free string, is misspelt.
AcknowledgeMisspelt(a) ==
  /\ a \in acks
  /\ events' = [events EXCEPT ![a.device][a.source][a.slot] = "acknowledge"]
  /\ acks' = acks \ {a}
  /\ UNCHANGED ruleActive

\* ... and then writes its status without looking at it again.
AcknowledgeWrite(a) ==
  /\ a \in acks
  /\ events' = [events EXCEPT ![a.device][a.source][a.slot] = "acknowledged"]
  /\ acks' = acks \ {a}
  /\ UNCHANGED ruleActive

CloseEvent(d, source, s) ==
  /\ events[d][source][s] # "closed"
  /\ events' = [events EXCEPT ![d][source][s] = "closed"]
  /\ UNCHANGED <<ruleActive, acks>>

\* create_alarm_rule, set_alarm_rule_active, and delete_alarm_rule, which
\* archives a rule with events and deletes one without.
SetRuleActive(r, active) ==
  /\ ruleActive[r] # active
  /\ ruleActive' = [ruleActive EXCEPT ![r] = active]
  /\ UNCHANGED <<events, acks>>

\* delete_device turns off the rules of the device it removes.
RulesOf(d) == {r \in Rule : RuleDef[r].device = d}

RemoveRules(d) ==
  /\ ruleActive' = [r \in Rule |-> ruleActive[r] /\ r \notin RulesOf(d)]
  /\ UNCHANGED <<events, acks>>

\* The process ends: no acknowledgement in progress is written any more.
ForgetAcks ==
  /\ acks' = {}
  /\ UNCHANGED <<events, ruleActive>>

WebStep ==
  \/ \E d \in Device, source \in Source, s \in Slot : AcknowledgeRead(d, source, s)
  \/ \E a \in acks : AcknowledgeWrite(a)
  \/ \E d \in Device, source \in Source, s \in Slot : CloseEvent(d, source, s)
  \/ \E r \in Rule, active \in BOOLEAN : SetRuleActive(r, active)

-----------------------------------------------------------------------------
AlarmsStart ==
  /\ events = [d \in Device |-> [source \in Source |-> [s \in Slot |-> "closed"]]]
  /\ ruleActive = [r \in Rule |-> FALSE]
  /\ acks = {}

\* The reports a poll can make: an error leaves no samples, and errors counts up to now.
Consistent(report) ==
  /\ report.error => ~report.bad /\ report.good = {}
  /\ (report.errors > 0) = (report.error \/ report.bad)

AlarmsNext ==
  \/ \E d \in Device, report \in PollReport : Consistent(report) /\ Evaluate(d, report)
  \/ WebStep
  \/ \E d \in Device : RemoveRules(d)
  \/ ForgetAcks

AlarmsSpec == AlarmsStart /\ [][AlarmsNext]_alarmVars

-----------------------------------------------------------------------------
(* Properties.                                                             *)

\* Types of the alarm tables and of the acknowledgements in progress.
AlarmsTypeOK ==
  /\ events \in [Device -> [Source -> [Slot -> Status]]]
  /\ ruleActive \in [Rule -> BOOLEAN]
  /\ acks \subseteq Ack

\* Whatever polls and handlers do to each other, a source has at most one open
\* event per device: a poll raises one only when it finds no active one.
OneOpenEvent ==
  \A d \in Device, source \in Source, s, t \in Slot :
    events[d][source][s] = "open" /\ events[d][source][t] = "open" => s = t
=============================================================================

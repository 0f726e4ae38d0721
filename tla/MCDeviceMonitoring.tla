------------------------- MODULE MCDeviceMonitoring -------------------------
(* DeviceMonitoring with a rule on the meter and a few conditions, for TLC. *)
EXTENDS DeviceMonitoring

CONSTANTS Groups, NormalEvery, SlowEvery, Faults

MCRuleDef == [r \in Rule |->
  [kind |-> "measurement_above", threshold |-> 1, low |-> 0, high |-> 3, deadband |-> 1,
   key |-> "power", device |-> "meter"]]

MCDeviceGroups == [d \in Device |-> Groups]
MCKeyGroup == [k \in Key |-> "fast"]
MCPeriod == [fast |-> 1, normal |-> NormalEvery, slow |-> SlowEvery]

Answering(g, answer) ==
  [link |-> TRUE, group |-> [h \in PollingGroup |-> IF h = g THEN answer ELSE "good"]]
NoLink == [Answering("fast", "good") EXCEPT !.link = FALSE]

MCCondition ==
  {Answering("fast", "good")}
    \cup (IF "link" \in Faults THEN {NoLink} ELSE {})
    \cup (IF "fast" \in Faults THEN {Answering("fast", "bad"), Answering("fast", "error")} ELSE {})
    \cup (IF "normal" \in Faults THEN {Answering("normal", "bad"), Answering("normal", "error")} ELSE {})
=============================================================================

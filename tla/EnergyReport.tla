----------------------------- MODULE EnergyReport -----------------------------
(***************************************************************************)
(* The energy report: what each meter counted in a period, the total of    *)
(* the plant and its breakdown by the meters below (energy_reporting.py,   *)
(* counter_delta in kpi.py).  Time is counted in polls of the meters.  A   *)
(* meter counts what flows to the node it is bound to and to the nodes     *)
(* below.  Prices, power, production and calendars are left out.           *)
(***************************************************************************)
EXTENDS Integers, Sequences, FiniteSets, FiniteSetsExt

CONSTANTS
    Meters,     \* number of active devices bound to the imported energy of a node
    Node, Above0,\* nodes of the energy tree; no parent
    Mains,      \* nodes of category "meter"
    LastPoll,   \* bound: the last poll
    MaxFaults   \* bound: readings missed and counters reset

ASSUME ReportAssumption ==
    /\ IsFiniteSet(Node) /\ Above0 \notin Node /\ Mains \subseteq Node
    /\ Meters \in Nat \ {0} /\ LastPoll \in Nat /\ MaxFaults \in Nat

\* The meters, in the order in which their bindings were created.
Meter == 1 .. Meters

VARIABLES
    plan,     \* the tree, the node of each meter and the authoritative meter
    flow,     \* flow[t]: the node that a unit of energy flowed to before poll t
    counter,  \* counter[m]: what the meter shows
    readings, \* the good samples of each meter
    resets    \* resets of counters: meter and poll

reportVars == <<plan, flow, counter, readings, resets>>

MeterReading(t, v) == [poll |-> t, value |-> v]

\* A node and the nodes above it.
Upwards(parent, n) ==
    LET up[k \in 0 .. Cardinality(Node)] ==
            IF k = 0 THEN {n} ELSE up[k - 1] \cup ({parent[a] : a \in up[k - 1]} \ {Above0})
    IN up[Cardinality(Node)]

\* _primary_source: the first binding to a node of category "meter", else the
\* first.
Primary(at) ==
    LET preferred == {m \in Meter : at[m] \in Mains}
    IN IF preferred # {} THEN Min(preferred) ELSE 1

ReportInit ==
    /\ \E parent \in [Node -> Node \cup {Above0}], at \in [Meter -> Node] :
        /\ \A n \in Node : parent[n] # Above0 => n \notin Upwards(parent, parent[n])
        /\ plan = [parent |-> parent, above |-> [n \in Node |-> Upwards(parent, n)],
                   at |-> at, main |-> Primary(at)]
    /\ flow = <<>> /\ resets = {}
    /\ counter = [m \in Meter |-> 1] /\ readings = [m \in Meter |-> {MeterReading(0, 1)}]
-----------------------------------------------------------------------------
Counts(m, n) == plan.at[m] \in plan.above[n]

poll == Len(flow)
Missed == {miss \in Meter \X (1 .. poll) : \A r \in readings[miss[1]] : r.poll # miss[2]}

\* A unit of energy flows to a node; counters may have been reset before, and
\* readings fail.
NextPoll(n, missed, reset) ==
    /\ poll < LastPoll
    /\ Cardinality(Missed) + Cardinality(resets) <= MaxFaults - Cardinality(missed) - Cardinality(reset)
    /\ flow' = Append(flow, n)
    /\ counter' = [m \in Meter |-> (IF m \in reset THEN 0 ELSE counter[m])
                                  + (IF Counts(m, n) THEN 1 ELSE 0)]
    /\ readings' = [m \in Meter |-> IF m \in missed THEN readings[m]
                                    ELSE readings[m] \cup {MeterReading(poll + 1, counter'[m])}]
    /\ resets' = resets \cup (reset \X {poll + 1})
    /\ UNCHANGED plan

ReportNext ==
    \E n \in Node, missed, reset \in SUBSET Meter : NextPoll(n, missed, reset)

ReportSpec == ReportInit /\ [][ReportNext]_reportVars
-----------------------------------------------------------------------------
Earlier(m, r) == {q \in readings[m] : q.poll < r.poll}
Latest(S) == CHOOSE r \in S : \A q \in S : q.poll <= r.poll
Before(m, r) == Latest(Earlier(m, r))

\* Mutant: the difference, whichever reading is larger.
AbsoluteDelta(previous, current) ==
    IF current >= previous THEN current - previous ELSE previous - current

\* counter_delta, of counters that never show a negative value.
CounterDelta(previous, current) == IF current >= previous THEN current - previous ELSE current

\* counter_samples: the readings of a period, each with the one before it; the
\* first may lie before the period.
Increments(m, start) == {r \in readings[m] : r.poll >= start /\ Earlier(m, r) # {}}

\* counter_usage: no value without an increment.
Measured(m, start) == Increments(m, start) # {}
Usage(m, start) ==
    MapThenSumSet(LAMBDA r : CounterDelta(Before(m, r).value, r.value), Increments(m, start))

\* metered_assets.
Submetered == {plan.at[m] : m \in Meter \ {plan.main}}

\* Mutant: every meter is a row of its own.
NeverShadowed(n) == FALSE

\* The walk from a node up to the authoritative meter's meets another meter.
Shadowed(n) ==
    LET stop == {Above0, plan.at[plan.main]}
        up[k \in 0 .. Cardinality(Node)] ==
            IF k = 0 THEN {plan.parent[n]} \ stop
            ELSE up[k - 1] \cup ({plan.parent[a] : a \in up[k - 1]} \ stop)
    IN up[Cardinality(Node)] \cap Submetered # {}

\* breakdown, and the energy that no row explains.
Rows(start) == {m \in Meter \ {plan.main} : ~Shadowed(plan.at[m]) /\ Measured(m, start)}
Unattributed(start) ==
    Usage(plan.main, start) - MapThenSumSet(LAMBDA m : Usage(m, start), Rows(start))
-----------------------------------------------------------------------------
ReportTypeOK ==
    /\ plan \in [parent: [Node -> Node \cup {Above0}], above: [Node -> SUBSET Node],
                at: [Meter -> Node], main: Meter]
    /\ flow \in Seq(Node) /\ poll <= LastPoll
    /\ counter \in [Meter -> Nat] /\ resets \subseteq Meter \X (1 .. LastPoll)
    /\ \A m \in Meter : readings[m] \subseteq [poll: 0 .. poll, value: Nat]

\* The polls between which a period's report counts the energy of a meter.
From(m, start) == Min({Before(m, r).poll : r \in Increments(m, start)})
Till(m) == Latest(readings[m]).poll
Window(m, start) == From(m, start) + 1 .. Till(m)
WasReset(m) == \E t \in 1 .. poll : <<m, t>> \in resets

\* The units a meter counted after a poll, up to another one.
Flowed(m, after, till) == Cardinality({t \in after + 1 .. till : Counts(m, flow[t])})

\* A report never claims more energy than flowed between the reading before the
\* period and the last one, through missed readings and resets seen or not; and
\* exactly that if the counter was not reset.
ReportedWasConsumed ==
    \A m \in Meter, start \in 0 .. poll :
        Measured(m, start) =>
            LET consumed == Flowed(m, From(m, start), Till(m))
            IN /\ Usage(m, start) <= consumed
               /\ ~WasReset(m) => Usage(m, start) = consumed

\* The hierarchy is right: a meter a node, the authoritative one above the rest.
Right ==
    /\ \A m, other \in Meter : plan.at[m] = plan.at[other] => m = other
    /\ \A m \in Meter : Counts(plan.main, plan.at[m])

\* All meters were read at both ends of what is counted, and none was reset.
Aligned(start) ==
    /\ \A m \in Meter : ~WasReset(m) /\ Measured(m, start)
    /\ \A m \in Meter : Window(m, start) = Window(plan.main, start)

\* docs/energy-monitoring.md: a negative rest tells of double counting, a wrong
\* hierarchy or readings that are not aligned.  Without those, no energy is
\* counted in two rows: the rest is what flowed to nodes below no row, and each
\* meter is a row or below one.
UnattributedIsReal ==
    Right => \A start \in 0 .. poll : Aligned(start) =>
        /\ Unattributed(start) =
             Cardinality({t \in Window(plan.main, start) :
                            /\ Counts(plan.main, flow[t])
                            /\ \A m \in Rows(start) : ~Counts(m, flow[t])})
        /\ \A m \in Meter \ {plan.main} : \E row \in Rows(start) : Counts(row, plan.at[m])
-----------------------------------------------------------------------------
(* The inductive strengthening of ReportedWasConsumed: any two readings    *)
(* differ by what flowed between them, unless the counter was reset, and   *)
(* then the later one shows no more than that.                             *)
Explains(m, q, till, value) ==
    \/ value = q.value + Flowed(m, q.poll, till)
    \/ WasReset(m) /\ value <= Flowed(m, q.poll, till)

PlanIsATree ==
    \A n \in Node :
        /\ plan.above[n] = Upwards(plan.parent, n)
        /\ plan.parent[n] # Above0 => n \notin plan.above[plan.parent[n]]

ReadingsAreExplained(m) ==
    /\ IsFiniteSet(readings[m])
    /\ \A q, r \in readings[m] : q.poll = r.poll => q = r
    /\ \A q \in readings[m] :
        /\ Explains(m, q, poll, counter[m])
        /\ \A r \in readings[m] : q.poll <= r.poll => Explains(m, q, r.poll, r.value)

ReportInv == ReportTypeOK /\ PlanIsATree /\ \A m \in Meter : ReadingsAreExplained(m)
=============================================================================

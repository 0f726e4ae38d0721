----------------------------- MODULE EnergyRail -----------------------------
(***************************************************************************)
(* The live energy tree beside every page of the Edge                      *)
(* (energy-context-rail.tsx): loaded when mounted, by a timer every five   *)
(* seconds and by hand; answers arrive in any order.                       *)
(***************************************************************************)
EXTENDS Naturals

CONSTANTS
    MaxVersion, \* bound: how often the measurements change
    NoTree      \* nothing loaded yet

ASSUME RailAssumption == MaxVersion \in Nat /\ NoTree \notin Nat

VARIABLES
    version,  \* the server's measurements
    rail      \* the component: useState values, and its requests in flight
              \* (each named by the version the server answers with)

Version == 0 .. MaxVersion
Rail == [open: BOOLEAN, data: Version \cup {NoTree}, loading: BOOLEAN, error: BOOLEAN,
         asked: SUBSET Version]

\* The timer's load and the one of the effect; silent loads do not spin.
Load(r, silent) ==
    [r EXCEPT !.loading = IF silent THEN @ ELSE TRUE, !.asked = @ \cup {version}]

NewRail(open) ==
    Load([open |-> open, data |-> NoTree, loading |-> TRUE, error |-> FALSE, asked |-> {}], FALSE)

\* Unmounted: the timer is cleared; localStorage keeps whether it was open.
Unmounted(r) ==
    [open |-> r.open, data |-> NoTree, loading |-> TRUE, error |-> FALSE, asked |-> {}]

\* Mutant: the timer stops once there is a tree.
RailTickOnce == rail.data = NoTree /\ rail' = Load(rail, TRUE)

RailTick == rail' = Load(rail, TRUE)
RailRefresh == rail' = Load(rail, FALSE)
RailToggle == rail' = [rail EXCEPT !.open = ~@]

RailAnswered(v) ==
    /\ v \in rail.asked
    /\ rail' = [rail EXCEPT !.data = v, !.error = FALSE, !.loading = FALSE, !.asked = @ \ {v}]

RailFailed(v) ==
    /\ v \in rail.asked
    /\ rail' = [rail EXCEPT !.error = TRUE, !.loading = FALSE, !.asked = @ \ {v}]

RailStep ==
    /\ \/ RailTick \/ RailRefresh \/ RailToggle
       \/ \E v \in Version : RailAnswered(v) \/ RailFailed(v)
    /\ UNCHANGED version

Measure == version < MaxVersion /\ version' = version + 1
=============================================================================

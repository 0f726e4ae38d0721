--------------------------- MODULE DiscoveryDialog ---------------------------
(***************************************************************************)
(* The search for Modbus devices and the installation of those found       *)
(* (modbus-discovery.tsx).  Search and installation may be in flight at    *)
(* the same time, and the drawer can be closed or given another device     *)
(* meanwhile.                                                              *)
(***************************************************************************)
EXTENDS Naturals

CONSTANTS
    Unit,       \* devices that answer in the network
    Candidate,  \* the profiles suggested
    Protocols,  \* Protocols[p]: subset of {"tcp", "rtu"}
    None        \* no result, nothing selected

ASSUME DiscoveryAssumption ==
    /\ Protocols \in [Candidate -> SUBSET {"tcp", "rtu"}]
    /\ None \notin Candidate \cup Unit

VARIABLES
    configured, \* the server: units that are devices of the plant
    discovery,  \* the component, and its requests in flight
    confirmed   \* history: the units whose installation was answered

discoveryVars == <<configured, discovery, confirmed>>

\* A result: the units found, and those of them the server knew by then.
Result == [found: SUBSET Unit, known: SUBSET Unit]
\* An installation, and the marks of the render in which it was clicked.
Order == [unit: Unit, profile: Candidate, transport: {"tcp", "rtu"}, marks: SUBSET Unit]
Discovery ==
    [result: Result \cup {None}, scanning: BOOLEAN, selected: Unit \cup {None},
     profile: Candidate \cup {None}, transport: {"tcp", "rtu"}, name: BOOLEAN,
     installing: BOOLEAN, installed: SUBSET Unit, scan: Result \cup {None}, orders: SUBSET Order]

DiscoveryInit ==
    /\ configured \in SUBSET Unit
    /\ discovery = [result |-> None, scanning |-> FALSE, selected |-> None, profile |-> None,
                    transport |-> "tcp", name |-> FALSE, installing |-> FALSE, installed |-> {},
                    scan |-> None, orders |-> {}]
    /\ confirmed = {}
-----------------------------------------------------------------------------
\* scan(): result and selection are cleared, the button is disabled.
Scan ==
    /\ ~discovery.scanning /\ UNCHANGED <<configured, confirmed>>
    /\ \E found \in SUBSET Unit :
         discovery' = [discovery EXCEPT !.scanning = TRUE, !.result = None, !.selected = None,
                                        !.scan = [found |-> found, known |-> found \cap configured]]

ScanEnds ==
    /\ discovery.scan # None /\ UNCHANGED <<configured, confirmed>>
    /\ \E result \in {discovery.scan, None} :
         discovery' = [discovery EXCEPT !.scanning = FALSE, !.result = result, !.scan = None]

\* A unit is installed, as far as the list knows.
Marked(u) == u \in discovery.result.known \/ u \in discovery.installed
Offers(u) ==
    /\ discovery.result # None /\ ~discovery.scanning
    /\ u \in discovery.result.found /\ ~Marked(u)

\* prepare(): the first candidate for direct TCP, if there is one.
Prepare(u) ==
    /\ Offers(u) /\ UNCHANGED <<configured, confirmed>>
    /\ \E p \in {q \in Candidate : "tcp" \in Protocols[q]} \cup {None} :
         /\ p = None => \A q \in Candidate : "tcp" \notin Protocols[q]
         /\ discovery' = [discovery EXCEPT !.selected = u, !.transport = "tcp", !.profile = p, !.name = TRUE]

Drawer == discovery.selected # None /\ UNCHANGED <<configured, confirmed>>

CloseDrawer == Drawer /\ discovery' = [discovery EXCEPT !.selected = None]
SetTransport(t) == Drawer /\ discovery' = [discovery EXCEPT !.transport = t, !.profile = None]
SetName(given) == Drawer /\ discovery' = [discovery EXCEPT !.name = given]

\* compatibleCandidates of the transport, or none.
SetProfile(p) ==
    /\ Drawer /\ (p # None => discovery.transport \in Protocols[p])
    /\ discovery' = [discovery EXCEPT !.profile = p]

\* Mutant: the button stays enabled while an installation is in flight.
CanInstallAgain == discovery.profile # None /\ discovery.name

CanInstall == ~discovery.installing /\ discovery.profile # None /\ discovery.name

\* install() up to the request; then its button is disabled.
InstallUnit ==
    /\ Drawer /\ CanInstall
    /\ discovery' = [discovery EXCEPT !.installing = TRUE,
          !.orders = @ \cup {[unit |-> discovery.selected, profile |-> discovery.profile,
                               transport |-> discovery.transport, marks |-> discovery.installed]}]

\* Installed: the marks become those of the render of the click and this unit,
\* the drawer closes whatever it shows by now, and the parent loads.
UnitInstalled(o) ==
    /\ o \in discovery.orders /\ o.unit \notin configured
    /\ configured' = configured \cup {o.unit} /\ confirmed' = confirmed \cup {o.unit}
    /\ discovery' = [discovery EXCEPT !.installed = o.marks \cup {o.unit},
                                      !.selected = None, !.orders = @ \ {o}]

\* Refused, or done and its answer lost.
InstallRefused(o) ==
    /\ o \in discovery.orders
    /\ configured' \in {configured, configured \cup {o.unit}} /\ UNCHANGED confirmed
    /\ discovery' = [discovery EXCEPT !.orders = @ \ {o}, !.installing = FALSE]

\* onInstalled ends, well or not.
ParentLoaded ==
    /\ discovery.installing /\ discovery.orders = {} /\ UNCHANGED <<configured, confirmed>>
    /\ discovery' = [discovery EXCEPT !.installing = FALSE]

DiscoveryAnswer == ParentLoaded \/ \E o \in discovery.orders : UnitInstalled(o) \/ InstallRefused(o)

DiscoveryNext ==
    \/ DiscoveryAnswer \/ Scan \/ ScanEnds \/ CloseDrawer \/ InstallUnit
    \/ \E u \in Unit : Prepare(u)
    \/ \E t \in {"tcp", "rtu"} : SetTransport(t)
    \/ \E given \in BOOLEAN : SetName(given)
    \/ \E p \in Candidate \cup {None} : SetProfile(p)

DiscoverySpec ==
    /\ DiscoveryInit /\ [][DiscoveryNext]_discoveryVars
    /\ WF_discoveryVars(DiscoveryAnswer) /\ WF_discoveryVars(ScanEnds)
-----------------------------------------------------------------------------
DiscoveryTypeOK == confirmed \subseteq configured /\ configured \subseteq Unit /\ discovery \in Discovery

\* A unit this dialog installed stays marked, is not offered and has no drawer,
\* although the marks come from the render of a click and a search that began
\* before finds it unknown to the server; what is ordered has a model for the
\* transport chosen.
OffersOnlyNew ==
    /\ confirmed \subseteq discovery.installed /\ discovery.selected \notin confirmed
    /\ \A o \in discovery.orders : o.unit \notin confirmed /\ o.transport \in Protocols[o.profile]

\* Why: one installation at a time is in flight, which keeps the marks, and the
\* drawer's model fits its transport.
DiscoveryInv ==
    /\ DiscoveryTypeOK /\ OffersOnlyNew
    /\ discovery.profile # None => discovery.transport \in Protocols[discovery.profile]
    /\ \A o \in discovery.orders : o.marks = discovery.installed /\ discovery.installing
    /\ \A o, other \in discovery.orders : o = other

\* Neither the search nor the installation stays busy.
DiscoveryEnds == (discovery.installing ~> ~discovery.installing) /\ (discovery.scanning ~> ~discovery.scanning)
=============================================================================

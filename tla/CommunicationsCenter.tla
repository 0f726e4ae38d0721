------------------------ MODULE CommunicationsCenter ------------------------
(***************************************************************************)
(* "Comunicazioni": the list of channels and the form beside it, the       *)
(* network profile of an interface, the search for devices                 *)
(* (communications-center.tsx) and the server's handlers for channels.     *)
(* No button is disabled while a request is in flight.  Of a channel its   *)
(* kind is kept and whether its "port" is a number or the path of a serial *)
(* port: edit() fills both fields of the form with that one value.         *)
(***************************************************************************)
EXTENDS Naturals, FiniteSets

CONSTANTS
    Link,       \* channels that may exist
    Vacant,     \* no channel, a new one, nothing loaded
    MaxCommCalls\* bound: requests in flight

ASSUME CommAssumption == Vacant \notin Link /\ IsFiniteSet(Link) /\ MaxCommCalls \in Nat

VARIABLES
    links,  \* the server: the configuration of each channel
    comm    \* the mounted component, and its requests in flight

commVars == <<links, comm>>

Kind == {"modbus_tcp", "modbus_rtu_tcp", "modbus_rtu"}
Port == {"number", "path"}
Config == [kind: Kind, port: Port]
Links == [Link -> Config \cup {Vacant}]
ChannelForm == [of: Link \cup {Vacant}, kind: Kind, port: Port, serial: Port]
CommCall == [op: {"load"}, data: Links]
              \cup [op: {"save"}, link: Link \cup {Vacant}, config: Config]
              \cup [op: {"delete"}, link: Link] \cup [op: {"network"}]
Comm == [tab: {"channels", "network", "serial"}, list: Links, editing: Link \cup {Vacant},
         form: ChannelForm, network: BOOLEAN, discovery: BOOLEAN, calls: SUBSET CommCall]

Present(table) == {l \in Link : table[l] # Vacant}
NewChannel == [of |-> Vacant, kind |-> "modbus_tcp", port |-> "number", serial |-> "path"]
Reading == [op |-> "load", data |-> links']

CommInit ==
    /\ links \in [Link -> {Vacant, [kind |-> "modbus_tcp", port |-> "number"],
                                   [kind |-> "modbus_rtu", port |-> "path"]}]
    /\ comm = [tab |-> "channels", list |-> [l \in Link |-> Vacant], editing |-> Vacant,
               form |-> NewChannel, network |-> FALSE, discovery |-> FALSE,
               calls |-> {[op |-> "load", data |-> links]}]
-----------------------------------------------------------------------------
\* The dialog of the search covers the page.
Uncovered == ~comm.discovery /\ UNCHANGED links
FormAt == Uncovered /\ comm.tab = "channels"
CanCall == Cardinality(comm.calls) < MaxCommCalls
Call1(call) == CanCall /\ comm' = [comm EXCEPT !.calls = @ \cup {call}]

CommTab(t) == Uncovered /\ comm' = [comm EXCEPT !.tab = t]
ReloadChannels == FormAt /\ Call1(Reading)

\* edit(c): the channel as listed; both port fields take its port.
EditChannel(l) ==
    /\ FormAt /\ l \in Present(comm.list)
    /\ comm' = [comm EXCEPT !.editing = l,
                            !.form = [of |-> l, kind |-> comm.list[l].kind,
                                      port |-> comm.list[l].port, serial |-> comm.list[l].port]]

\* Mutant: the form keeps the values of the channel that is not edited any more.
CancelKeepsForm ==
    /\ FormAt /\ comm.editing # Vacant
    /\ comm' = [comm EXCEPT !.editing = Vacant]

CancelChannel ==
    /\ FormAt /\ comm.editing # Vacant
    /\ comm' = [comm EXCEPT !.editing = Vacant, !.form = NewChannel]

ChooseKind(k) == FormAt /\ comm' = [comm EXCEPT !.form.kind = k]

\* A number is typed for TCP; the serial ports found are offered for RS485.
TypePort == FormAt /\ comm.form.kind # "modbus_rtu" /\ comm' = [comm EXCEPT !.form.port = "number"]
ChooseSerial == FormAt /\ comm.form.kind = "modbus_rtu" /\ comm' = [comm EXCEPT !.form.serial = "path"]

\* saveConnection up to its request.
Sent(form) ==
    [kind |-> form.kind, port |-> IF form.kind = "modbus_rtu" THEN form.serial ELSE form.port]
SaveChannel == FormAt /\ Call1([op |-> "save", link |-> comm.editing, config |-> Sent(comm.form)])

\* remove(), once confirmed: the form may go on showing the channel.
RemoveChannel(l) == FormAt /\ l \in Present(comm.list) /\ Call1([op |-> "delete", link |-> l])

\* startNetwork, its form closed, and saveNetwork.
EditNetwork(open) == Uncovered /\ comm.tab = "network" /\ comm' = [comm EXCEPT !.network = open]
SaveNetwork == Uncovered /\ comm.tab = "network" /\ comm.network /\ Call1([op |-> "network"])

OpenDiscovery == Uncovered /\ comm' = [comm EXCEPT !.discovery = TRUE]
CloseDiscovery == comm.discovery /\ UNCHANGED links /\ comm' = [comm EXCEPT !.discovery = FALSE]
FoundInstalled == comm.discovery /\ UNCHANGED links /\ Call1(Reading)

\* validate_connection_config: Number() of a path is null for the server, which
\* refuses it; any text is a serial port, "502" too.
ValidConfig(config) == config.kind # "modbus_rtu" => config.port = "number"

Applied(c) ==
    \/ /\ c.op = "save" /\ ValidConfig(c.config)
       /\ \E l \in IF c.link # Vacant THEN Present(links) \cap {c.link} ELSE Link \ Present(links) :
            links' = [links EXCEPT ![l] = c.config]
    \/ c.op = "delete" /\ links[c.link] # Vacant /\ links' = [links EXCEPT ![c.link] = Vacant]
    \/ c.op = "network" /\ UNCHANGED links

\* What each handler does once answered, whatever is edited by now; then load.
CommandDone(c) ==
    /\ c \in comm.calls /\ Applied(c)
    /\ comm' = [comm EXCEPT
          !.calls = (@ \ {c}) \cup {Reading},
          !.editing = IF c.op = "save" THEN Vacant ELSE @,
          !.form = IF c.op = "save" THEN NewChannel ELSE @,
          !.network = @ /\ c.op # "network"]

\* Refused (a channel in use cannot be removed or change its kind), or lost.
CommandFailed(c) ==
    /\ c \in comm.calls /\ UNCHANGED links
    /\ comm' = [comm EXCEPT !.calls = @ \ {c}]

ChannelsLoaded(c) ==
    /\ c \in comm.calls /\ c.op = "load" /\ UNCHANGED links
    /\ comm' = [comm EXCEPT !.calls = @ \ {c}, !.list = c.data]

CommNext ==
    \/ \E c \in comm.calls : CommandDone(c) \/ CommandFailed(c) \/ ChannelsLoaded(c)
    \/ \E t \in {"channels", "network", "serial"} : CommTab(t)
    \/ \E l \in Link : EditChannel(l) \/ RemoveChannel(l)
    \/ \E k \in Kind : ChooseKind(k)
    \/ \E open \in BOOLEAN : EditNetwork(open)
    \/ ReloadChannels \/ CancelChannel \/ TypePort \/ ChooseSerial \/ SaveChannel \/ SaveNetwork
    \/ OpenDiscovery \/ CloseDiscovery \/ FoundInstalled

CommSpec == CommInit /\ [][CommNext]_commVars
-----------------------------------------------------------------------------
CommTypeOK == links \in Links /\ comm \in Comm

\* However answers and edits interleave, the form holds the values of the channel
\* it will be saved to, and no TCP channel is stored with the path that edit()
\* left in its port field.
ChannelsAreKept ==
    /\ comm.form.of = comm.editing
    /\ \A l \in Present(links) : ValidConfig(links[l])
=============================================================================

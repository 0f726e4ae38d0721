------------------------- MODULE ProvisioningWizard -------------------------
(***************************************************************************)
(* The guided installation of a device: model, communication, position,   *)
(* check (device-provisioning-wizard.tsx).  The steps can be revisited and *)
(* their fields changed also while the installation is in flight; the     *)
(* parent may give the wizard other channels and assets at any time.  Of a *)
(* text only whether it is empty is kept.                                  *)
(***************************************************************************)
EXTENDS Naturals

CONSTANTS
    Driver,         \* installable profiles
    Speaks,         \* Speaks[p]: subset of {"tcp", "rtu"}
    Measurable,     \* the profiles with a measurement to be placed
    Bus,            \* channels configured when the wizard opens
    BusKind,        \* "tcp" or "rtu"
    Automatic,      \* the entry "TCP diretto - configurazione automatica"
    Nothing         \* no choice

ASSUME WizardAssumption ==
    /\ Speaks \in [Driver -> SUBSET {"tcp", "rtu"}]
    /\ Measurable \subseteq Driver
    /\ BusKind \in [Bus -> {"tcp", "rtu"}]
    /\ Automatic \notin Bus /\ Nothing \notin Driver \cup Bus \cup {Automatic}

VARIABLES
    wizard,    \* the useState values
    channels,  \* the parent's connections
    assets,    \* whether the parent has assets
    sent,      \* the installation in flight: waiting for its answer, or for the poll's
    device     \* the server: was a device installed from here, and then polled well

wizardVars == <<wizard, channels, assets, sent, device>>

Choice == Bus \cup {Automatic, Nothing}
Wizard == [step: 0 .. 4, profile: Driver \cup {Nothing}, connection: Choice,
           name: BOOLEAN, host: BOOLEAN, placement: {"existing", "new"}, asset: BOOLEAN,
           assetName: BOOLEAN, busy: BOOLEAN, warning: BOOLEAN]
Installation == [phase: {"install", "poll"}, profile: Driver \cup {Nothing}, connection: Choice,
                 kind: {"tcp", "rtu"}, name: BOOLEAN, host: BOOLEAN, placed: BOOLEAN]

ASSUME NoChoiceIsNoRecord == Nothing \notin Installation

\* compatibleConnections, of the parent's present list.
Offered(p) ==
    IF p = Nothing THEN {}
    ELSE {c \in channels : BusKind[c] \in Speaks[p]}
            \cup (IF "tcp" \in Speaks[p] THEN {Automatic} ELSE {})

KindOf(c) == IF c = Automatic THEN "tcp" ELSE BusKind[c]

\* connection?.kind === "modbus_tcp": a channel that is gone counts as a bus.
ByAddress == wizard.connection \in Offered(wizard.profile) /\ KindOf(wizard.connection) = "tcp"
Placed == IF wizard.placement = "existing" THEN wizard.asset ELSE wizard.assetName

NewWizard(withAssets) ==
    [step |-> 0, profile |-> Nothing, connection |-> Nothing, name |-> FALSE, host |-> FALSE,
     placement |-> IF withAssets THEN "existing" ELSE "new", asset |-> withAssets,
     assetName |-> FALSE, busy |-> FALSE, warning |-> FALSE]

WizardInit ==
    /\ channels = Bus /\ assets \in BOOLEAN
    /\ wizard = NewWizard(assets)
    /\ sent = Nothing /\ device = "none"
-----------------------------------------------------------------------------
Elsewhere == UNCHANGED <<channels, assets, sent, device>>

\* Mutant: another model keeps the channel chosen for the one before.
DriverKeepsBus(p) ==
    /\ wizard.step = 0 /\ Elsewhere
    /\ wizard' = [wizard EXCEPT !.profile = p, !.name = TRUE, !.assetName = TRUE]

\* Step 0; the names follow the model only while they are empty.
ChooseDriver(p) ==
    /\ wizard.step = 0 /\ Elsewhere
    /\ wizard' = [wizard EXCEPT !.profile = p,
                                !.connection = IF "tcp" \in Speaks[p] THEN Automatic ELSE Nothing,
                                !.name = TRUE, !.assetName = TRUE]

\* Step 1.
ChooseBus(c) ==
    /\ wizard.step = 1 /\ c \in Offered(wizard.profile) /\ Elsewhere
    /\ wizard' = [wizard EXCEPT !.connection = c]

TypeName(given) == wizard.step = 1 /\ Elsewhere /\ wizard' = [wizard EXCEPT !.name = given]
TypeHost(given) == wizard.step = 1 /\ ByAddress /\ Elsewhere /\ wizard' = [wizard EXCEPT !.host = given]

\* Step 2.
ChoosePlacement(where) ==
    /\ wizard.step = 2 /\ (where = "new" \/ assets) /\ Elsewhere
    /\ wizard' = [wizard EXCEPT !.placement = where]

ChooseAsset(given) ==
    /\ wizard.step = 2 /\ wizard.placement = "existing" /\ (given => assets) /\ Elsewhere
    /\ wizard' = [wizard EXCEPT !.asset = given]

TypeAssetName(given) ==
    /\ wizard.step = 2 /\ wizard.placement = "new" /\ Elsewhere
    /\ wizard' = [wizard EXCEPT !.assetName = given]

\* Mutant: the steps can be walked through without an answer.
AlwaysComplete == TRUE

\* next(): what each step asks for before it is left.
StepComplete ==
    CASE wizard.step = 0 -> wizard.profile # Nothing
      [] wizard.step = 1 -> wizard.connection # Nothing /\ wizard.name /\ (ByAddress => wizard.host)
      [] wizard.step = 2 -> Placed
      [] OTHER -> FALSE

Continue == StepComplete /\ Elsewhere /\ wizard' = [wizard EXCEPT !.step = @ + 1]

\* Back by the footer, or to any earlier step by the header.
GoBack(s) == wizard.step < 4 /\ s < wizard.step /\ Elsewhere /\ wizard' = [wizard EXCEPT !.step = s]

\* install() up to the first await.
Install ==
    /\ wizard.step = 3 /\ ~wizard.busy /\ wizard.profile \in Measurable
    /\ wizard' = [wizard EXCEPT !.busy = TRUE]
    /\ sent' = [phase |-> "install", profile |-> wizard.profile, connection |-> wizard.connection,
                kind |-> IF ByAddress THEN "tcp" ELSE "rtu",
                name |-> wizard.name, host |-> wizard.host, placed |-> Placed]
    /\ UNCHANGED <<channels, assets, device>>

InFlight(phase) == sent # Nothing /\ sent.phase = phase

\* The server installs device, position and binding together; install() polls.
ProvisionAnswered ==
    /\ InFlight("install")
    /\ device' = "installed" /\ sent' = [sent EXCEPT !.phase = "poll"]
    /\ UNCHANGED <<wizard, channels, assets>>

\* Mutant: no "finally": the button stays disabled.
NotInstalledBusy ==
    /\ InFlight("install")
    /\ device' \in {device, "installed"} /\ sent' = Nothing
    /\ UNCHANGED <<wizard, channels, assets>>

\* Mutant: the last page also after an installation that failed.
NotInstalledButShown ==
    /\ InFlight("install")
    /\ device' \in {device, "installed"} /\ sent' = Nothing
    /\ wizard' = [wizard EXCEPT !.step = 4, !.busy = FALSE]
    /\ UNCHANGED <<channels, assets>>

\* Refused, or the answer is lost after the server did it.
NotInstalled ==
    /\ InFlight("install")
    /\ device' \in {device, "installed"} /\ sent' = Nothing
    /\ wizard' = [wizard EXCEPT !.busy = FALSE]
    /\ UNCHANGED <<channels, assets>>

\* The call for the first poll ends the installation, on any step, with a warning
\* if it is not answered.  How the poll went is another matter: poll_device keeps
\* its errors to itself, and manual_poll answers a number of samples all the same;
\* and the answer to a good poll can be lost.
Polled(answered, good) ==
    /\ InFlight("poll")
    /\ device' = IF good THEN "polled" ELSE device
    /\ sent' = Nothing
    /\ wizard' = [wizard EXCEPT !.step = 4, !.busy = FALSE, !.warning = @ \/ ~answered]
    /\ UNCHANGED <<channels, assets>>

\* The plant page loads again: a channel is gone, assets came or went.
ParentLoads ==
    /\ channels' \in SUBSET channels /\ assets' \in BOOLEAN
    /\ UNCHANGED <<wizard, sent, device>>

WizardAnswer == ProvisionAnswered \/ NotInstalled \/ \E answered, good \in BOOLEAN : Polled(answered, good)

WizardNext ==
    \/ WizardAnswer \/ ParentLoads \/ Continue \/ Install
    \/ \E p \in Driver : ChooseDriver(p)
    \/ \E c \in Bus \cup {Automatic} : ChooseBus(c)
    \/ \E where \in {"existing", "new"} : ChoosePlacement(where)
    \/ \E s \in 0 .. 3 : GoBack(s)
    \/ \E given \in BOOLEAN : TypeName(given) \/ TypeHost(given) \/ ChooseAsset(given) \/ TypeAssetName(given)

WizardSpec == WizardInit /\ [][WizardNext]_wizardVars /\ WF_wizardVars(WizardAnswer)
-----------------------------------------------------------------------------
WizardTypeOK ==
    /\ wizard \in Wizard /\ channels \subseteq Bus /\ assets \in BOOLEAN
    /\ sent \in Installation \cup {Nothing} /\ device \in {"none", "installed", "polled"}

\* A channel that the model can speak on.
Compatible(p, c) == p # Nothing /\ c # Nothing /\ KindOf(c) \in Speaks[p]

\* However the steps were revisited, what is installed is complete: a name, a
\* position, a model with a channel it speaks on, and an address on TCP unless
\* that channel was removed while the wizard was open.
InstallsAreComplete ==
    sent # Nothing =>
        /\ sent.profile \in Measurable /\ Compatible(sent.profile, sent.connection)
        /\ sent.name /\ sent.placed
        /\ sent.kind = "tcp" => sent.host

\* The last page, "... nell'ecosistema energetico", is reached over an installation
\* only: not by the steps, and not by one that was refused.  What that page says
\* of the first poll may be false (Polled), so nothing is claimed of it.
LastPageIsReal == wizard.step = 4 => device # "none"

\* Why: a step that was left stays complete until it is entered again, because
\* choosing a model chooses the channel anew.
WizardInv ==
    /\ WizardTypeOK /\ InstallsAreComplete /\ LastPageIsReal
    /\ wizard.step \in 1 .. 3 => wizard.profile # Nothing
    /\ wizard.connection # Nothing => Compatible(wizard.profile, wizard.connection)
    /\ wizard.step \in 2 .. 3 => wizard.connection # Nothing /\ wizard.name /\ (ByAddress => wizard.host)
    /\ wizard.step = 3 => Placed
    /\ wizard.busy <=> sent # Nothing
    /\ wizard.step = 4 => sent = Nothing
    /\ InFlight("poll") => device # "none"

\* The button that says "Installazione..." does not say it for ever.
InstallEnds == wizard.busy ~> ~wizard.busy
=============================================================================

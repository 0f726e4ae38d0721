----------------------------- MODULE WebClient -----------------------------
(***************************************************************************)
(* The web client as a whole: the shell, one of its views, or the energy   *)
(* report that a view shows.  The views share no state in the browser - App *)
(* mounts one page at a time, and each loads what it shows - so a behaviour *)
(* stays in the view it begins in and the others wait in an initial state. *)
(***************************************************************************)
EXTENDS WebShell, PlantView, ProvisioningWizard, DiscoveryDialog, TreeEditor, CommunicationsCenter,
        EnergySettings, EnergyReport

VARIABLE view   \* what the behaviour explores

clientVars == <<view, shellVars, plantVars, wizardVars, discoveryVars, treeVars, commVars,
                settingsVars, reportVars>>

Views == {"shell", "plant", "wizard", "discovery", "tree", "channels", "settings", "report"}

\* A view that is not explored waits in one of its initial states.
ClientInit ==
    /\ view \in Views
    /\ ShellInit /\ (view # "shell" => stored = NoOne /\ ~rail.open)
    /\ PlantInit /\ (view # "plant" => \A d \in PlantDevice :
                                          site.devices[d] = CHOOSE s \in Setting : TRUE)
    /\ WizardInit /\ (view # "wizard" => assets)
    /\ DiscoveryInit /\ (view # "discovery" => configured = {})
    /\ TreeInit
    /\ CommInit /\ (view # "channels" => \A l \in Link : links[l] = Vacant)
    /\ SettingsInit /\ (view # "settings" =>
                          /\ limit = "unset" /\ studio.editor = "system" /\ studio.tab = "status"
                          /\ studio.period = CHOOSE p \in Period : TRUE)
    /\ ReportInit /\ (view # "report" =>
                        /\ plan.parent = [n \in Node |-> Above0]
                        /\ plan.at = [m \in Meter |-> CHOOSE n \in Node : TRUE])

\* Only the variables of the view explored change.
Only(v, step) ==
    /\ view = v /\ step /\ UNCHANGED view
    /\ v # "shell" => UNCHANGED shellVars
    /\ v # "plant" => UNCHANGED plantVars
    /\ v # "wizard" => UNCHANGED wizardVars
    /\ v # "discovery" => UNCHANGED discoveryVars
    /\ v # "tree" => UNCHANGED treeVars
    /\ v # "channels" => UNCHANGED commVars
    /\ v # "settings" => UNCHANGED settingsVars
    /\ v # "report" => UNCHANGED reportVars

ClientNext ==
    \/ Only("shell", ShellNext)
    \/ Only("plant", PlantNext)
    \/ Only("wizard", WizardNext)
    \/ Only("discovery", DiscoveryNext)
    \/ Only("tree", TreeNext)
    \/ Only("channels", CommNext)
    \/ Only("settings", SettingsNext)
    \/ Only("report", ReportNext)

\* The fairness of each view: requests are answered.
ClientSpec ==
    /\ ClientInit /\ [][ClientNext]_clientVars
    /\ WF_clientVars(Only("shell", SessionAnswers))
    /\ WF_clientVars(Only("shell", TreeTicks))
    /\ \A v \in Version : SF_clientVars(Only("shell", TreeAnswers(v)))
    /\ WF_clientVars(Only("plant", PlantAnswer))
    /\ WF_clientVars(Only("wizard", WizardAnswer))
    /\ WF_clientVars(Only("discovery", DiscoveryAnswer))
    /\ WF_clientVars(Only("discovery", ScanEnds))
    /\ WF_clientVars(Only("settings", SettingsAnswer))
    /\ WF_clientVars(Only("settings", SaveAnswer))
-----------------------------------------------------------------------------
ClientTypeOK ==
    /\ view \in Views
    /\ ShellTypeOK /\ PlantTypeOK /\ WizardTypeOK /\ DiscoveryTypeOK /\ TreeTypeOK /\ CommTypeOK
    /\ SettingsTypeOK /\ ReportTypeOK

\* Nothing is waited for without end: the identity of a session, the answer to
\* a login, a removal - unless its page is lost - an installation, or a save of
\* the energy settings.
Waiting ==
    SessionWaits \/ plant.busy \/ wizard.busy \/ discovery.installing \/ SettingsWait

WaitingEnds == Waiting ~> (~Waiting \/ Blank)
=============================================================================

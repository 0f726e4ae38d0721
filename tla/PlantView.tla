------------------------------ MODULE PlantView ------------------------------
(***************************************************************************)
(* "Struttura impianto": the installed devices, the form that edits one,   *)
(* the dialog that removes one and the wizard that installs one (Plant in  *)
(* main.tsx, device-removal.tsx).  Nothing but the dialog's own button is  *)
(* disabled while a request is in flight, and every handler goes on with   *)
(* the component as it is when the answer arrives.  Texts of forms and     *)
(* messages are left out; so are the connection and asset forms of Plant,  *)
(* which no tab or button shows any more.                                  *)
(***************************************************************************)
EXTENDS Naturals, FiniteSets

CONSTANTS
    PlantDevice, Channel, Profile,
    Supports,    \* Supports[p]: the channels whose protocol the profile lists
    Nil,         \* nothing chosen, no device
    MaxCalls,    \* bound: requests in flight
    MaxForeign   \* bound: changes made by other clients

ASSUME PlantAssumption ==
    /\ Supports \in [Profile -> SUBSET Channel]
    /\ Nil \notin PlantDevice \cup Channel \cup Profile
    /\ MaxCalls \in Nat /\ MaxForeign \in Nat

VARIABLES
    site,    \* the server: channels, and the configuration of each device
    foreign, \* changes of other clients so far
    plant    \* the mounted component

plantVars == <<site, foreign, plant>>

Setting == {s \in [channel: Channel, profile: Profile] : s.channel \in Supports[s.profile]}
Site == [channels: SUBSET Channel, devices: [PlantDevice -> Setting \cup {Nil}]]
\* models: whether the category and manufacturer chosen have any.
Form == [of: PlantDevice \cup {Nil}, channel: Channel \cup {Nil}, profile: Profile \cup {Nil},
         models: BOOLEAN]
Call == [op: {"load"}, data: Site, then: {"nothing", "energy", "close"}]
          \cup [op: {"save"}, device: PlantDevice \cup {Nil}, channel: Channel \cup {Nil}, profile: Profile]
          \cup [op: {"delete"}, device: PlantDevice]
          \cup [op: {"other"}]
Plant == [tab: {"overview", "devices", "energy"}, shown: Site, editing: PlantDevice \cup {Nil},
          form: Form, dialog: PlantDevice \cup {"none", "wizard"}, busy: BOOLEAN, calls: SUBSET Call]

BlankForm == [of |-> Nil, channel |-> Nil, profile |-> Nil, models |-> TRUE]
NoSite == [channels |-> {}, devices |-> [d \in PlantDevice |-> Nil]]
LoadCall(then) == [op |-> "load", data |-> site', then |-> then]
InstalledIn(s) == {d \in PlantDevice : s.devices[d] # Nil}

\* A model picker with a channel that is not in the list any more reads a
\* property of undefined: React takes the whole page away.
Blank ==
    /\ plant.tab = "devices" /\ plant.editing # Nil /\ plant.shown.channels # {}
    /\ plant.form.channel \notin plant.shown.channels \cup {Nil} /\ plant.form.models

\* What a user can do: the page is there and no dialog covers it.
Free == plant.dialog = "none" /\ ~Blank
Room == Cardinality(plant.calls) < MaxCalls

MountedPlant(s) ==
    [tab |-> "overview", shown |-> NoSite, editing |-> Nil, form |-> BlankForm, dialog |-> "none",
     busy |-> FALSE, calls |-> {[op |-> "load", data |-> s, then |-> "nothing"]}]

PlantInit ==
    /\ \E s \in Setting : site = [channels |-> Channel, devices |-> [d \in PlantDevice |-> s]]
    /\ foreign = 0
    /\ plant = MountedPlant(site)
-----------------------------------------------------------------------------
Still == UNCHANGED <<site, foreign>>

OpenTab(t) == Free /\ Still /\ plant' = [plant EXCEPT !.tab = t]

\* load, by the button.
RefreshPlant == Free /\ Room /\ Still /\ plant' = [plant EXCEPT !.calls = @ \cup {LoadCall("nothing")}]

\* editDevice: identity and values together.
EditDevice(d) ==
    /\ Free /\ plant.tab = "devices" /\ d \in InstalledIn(plant.shown) /\ Still
    /\ plant' = [plant EXCEPT !.editing = d,
                              !.form = [of |-> d, channel |-> plant.shown.devices[d].channel,
                                        profile |-> plant.shown.devices[d].profile, models |-> TRUE]]

FormShown == Free /\ plant.tab = "devices" /\ plant.editing # Nil /\ plant.shown.channels # {} /\ Still

CancelEdit == FormShown /\ plant' = [plant EXCEPT !.editing = Nil, !.form = BlankForm]

\* Another category or manufacturer lists other models, or none.
ChooseFamily ==
    /\ FormShown
    /\ \E some \in BOOLEAN : plant' = [plant EXCEPT !.form.profile = Nil, !.form.models = some]

\* Mutant: another channel keeps the model chosen for the one before.
ChannelKeepsProfile(c) ==
    /\ FormShown /\ c \in plant.shown.channels \cup {Nil}
    /\ plant' = [plant EXCEPT !.form.channel = c]

ChooseChannel(c) ==
    /\ FormShown /\ c \in plant.shown.channels \cup {Nil}
    /\ plant' = [plant EXCEPT !.form.channel = c, !.form.profile = Nil]

\* compatibleProfiles: only models whose protocols include the channel's.
ChooseProfile(p) ==
    /\ FormShown /\ plant.form.models /\ plant.form.channel \in Supports[p]
    /\ plant' = [plant EXCEPT !.form.profile = p]

\* The button needs a model, and the browser the fields required.
CanSave == FormShown /\ plant.form.profile # Nil /\ plant.form.channel # Nil

\* addDevice up to its request.
SaveDevice ==
    /\ CanSave /\ Room
    /\ plant' = [plant EXCEPT !.calls = @ \cup
           {[op |-> "save", device |-> plant.editing, channel |-> plant.form.channel,
             profile |-> plant.form.profile]}]

\* Handlers that change something else and then load.
Command(tab) ==
    /\ Free /\ Room /\ plant.tab = tab /\ Still
    /\ plant' = [plant EXCEPT !.calls = @ \cup {[op |-> "other"]}]

SaveSite == Command("overview")
AddBinding == Command("energy")
RemoveBinding == Command("energy")

\* The server accepts a configuration that is complete and consistent.
Accepts(c) ==
    \/ /\ c.op = "save" /\ site.devices[c.device] # Nil /\ c.channel \in site.channels
       /\ site' = [site EXCEPT !.devices[c.device] = [channel |-> c.channel, profile |-> c.profile]]
    \/ /\ c.op = "delete" /\ site.devices[c.device] # Nil
       /\ site' = [site EXCEPT !.devices[c.device] = Nil]
    \/ c.op = "other" /\ site' = site

\* A command succeeded: addDevice resets the form, whoever is edited by now;
\* every command then loads, and remove() closes the dialog after that.
Done(c) ==
    /\ c \in plant.calls /\ ~Blank /\ Accepts(c) /\ UNCHANGED foreign
    /\ plant' = [plant EXCEPT
          !.calls = (@ \ {c}) \cup {LoadCall(IF c.op = "delete" THEN "close" ELSE "nothing")},
          !.editing = IF c.op = "save" THEN Nil ELSE @,
          !.form = IF c.op = "save" THEN BlankForm ELSE @]

\* Refused, or lost: the form stays as it is, the dialog can be tried again.
Rejected(c) ==
    /\ c \in plant.calls /\ c.op # "load" /\ ~Blank /\ Still
    /\ plant' = [plant EXCEPT !.calls = @ \ {c},
                              !.busy = @ /\ (c.op # "delete" \/ c.device # plant.dialog)]

\* What the caller of load does after it, loaded or not.
AfterLoad(c, shown) ==
    [plant EXCEPT !.calls = @ \ {c}, !.shown = shown,
                  !.tab = IF c.then = "energy" THEN "energy" ELSE @,
                  !.dialog = IF c.then = "close" /\ @ # "wizard" THEN "none" ELSE @,
                  !.busy = @ /\ c.then # "close"]

Loaded(c) ==
    /\ c \in plant.calls /\ c.op = "load" /\ ~Blank /\ Still
    /\ \E shown \in {c.data, plant.shown} : plant' = AfterLoad(c, shown)
-----------------------------------------------------------------------------
\* The removal dialog: it can be left while its request is in flight.
OpenRemoval(d) ==
    /\ Free /\ plant.tab = "devices" /\ d \in InstalledIn(plant.shown) /\ Still
    /\ plant' = [plant EXCEPT !.dialog = d]

Remove ==
    /\ plant.dialog \in PlantDevice /\ ~plant.busy /\ ~Blank /\ Room /\ Still
    /\ plant' = [plant EXCEPT !.busy = TRUE,
                              !.calls = @ \cup {[op |-> "delete", device |-> plant.dialog]}]

CloseDialog ==
    /\ plant.dialog # "none" /\ ~Blank /\ Still
    /\ plant' = [plant EXCEPT !.dialog = "none", !.busy = FALSE]

OpenWizard == Free /\ Still /\ plant' = [plant EXCEPT !.dialog = "wizard"]

\* onCreated of the wizard, which then offers the tree.
WizardDone(openTree) ==
    /\ plant.dialog = "wizard" /\ ~Blank /\ Room /\ Still
    /\ plant' = [plant EXCEPT !.dialog = "none",
                              !.calls = @ \cup {LoadCall(IF openTree THEN "energy" ELSE "nothing")}]

\* Other clients add and remove channels; one in use cannot be removed.
ForeignChange ==
    /\ foreign < MaxForeign /\ foreign' = foreign + 1 /\ UNCHANGED plant
    /\ \/ \E c \in Channel \ site.channels : site' = [site EXCEPT !.channels = @ \cup {c}]
       \/ \E c \in site.channels :
            /\ \A d \in InstalledIn(site) : site.devices[d].channel # c
            /\ site' = [site EXCEPT !.channels = @ \ {c}]

PlantAnswer == \E c \in plant.calls : Done(c) \/ Rejected(c) \/ Loaded(c)

PlantUser ==
    \/ \E t \in {"overview", "devices", "energy"} : OpenTab(t)
    \/ \E d \in PlantDevice : EditDevice(d) \/ OpenRemoval(d)
    \/ \E c \in Channel \cup {Nil} : ChooseChannel(c)
    \/ \E p \in Profile : ChooseProfile(p)
    \/ \E openTree \in BOOLEAN : WizardDone(openTree)
    \/ RefreshPlant \/ CancelEdit \/ ChooseFamily \/ SaveDevice
    \/ SaveSite \/ AddBinding \/ RemoveBinding
    \/ Remove \/ CloseDialog \/ OpenWizard

PlantNext == PlantAnswer \/ PlantUser \/ ForeignChange

PlantSpec == PlantInit /\ [][PlantNext]_plantVars /\ WF_plantVars(PlantAnswer)
-----------------------------------------------------------------------------
PlantTypeOK == site \in Site /\ foreign \in 0 .. MaxForeign /\ plant \in Plant

\* Whatever is cancelled, answered late or edited meanwhile, a save addresses
\* the device whose values the form was filled with, and names a model that
\* speaks the protocol of the channel.
SavesAreConsistent ==
    /\ plant.form.of = plant.editing
    /\ plant.form.profile # Nil => plant.form.channel \in Supports[plant.form.profile]
    /\ \A c \in plant.calls : c.op = "save" =>
         c.device # Nil /\ c.channel \in Supports[c.profile]

\* The removal dialog does not stay busy, unless the page is lost.
RemovalEnds == plant.busy ~> (~plant.busy \/ Blank)
=============================================================================

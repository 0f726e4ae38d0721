--------------------------- MODULE EnergySettings ---------------------------
(***************************************************************************)
(* The two editors of the energy settings: "Consumi e performance" with    *)
(* its periods and its dialog (monitoring-studio.tsx) and the preferences  *)
(* of the system center (system-center.tsx); PUT /energy/settings.  Of the *)
(* settings an optional limit is kept (contracted power, a budget): not    *)
(* set, a positive number, zero, or a field that was emptied.              *)
(***************************************************************************)
EXTENDS Naturals, FiniteSets

CONSTANTS
    Period,         \* the periods of the report
    Unloaded,       \* no report, no draft
    MaxStudioCalls  \* bound: requests in flight

ASSUME SettingsAssumption == Unloaded \notin Period /\ MaxStudioCalls \in Nat

VARIABLES
    limit,  \* the server: the limit stored
    studio  \* the mounted editor, and its requests in flight

settingsVars == <<limit, studio>>

Limit == {"unset", "positive", "zero"}
Draft == Limit \cup {"emptied"}

ASSUME UnloadedIsNoValue == Unloaded \notin Draft

\* last: the load that save awaits; data: the settings, once they were read.
StudioCall == [op: {"load"}, period: Period, data: Limit \cup {Unloaded}, last: BOOLEAN]
                \cup [op: {"save"}, period: Period, base: Limit, touched: BOOLEAN, sent: Limit]
                \cup [op: {"status"}]
Tab == {"status", "preferences"}
Studio == [editor: {"monitoring", "system"}, focus: Tab, tab: Tab,
           period: Period, report: Period \cup {Unloaded}, status: BOOLEAN,
           draft: Draft \cup {Unloaded}, base: Limit \cup {Unloaded}, touched: BOOLEAN,
           open: BOOLEAN, loading: BOOLEAN, busy: BOOLEAN, calls: SUBSET StudioCall]

LoadOf(p, last) == [op |-> "load", period |-> p, data |-> Unloaded, last |-> last]
TabLoad(t, p) == IF t = "status" THEN [op |-> "status"] ELSE LoadOf(p, FALSE)

SettingsInit ==
    /\ limit \in {"unset", "positive"}
    /\ \E e \in {"monitoring", "system"}, t \in Tab, p \in Period :
        /\ e = "monitoring" => t = "preferences"
        /\ studio = [editor |-> e, focus |-> t, tab |-> t, period |-> p,
                     report |-> Unloaded, status |-> FALSE, draft |-> Unloaded, base |-> Unloaded, touched |-> FALSE,
                     open |-> FALSE, loading |-> e = "monitoring", busy |-> FALSE,
                     calls |-> {TabLoad(t, p)}]
-----------------------------------------------------------------------------
Monitoring == studio.editor = "monitoring"
CanAsk == Cardinality(studio.calls) < MaxStudioCalls
Ready ==
    IF Monitoring THEN ~studio.loading \/ studio.report # Unloaded
    ELSE IF studio.tab = "status" THEN studio.status ELSE studio.draft # Unloaded
AtPage == Ready /\ ~studio.open /\ UNCHANGED limit
AtForm ==
    /\ Ready /\ studio.draft # Unloaded /\ studio.tab = "preferences"
    /\ (Monitoring => studio.open) /\ UNCHANGED limit

\* Another period, whose effect loads, or "Aggiorna".
LoadReport(p) ==
    /\ Monitoring /\ AtPage /\ CanAsk
    /\ studio' = [studio EXCEPT !.period = p, !.loading = TRUE, !.calls = @ \cup {LoadOf(p, FALSE)}]

\* "Aggiorna" of the system center loads what the tab shows.
ReloadTab ==
    /\ ~Monitoring /\ AtPage /\ CanAsk
    /\ studio' = [studio EXCEPT !.calls = @ \cup {TabLoad(studio.tab, studio.period)}]

\* selectTab loads what the tab misses.
SelectTab(t) ==
    /\ ~Monitoring /\ AtPage /\ CanAsk
    /\ LET missing == IF t = "status" THEN ~studio.status ELSE studio.draft = Unloaded
       IN studio' = [studio EXCEPT
             !.tab = t,
             !.calls = @ \cup (IF missing THEN {TabLoad(t, studio.period)} ELSE {})]

\* The menu leads from one of the two pages to the other: the component stays
\* mounted, the effect of its focus loads.
Refocus(t) ==
    /\ ~Monitoring /\ CanAsk /\ t # studio.focus /\ UNCHANGED limit
    /\ studio' = [studio EXCEPT !.focus = t, !.tab = t,
                                !.calls = @ \cup {TabLoad(t, studio.period)}]

OpenDialog == Monitoring /\ AtPage /\ studio' = [studio EXCEPT !.open = TRUE]
CloseSettings == studio.open /\ UNCHANGED limit /\ studio' = [studio EXCEPT !.open = FALSE]

\* A number, zero, or nothing is typed: a text in the dialog ...
TypeLimit(d) ==
    /\ AtForm /\ Monitoring /\ d \in {"positive", "zero", "emptied"}
    /\ studio' = [studio EXCEPT !.draft = d, !.touched = TRUE]

\* ... and Number() of it in the preferences, where nothing is zero.
TypePreference(d) ==
    /\ AtForm /\ ~Monitoring /\ d \in {"positive", "zero"}
    /\ studio' = [studio EXCEPT !.draft = d, !.touched = TRUE]

\* draft === "" ? null : Number(draft), in which Number(null) is zero.
DialogLimit(d) == CASE d = "emptied" -> "unset" [] d = "unset" -> "zero" [] OTHER -> d

\* energy.limit || null.
PreferredLimit(d) == IF d = "positive" THEN d ELSE "unset"

Payload(d) == IF Monitoring THEN DialogLimit(d) ELSE PreferredLimit(d)

Save ==
    /\ AtForm /\ ~studio.busy /\ CanAsk
    /\ studio' = [studio EXCEPT
          !.busy = TRUE,
          !.calls = @ \cup {[op |-> "save", period |-> studio.period, base |-> studio.base,
                             touched |-> studio.touched, sent |-> Payload(studio.draft)]}]

\* Mutant: a limit of zero is accepted (ge=0).
AcceptsZero(sent) == TRUE

\* EnergySettingsInput: a limit is null or positive.
Storable(sent) == sent # "zero"

\* The PUT is answered: the dialog closes and the report is loaded, of the period
\* of the save.
Saved(c) ==
    /\ c \in studio.calls /\ c.op = "save" /\ Storable(c.sent) /\ limit' = c.sent
    /\ studio' = [studio EXCEPT
          !.open = FALSE, !.loading = Monitoring,
          !.calls = (@ \ {c}) \cup {LoadOf(c.period, TRUE)}]

\* Refused or lost, or the save of the preferences beside it failed (then the
\* limit may be stored later, as ForeignSave does): stored or not.
SaveFailed(c) ==
    /\ c \in studio.calls /\ c.op = "save"
    /\ limit' \in {limit} \cup ({c.sent} \cap {s \in Limit : Storable(s)})
    /\ studio' = [studio EXCEPT !.busy = FALSE, !.calls = @ \ {c}]

\* The server reads the settings for a load.
ReadSettings(c) ==
    /\ c \in studio.calls /\ c.op = "load" /\ c.data = Unloaded /\ UNCHANGED limit
    /\ studio' = [studio EXCEPT !.calls = (@ \ {c}) \cup {[c EXCEPT !.data = limit]}]

\* A load ends, whatever was chosen, typed or saved meanwhile.
SettingsLoaded(c) ==
    /\ c \in studio.calls /\ c.op = "load" /\ c.data # Unloaded /\ UNCHANGED limit
    /\ studio' = [studio EXCEPT
          !.report = c.period, !.draft = c.data, !.base = c.data, !.touched = FALSE,
          !.loading = FALSE, !.busy = @ /\ ~c.last, !.calls = @ \ {c}]

LoadFailed(c) ==
    /\ c \in studio.calls /\ c.op = "load" /\ UNCHANGED limit
    /\ studio' = [studio EXCEPT !.loading = FALSE, !.busy = @ /\ ~c.last, !.calls = @ \ {c}]

StatusLoaded(c) ==
    /\ c \in studio.calls /\ c.op = "status" /\ UNCHANGED limit
    /\ \E loaded \in {studio.status, TRUE} :
        studio' = [studio EXCEPT !.status = loaded, !.calls = @ \ {c}]

SettingsAnswer ==
    \E c \in studio.calls :
        \/ Saved(c) \/ SaveFailed(c) \/ ReadSettings(c)
        \/ SettingsLoaded(c) \/ LoadFailed(c) \/ StatusLoaded(c)

\* Another client stores its draft.
ForeignSave == UNCHANGED studio /\ limit' \in {"unset", "positive"}

\* The answers that save awaits, one at a time.
SaveAnswer ==
    \E c \in studio.calls :
        \/ Saved(c) \/ SaveFailed(c)
        \/ c.op = "load" /\ c.last /\ (SettingsLoaded(c) \/ LoadFailed(c))

SettingsNext ==
    \/ SettingsAnswer \/ ForeignSave
    \/ \E p \in Period : LoadReport(p)
    \/ ReloadTab
    \/ \E t \in Tab : SelectTab(t) \/ Refocus(t)
    \/ \E d \in Draft : TypeLimit(d) \/ TypePreference(d)
    \/ OpenDialog \/ CloseSettings \/ Save

SettingsSpec ==
    /\ SettingsInit /\ [][SettingsNext]_settingsVars
    /\ WF_settingsVars(SettingsAnswer) /\ WF_settingsVars(SaveAnswer)
-----------------------------------------------------------------------------
SettingsTypeOK == limit \in Limit /\ studio \in Studio

\* A save never stores a limit that nobody typed, nor drops one that nobody
\* touched: with the draft as it was loaded, what the server accepts is what the
\* editor had read.
UntouchedIsKept ==
    \A c \in studio.calls :
        c.op = "save" /\ ~c.touched /\ Storable(c.sent) => c.sent = c.base

\* Why: a draft nobody touched is the limit as it was read, and zero is neither
\* stored nor read.
SettingsInv ==
    /\ SettingsTypeOK /\ UntouchedIsKept
    /\ limit # "zero" /\ studio.base # "zero"
    /\ \A c \in studio.calls : c.op = "load" => c.data # "zero"
    /\ studio.draft = Unloaded <=> studio.base = Unloaded
    /\ ~studio.touched => studio.draft = studio.base

\* A save with the load after it, and the first screen of "Consumi e performance".
SettingsWait == studio.busy \/ (Monitoring /\ ~Ready)
=============================================================================

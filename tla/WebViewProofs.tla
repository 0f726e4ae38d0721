--------------------------- MODULE WebViewProofs ---------------------------
(***************************************************************************)
(* The session of the client, for any accounts, roles and pages; what its  *)
(* single views send, and what is stored by them: the guided installation, *)
(* the plant page, the search, the channels, the energy settings; for any  *)
(* catalogue, any plant and any number of requests in flight.  Then the    *)
(* same of the client as a whole.                                          *)
(***************************************************************************)
EXTENDS WebClient, EnergyTreeProofs

\* The page every user is sent back to is one of every role.
LEMMA DashboardForAll ==
  ASSUME NEW u \in Users
  PROVE  CanAccess("dashboard", u)
<1>1. PageRoles("dashboard") = Everyone
  BY DEF PageRoles
<1> QED BY <1>1, SessionAssumption DEF CanAccess

\* The page that is left after the effects is one the user may see.
LEMMA AllowedIsAllowed ==
  ASSUME NEW p \in Pages, NEW user \in Users \cup {NoOne}
  PROVE  /\ Allowed(p, user) \in Pages
         /\ user # NoOne => CanAccess(Allowed(p, user), user)
BY DashboardForAll, SessionAssumption DEF Allowed, CanAccess

\* What rendering shows and asks for is allowed to the user rendered for, if he is
\* the one there was, or there was none.
LEMMA RenderIsAllowed ==
  ASSUME SessionInv,
         NEW t \in Users \cup {NoOne}, NEW user \in Users \cup {NoOne}, NEW p \in Pages,
         user \in {me, NoOne} \/ me = NoOne,
         Render(t, user, p)
  PROVE  /\ token' = t /\ me' = user
         /\ page' \in Pages /\ shown' \in Pages \cup {NoOne} /\ loading' \subseteq Pages
         /\ PageIsAllowed'
         /\ \A q \in loading' : CanAccess(q, user)
<1> DEFINE q == Allowed(p, user)
<1>1. /\ token' = t /\ me' = user /\ page' = q
      /\ \/ shown' = NoOne /\ loading' = {}
         \/ Mounted(t, user, q) /\ shown' = NoOne /\ loading' = {q}
         \/ /\ Mounted(t, user, q) /\ Mounted(token, me, page)
            /\ shown' = shown
            /\ loading' = IF q = page THEN loading ELSE loading \cup {q}
  BY DEF Render
<1>2. q \in Pages /\ (user # NoOne => CanAccess(q, user))
  BY AllowedIsAllowed
<1>3. CASE shown' = NoOne /\ loading' \subseteq {q} /\ (loading' # {} => Mounted(t, user, q))
  BY <1>1, <1>2, <1>3 DEF PageIsAllowed, Mounted, CanAccess
<1>4. CASE /\ Mounted(t, user, q) /\ Mounted(token, me, page)
           /\ shown' = shown
           /\ loading' = IF q = page THEN loading ELSE loading \cup {q}
  <2>1. user = me
    BY <1>4 DEF Mounted
  <2>2. /\ shown \in Pages \cup {NoOne} /\ loading \subseteq Pages
        /\ shown # NoOne => CanAccess(shown, me)
        /\ \A r \in loading : CanAccess(r, me)
    BY DEF SessionInv, SessionTypeOK, PageIsAllowed
  <2>3. loading' \subseteq loading \cup {q}
    BY <1>4
  <2>4. user # NoOne
    BY <1>4 DEF Mounted
  <2> QED BY <1>1, <1>2, <1>4, <2>1, <2>2, <2>3, <2>4 DEF PageIsAllowed, CanAccess
<1> QED BY <1>1, <1>3, <1>4

\* A user signed in, or on his way.
LEMMA InvStart == SessionInit => SessionInv
<1> SUFFICES ASSUME SessionInit PROVE SessionInv
  OBVIOUS
<1>1. /\ me = NoOne /\ page \in Pages /\ shown = NoOne /\ loading = {} /\ signingIn = NoOne
      /\ stored \in Users \cup {NoOne} /\ token = stored /\ askedMe = {stored} \ {NoOne}
  BY SessionAssumption DEF SessionInit
<1> QED BY <1>1 DEF SessionInv, SessionTypeOK, IdentityIsCurrent, ReloadKeepsSession, PageIsAllowed

\* Each step of login, identity and logout.
LEMMA InvAnswer ==
  ASSUME SessionInv, SessionAnswer
  PROVE  SessionInv'
<1>1. /\ token \in Users \cup {NoOne} /\ me \in Users \cup {NoOne} /\ page \in Pages
      /\ signingIn \in Users \cup {NoOne} /\ stored = token
      /\ askedMe \subseteq {token} \ {NoOne} /\ (askedMe # {} => me = NoOne)
      /\ (me # NoOne => me = token) /\ (signingIn # NoOne => token = NoOne)
  BY DEF SessionInv, SessionTypeOK, IdentityIsCurrent, ReloadKeepsSession
<1>2. CASE Accepted
  <2>1. /\ token = NoOne /\ me = NoOne /\ askedMe = {} /\ signingIn \in Users \ {NoOne}
        /\ stored' = signingIn /\ signingIn' = NoOne /\ askedMe' = {signingIn}
        /\ Render(signingIn, me, page)
    BY <1>1, <1>2 DEF Accepted
  <2>2. /\ token' = signingIn /\ me' = me
        /\ page' \in Pages /\ shown' \in Pages \cup {NoOne} /\ loading' \subseteq Pages
        /\ PageIsAllowed'
        /\ \A q \in loading' : CanAccess(q, me)
    BY <1>1, <2>1, RenderIsAllowed
  <2> QED BY <1>1, <2>1, <2>2
          DEF SessionInv, SessionTypeOK, IdentityIsCurrent, ReloadKeepsSession, CanAccess
<1>3. CASE Refused
  BY <1>3 DEF Refused, SessionInv, SessionTypeOK, IdentityIsCurrent, ReloadKeepsSession,
               PageIsAllowed, CanAccess
<1>4. ASSUME NEW t \in Users, MeAnswered(t)
      PROVE  SessionInv'
  <2>1. /\ token = t /\ me = NoOne /\ askedMe' = {} /\ stored' = stored /\ signingIn' = signingIn
        /\ Render(token, t, page) /\ t # NoOne
    BY <1>1, <1>4, SessionAssumption DEF MeAnswered
  <2>2. /\ token' = token /\ me' = t
        /\ page' \in Pages /\ shown' \in Pages \cup {NoOne} /\ loading' \subseteq Pages
        /\ PageIsAllowed'
        /\ \A q \in loading' : CanAccess(q, t)
    BY <1>1, <2>1, RenderIsAllowed
  <2> QED BY <1>1, <2>1, <2>2
          DEF SessionInv, SessionTypeOK, IdentityIsCurrent, ReloadKeepsSession, CanAccess
<1>5. ASSUME NEW t \in Users, MeFailed(t)
      PROVE  SessionInv'
  <2>1. /\ token = t /\ me = NoOne /\ askedMe' = {} /\ stored' = NoOne /\ signingIn' = signingIn
        /\ Render(NoOne, me, page) /\ t # NoOne /\ signingIn = NoOne
    BY <1>1, <1>5, SessionAssumption DEF MeFailed
  <2>2. /\ token' = NoOne /\ me' = me
        /\ page' \in Pages /\ shown' \in Pages \cup {NoOne} /\ loading' \subseteq Pages
        /\ PageIsAllowed'
        /\ \A q \in loading' : CanAccess(q, me)
    BY <1>1, <2>1, RenderIsAllowed
  <2> QED BY <1>1, <2>1, <2>2
          DEF SessionInv, SessionTypeOK, IdentityIsCurrent, ReloadKeepsSession, CanAccess
<1> QED BY <1>2, <1>3, <1>4, <1>5 DEF SessionAnswer

\* Each step of the user within a session.
LEMMA InvUser ==
  ASSUME SessionInv,
         \/ Logout \/ Refresh \/ Reload
         \/ \E u \in Users : Submit(u)
         \/ \E p \in Pages : Navigate(p) \/ DataAnswered(p) \/ DataFailed(p)
  PROVE  SessionInv'
<1>1. /\ token \in Users \cup {NoOne} /\ me \in Users \cup {NoOne} /\ page \in Pages
      /\ signingIn \in Users \cup {NoOne} /\ stored = token
      /\ askedMe \subseteq {token} \ {NoOne} /\ (askedMe # {} => me = NoOne)
      /\ (me # NoOne => me = token) /\ (signingIn # NoOne => token = NoOne)
      /\ shown \in Pages \cup {NoOne} /\ loading \subseteq Pages
      /\ PageIsAllowed /\ \A q \in loading : CanAccess(q, me)
  BY DEF SessionInv, SessionTypeOK, IdentityIsCurrent, ReloadKeepsSession
<1>2. CASE Logout
  <2>1. /\ askedMe = {} /\ signingIn = NoOne /\ stored' = NoOne
        /\ signingIn' = signingIn /\ askedMe' = askedMe /\ Render(NoOne, NoOne, page)
    BY <1>1, <1>2 DEF Logout
  <2>2. /\ token' = NoOne /\ me' = NoOne
        /\ page' \in Pages /\ shown' \in Pages \cup {NoOne} /\ loading' \subseteq Pages
        /\ PageIsAllowed'
        /\ \A q \in loading' : CanAccess(q, NoOne)
    BY <1>1, <2>1, RenderIsAllowed
  <2> QED BY <2>1, <2>2
          DEF SessionInv, SessionTypeOK, IdentityIsCurrent, ReloadKeepsSession, CanAccess
<1>3. CASE Refresh
  <2>1. loading' = loading \cup {page} /\ UNCHANGED <<stored, token, me, page, signingIn, askedMe, shown>>
    BY <1>3 DEF Refresh
  <2>2. CanAccess(page, me)
    BY <1>1, <1>3 DEF Refresh, Mounted, PageIsAllowed
  <2> QED BY <1>1, <2>1, <2>2 DEF SessionInv, SessionTypeOK, IdentityIsCurrent, ReloadKeepsSession,
                                 PageIsAllowed, CanAccess
<1>4. CASE Reload
  BY <1>1, <1>4, SessionAssumption
     DEF Reload, SessionInv, SessionTypeOK, IdentityIsCurrent, ReloadKeepsSession, PageIsAllowed
<1>5. ASSUME NEW u \in Users, Submit(u)
      PROVE  SessionInv'
  BY <1>1, <1>5 DEF Submit, SessionInv, SessionTypeOK, IdentityIsCurrent, ReloadKeepsSession,
                    PageIsAllowed, CanAccess
<1>6. ASSUME NEW p \in Pages, Navigate(p)
      PROVE  SessionInv'
  <2>1. UNCHANGED <<stored, signingIn, askedMe>> /\ Render(token, me, p)
    BY <1>6 DEF Navigate
  <2>2. /\ token' = token /\ me' = me
        /\ page' \in Pages /\ shown' \in Pages \cup {NoOne} /\ loading' \subseteq Pages
        /\ PageIsAllowed'
        /\ \A q \in loading' : CanAccess(q, me)
    BY <1>1, <2>1, RenderIsAllowed
  <2> QED BY <1>1, <2>1, <2>2
          DEF SessionInv, SessionTypeOK, IdentityIsCurrent, ReloadKeepsSession, CanAccess
<1>7. ASSUME NEW p \in Pages, DataAnswered(p)
      PROVE  SessionInv'
  <2>1. CanAccess(p, me) /\ loading' \subseteq loading /\ shown' = p
        /\ UNCHANGED <<stored, token, me, page, signingIn, askedMe>>
    BY <1>1, <1>7 DEF DataAnswered
  <2> QED BY <1>1, <2>1 DEF SessionInv, SessionTypeOK, IdentityIsCurrent, ReloadKeepsSession,
                           PageIsAllowed, CanAccess
<1>8. ASSUME NEW p \in Pages, DataFailed(p)
      PROVE  SessionInv'
  <2>1. loading' \subseteq loading
        /\ UNCHANGED <<stored, token, me, page, signingIn, askedMe, shown>>
    BY <1>8 DEF DataFailed
  <2> QED BY <1>1, <2>1 DEF SessionInv, SessionTypeOK, IdentityIsCurrent, ReloadKeepsSession,
                           PageIsAllowed, CanAccess
<1> QED BY <1>2, <1>3, <1>4, <1>5, <1>6, <1>7, <1>8

\* Every step keeps the invariant.
LEMMA SessionInvStep == SessionInv /\ [SessionNext]_sessionVars => SessionInv'
<1> SUFFICES ASSUME SessionInv, [SessionNext]_sessionVars PROVE SessionInv'
  OBVIOUS
<1>1. CASE SessionNext
  BY <1>1, InvAnswer, InvUser DEF SessionNext
<1>2. CASE UNCHANGED sessionVars
  BY <1>2 DEF sessionVars, SessionInv, SessionTypeOK, IdentityIsCurrent, ReloadKeepsSession,
              PageIsAllowed, CanAccess
<1> QED BY <1>1, <1>2

\* The session's invariant holds in every state of the client.
LEMMA SessionIsSafe == SessionSpec => []SessionInv
BY InvStart, SessionInvStep, PTL DEF SessionSpec

\* For any accounts and roles: the identity shown is that of the token in use,
\* although late answers of /me are taken over unseen (main.tsx, App).
THEOREM IdentityIsSafe == SessionSpec => []IdentityIsCurrent
<1>1. SessionInv => IdentityIsCurrent
  BY DEF SessionInv
<1> QED BY <1>1, SessionIsSafe, PTL

\* For any accounts, roles and pages: nobody sees a page, or data of a page, that
\* his role does not open.
THEOREM PagesAreSafe == SessionSpec => []PageIsAllowed
<1>1. SessionInv => PageIsAllowed
  BY DEF SessionInv
<1> QED BY <1>1, SessionIsSafe, PTL

\* A reload finds the token in use, and none that was refused or given up.
THEOREM ReloadIsSafe == SessionSpec => []ReloadKeepsSession
<1>1. SessionInv => ReloadKeepsSession
  BY DEF SessionInv
<1> QED BY <1>1, SessionIsSafe, PTL

-----------------------------------------------------------------------------

\* The fields of the wizard and of an installation, for the steps below.
LEMMA WizardFields ==
  ASSUME WizardTypeOK
  PROVE  /\ wizard.step \in 0 .. 4 /\ wizard.profile \in Driver \cup {Nothing}
         /\ wizard.connection \in Choice /\ wizard.name \in BOOLEAN /\ wizard.host \in BOOLEAN
         /\ wizard.placement \in {"existing", "new"} /\ wizard.asset \in BOOLEAN
         /\ wizard.assetName \in BOOLEAN /\ wizard.busy \in BOOLEAN /\ wizard.warning \in BOOLEAN
BY DEF WizardTypeOK, Wizard

\* The wizard after the first poll.
LEMMA EndedIsWizard ==
  ASSUME NEW w \in Wizard, NEW warned \in BOOLEAN
  PROVE  [w EXCEPT !.step = 4, !.busy = FALSE, !.warning = warned] \in Wizard
<1>1. ASSUME NEW v \in Wizard PROVE [v EXCEPT !.step = 4] \in Wizard
  BY DEF Wizard
<1>2. ASSUME NEW v \in Wizard PROVE [v EXCEPT !.busy = FALSE] \in Wizard
  BY DEF Wizard
<1>3. ASSUME NEW v \in Wizard PROVE [v EXCEPT !.warning = warned] \in Wizard
  BY DEF Wizard
<1> QED BY <1>1, <1>2, <1>3, Zenon

\* A channel the wizard offers is one the model speaks on.
LEMMA OfferedIsCompatible ==
  ASSUME channels \subseteq Bus, NEW p \in Driver, NEW c \in Offered(p)
  PROVE  Compatible(p, c) /\ c \in Choice
BY WizardAssumption DEF Offered, Compatible, KindOf, Choice

\* The wizard opens.
LEMMA WizardInvInit == WizardInit => WizardInv
BY WizardAssumption
   DEF WizardInit, NewWizard, WizardInv, WizardTypeOK, Wizard, Choice, InstallsAreComplete,
       LastPageIsReal, InFlight, Compatible, Placed, ByAddress

\* The steps that fill in the fields.
LEMMA WizardInvFields ==
  ASSUME WizardInv,
         \/ \E p \in Driver : ChooseDriver(p)
         \/ \E c \in Bus \cup {Automatic} : ChooseBus(c)
         \/ \E where \in {"existing", "new"} : ChoosePlacement(where)
         \/ \E given \in BOOLEAN : TypeName(given) \/ TypeHost(given) \/ ChooseAsset(given) \/ TypeAssetName(given)
  PROVE  WizardInv'
<1> USE WizardAssumption
<1>0. WizardTypeOK
  BY DEF WizardInv
<1>1. ASSUME NEW p \in Driver, ChooseDriver(p) PROVE WizardInv'
  <2> DEFINE c == IF "tcp" \in Speaks[p] THEN Automatic ELSE Nothing
  <2>1. /\ p # Nothing /\ c \in Choice
        /\ c # Nothing => KindOf(c) \in Speaks[p]
    BY DEF KindOf, Choice
  <2>2. /\ wizard.step = 0 /\ UNCHANGED <<channels, assets, sent, device>>
        /\ wizard' = [wizard EXCEPT !.profile = p, !.connection = c, !.name = TRUE, !.assetName = TRUE]
    BY <1>1 DEF ChooseDriver, Elsewhere
  <2> HIDE DEF c
  <2>3. wizard' \in Wizard
    BY <1>0, <2>1, <2>2 DEF WizardTypeOK, Wizard
  <2>4. /\ wizard'.step = 0 /\ wizard'.profile = p /\ wizard'.connection = c
        /\ wizard'.busy = wizard.busy
    BY <1>0, <2>2 DEF WizardTypeOK, Wizard
  <2> QED BY <1>0, <2>1, <2>2, <2>3, <2>4
          DEF WizardInv, WizardTypeOK, InstallsAreComplete, LastPageIsReal, InFlight, Compatible
<1>2. ASSUME NEW c \in Bus \cup {Automatic}, ChooseBus(c) PROVE WizardInv'
  <2>1. wizard.profile \in Driver /\ Compatible(wizard.profile, c) /\ c \in Choice
    BY <1>0, <1>2, OfferedIsCompatible, WizardFields DEF ChooseBus, WizardTypeOK, WizardInv
  <2> QED BY <1>0, <1>2, <2>1
          DEF ChooseBus, Elsewhere, WizardInv, WizardTypeOK, Wizard, InstallsAreComplete,
              LastPageIsReal, InFlight, Compatible, Placed, ByAddress
<1>3. ASSUME NEW where \in {"existing", "new"}, ChoosePlacement(where) PROVE WizardInv'
  BY <1>0, <1>3
     DEF ChoosePlacement, Elsewhere, WizardInv, WizardTypeOK, Wizard, InstallsAreComplete,
         LastPageIsReal, InFlight, Compatible, Placed, ByAddress, Offered
<1>4. ASSUME NEW given \in BOOLEAN, TypeName(given) \/ TypeHost(given) PROVE WizardInv'
  BY <1>0, <1>4
     DEF TypeName, TypeHost, Elsewhere, WizardInv, WizardTypeOK, Wizard, InstallsAreComplete,
         LastPageIsReal, InFlight, Compatible, Placed, ByAddress, Offered
<1>5. ASSUME NEW given \in BOOLEAN, ChooseAsset(given) \/ TypeAssetName(given) PROVE WizardInv'
  BY <1>0, <1>5
     DEF ChooseAsset, TypeAssetName, Elsewhere, WizardInv, WizardTypeOK, Wizard, InstallsAreComplete,
         LastPageIsReal, InFlight, Compatible, Placed, ByAddress, Offered
<1> QED BY <1>1, <1>2, <1>3, <1>4, <1>5

\* The steps between the pages, and the parent's.
LEMMA WizardInvPages ==
  ASSUME WizardInv,
         ParentLoads \/ Continue \/ \E s \in 0 .. 3 : GoBack(s)
  PROVE  WizardInv'
<1> USE WizardAssumption
<1>0. WizardTypeOK
  BY DEF WizardInv
<1>1. CASE ParentLoads
  <2>1. wizard' = wizard /\ sent' = sent /\ device' = device /\ channels' \subseteq channels
    BY <1>1 DEF ParentLoads
  <2>2. ByAddress' => ByAddress
    BY <2>1 DEF ByAddress, Offered, KindOf
  <2> QED BY <1>0, <1>1, <2>1, <2>2
          DEF ParentLoads, WizardInv, WizardTypeOK, InstallsAreComplete, LastPageIsReal, InFlight,
              Compatible, Placed
<1>2. CASE Continue
  <2>1. wizard.step \in {0, 1, 2}
    BY <1>0, <1>2, WizardFields DEF Continue, StepComplete
  <2>2. /\ wizard' = [wizard EXCEPT !.step = wizard.step + 1]
        /\ wizard.step + 1 \in 1 .. 3
        /\ UNCHANGED <<channels, assets, sent, device>>
    BY <1>2, <2>1 DEF Continue, Elsewhere
  <2>3. /\ wizard.step = 0 => wizard.profile # Nothing
        /\ wizard.step = 1 => wizard.connection # Nothing /\ wizard.name /\ (ByAddress => wizard.host)
        /\ wizard.step = 2 => Placed
    BY <1>2 DEF Continue, StepComplete
  <2> QED BY <1>0, <2>1, <2>2, <2>3
          DEF WizardInv, WizardTypeOK, Wizard, InstallsAreComplete, LastPageIsReal, InFlight,
              Compatible, Placed, ByAddress, Offered
<1>3. ASSUME NEW s \in 0 .. 3, GoBack(s) PROVE WizardInv'
  BY <1>0, <1>3
     DEF GoBack, Elsewhere, WizardInv, WizardTypeOK, Wizard, InstallsAreComplete, LastPageIsReal,
         InFlight, Compatible, Placed, ByAddress, Offered
<1> QED BY <1>1, <1>2, <1>3

\* The installation and its answers.
LEMMA WizardInvInstall ==
  ASSUME WizardInv, Install \/ WizardAnswer
  PROVE  WizardInv'
<1> USE WizardAssumption
<1>0. WizardTypeOK
  BY DEF WizardInv
<1>1. CASE Install
  <2> DEFINE kind == IF ByAddress THEN "tcp" ELSE "rtu"
             s == [phase |-> "install", profile |-> wizard.profile, connection |-> wizard.connection,
                   kind |-> kind, name |-> wizard.name, host |-> wizard.host, placed |-> Placed]
  <2>1. /\ wizard.step = 3 /\ wizard.profile \in Measurable
        /\ wizard' = [wizard EXCEPT !.busy = TRUE] /\ sent' = s
        /\ UNCHANGED <<channels, assets, device>>
    BY <1>1 DEF Install
  <2>2. /\ Compatible(wizard.profile, wizard.connection) /\ wizard.name /\ Placed
        /\ ByAddress => wizard.host
    BY <2>1 DEF WizardInv
  <2>3. Placed \in BOOLEAN
    BY <1>0, WizardFields DEF Placed
  <2>4. s \in Installation /\ s # Nothing
    BY <1>0, <2>1, <2>3, WizardFields, NoChoiceIsNoRecord DEF Installation
  <2>5. /\ wizard' \in Wizard /\ wizard'.busy = TRUE /\ wizard'.step = 3
        /\ wizard'.profile = wizard.profile /\ wizard'.connection = wizard.connection
        /\ wizard'.name = wizard.name /\ wizard'.host = wizard.host
        /\ wizard'.placement = wizard.placement /\ wizard'.asset = wizard.asset
        /\ wizard'.assetName = wizard.assetName
    BY <1>0, <2>1 DEF WizardTypeOK, Wizard
  <2>6. Placed' = Placed /\ ByAddress' = ByAddress
    BY <2>1, <2>5 DEF Placed, ByAddress, Offered, KindOf
  <2>7. /\ sent'.phase = "install" /\ sent'.profile = wizard.profile
        /\ sent'.connection = wizard.connection /\ sent'.name /\ sent'.placed
        /\ (sent'.kind = "tcp" => sent'.host)
    BY <2>1, <2>2
  <2> HIDE DEF s
  <2> QED BY <1>0, <2>1, <2>2, <2>4, <2>5, <2>6, <2>7
          DEF WizardInv, WizardTypeOK, InstallsAreComplete, LastPageIsReal, InFlight, Compatible
<1>2. CASE ProvisionAnswered
  <2>1. /\ sent # Nothing /\ sent \in Installation
        /\ device' = "installed" /\ sent' = [sent EXCEPT !.phase = "poll"]
        /\ UNCHANGED <<wizard, channels, assets>>
    BY <1>0, <1>2 DEF ProvisionAnswered, InFlight, WizardTypeOK
  <2>2. sent' \in Installation /\ sent' # Nothing /\ sent'.phase = "poll"
    BY <2>1, NoChoiceIsNoRecord DEF Installation
  <2>3. /\ sent'.profile = sent.profile /\ sent'.connection = sent.connection
        /\ sent'.kind = sent.kind /\ sent'.name = sent.name /\ sent'.host = sent.host
        /\ sent'.placed = sent.placed
    BY <2>1 DEF Installation
  <2> QED BY <1>0, <2>1, <2>2, <2>3
          DEF WizardInv, WizardTypeOK, InstallsAreComplete, LastPageIsReal, InFlight,
              Compatible, Placed, ByAddress, Offered
<1>3. CASE NotInstalled
  BY <1>0, <1>3
     DEF NotInstalled, WizardInv, WizardTypeOK, Wizard, InstallsAreComplete, LastPageIsReal, InFlight,
         Compatible, Placed, ByAddress, Offered
<1>4. ASSUME NEW answered \in BOOLEAN, NEW good \in BOOLEAN, Polled(answered, good) PROVE WizardInv'
  <2>1. /\ sent # Nothing /\ sent.phase = "poll" /\ sent' = Nothing
        /\ device' = IF good THEN "polled" ELSE device
        /\ wizard' = [wizard EXCEPT !.step = 4, !.busy = FALSE, !.warning = wizard.warning \/ ~answered]
        /\ UNCHANGED <<channels, assets>>
    BY <1>4 DEF Polled, InFlight
  <2>2. (wizard.warning \/ ~answered) \in BOOLEAN
    OBVIOUS
  <2>3. wizard' \in Wizard
    BY <1>0, <2>1, <2>2, EndedIsWizard, Zenon DEF WizardTypeOK
  <2>4. /\ wizard'.step = 4 /\ wizard'.busy = FALSE
        /\ wizard'.profile = wizard.profile /\ wizard'.connection = wizard.connection
    BY <1>0, <2>1 DEF WizardTypeOK, Wizard
  <2>5. device # "none" /\ device' \in {"none", "installed", "polled"}
        /\ device' # "none"
    BY <1>0, <2>1 DEF WizardInv, WizardTypeOK, InFlight
  <2> QED BY <1>0, <2>1, <2>3, <2>4, <2>5
          DEF WizardInv, WizardTypeOK, InstallsAreComplete, LastPageIsReal, InFlight, Compatible
<1> QED BY <1>1, <1>2, <1>3, <1>4 DEF WizardAnswer

\* Every step keeps the invariant.
LEMMA WizardInvStep == WizardInv /\ [WizardNext]_wizardVars => WizardInv'
<1> SUFFICES ASSUME WizardInv, [WizardNext]_wizardVars PROVE WizardInv'
  OBVIOUS
<1>1. CASE WizardNext
  BY <1>1, WizardInvFields, WizardInvPages, WizardInvInstall DEF WizardNext
<1>2. CASE UNCHANGED wizardVars
  BY <1>2 DEF wizardVars, WizardInv, WizardTypeOK, InstallsAreComplete, LastPageIsReal, InFlight,
              Compatible, Placed, ByAddress, Offered
<1> QED BY <1>1, <1>2

\* The wizard's invariant holds in every state.
LEMMA WizardIsSafe == WizardSpec => []WizardInv
BY WizardInvInit, WizardInvStep, PTL DEF WizardSpec

\* For any profiles and channels, and however the steps are revisited while the
\* parent's lists change: an installation that is sent is complete
\* (device-provisioning-wizard.tsx, next and install).
THEOREM InstallationsAreComplete == WizardSpec => []InstallsAreComplete
<1>1. WizardInv => InstallsAreComplete
  BY DEF WizardInv
<1> QED BY <1>1, WizardIsSafe, PTL

\* The last page of the wizard, which reports the device as installed, is reached
\* over an installation only, whatever steps are revisited meanwhile (install).
THEOREM LastPageFollowsInstallation == WizardSpec => []LastPageIsReal
<1>1. WizardInv => LastPageIsReal
  BY DEF WizardInv
<1> QED BY <1>1, WizardIsSafe, PTL
-----------------------------------------------------------------------------
\* A save goes to the device its form was filled with; no more is needed, because
\* whatever fills, changes or resets the form does both parts of it at once.
PlantInv == PlantTypeOK /\ SavesAreConsistent

\* What a save asks for.
ConsistentSave(c) == c.op = "save" => c.device # Nil /\ c.channel \in Supports[c.profile]

LEMMA PlantInvInit == PlantInit => PlantInv
<1> SUFFICES ASSUME PlantInit PROVE PlantInv
  OBVIOUS
<1>1. site \in Site
  BY DEF PlantInit, Site, Setting
<1>2. plant = MountedPlant(site) /\ foreign = 0
  BY DEF PlantInit
<1> DEFINE load == [op |-> "load", data |-> site, then |-> "nothing"]
<1>3. load \in Call /\ load.op = "load"
  BY <1>1 DEF Call
<1>4. plant.calls = {load}
  BY <1>2 DEF MountedPlant
<1>5. NoSite \in Site /\ BlankForm \in Form
  BY DEF NoSite, Site, BlankForm, Form
<1> HIDE DEF load
<1>6. plant \in Plant
  BY <1>2, <1>3, <1>4, <1>5 DEF MountedPlant, Plant
<1>7. plant.form = BlankForm /\ plant.editing = Nil
  BY <1>2 DEF MountedPlant
<1> QED BY <1>1, <1>2, <1>3, <1>4, <1>6, <1>7, PlantAssumption
        DEF PlantInv, PlantTypeOK, SavesAreConsistent, BlankForm

\* The form is kept and the requests are those there were, or one more that is
\* consistent.
LEMMA AskKeeps ==
  ASSUME PlantInv, site' \in Site, foreign' \in 0 .. MaxForeign, plant' \in Plant,
         plant'.form = plant.form, plant'.editing = plant.editing,
         \A c \in plant'.calls : c \in plant.calls \/ ConsistentSave(c)
  PROVE  PlantInv'
BY DEF PlantInv, PlantTypeOK, SavesAreConsistent, ConsistentSave

\* A load may be asked for at any time.
LEMMA LoadIsCall ==
  ASSUME site' \in Site, NEW then \in {"nothing", "energy", "close"}
  PROVE  LoadCall(then) \in Call /\ LoadCall(then).op = "load"
BY DEF LoadCall, Call

\* The tabs, the form and the dialogs.
LEMMA PlantInvPage ==
  ASSUME PlantInv,
         \/ \E t \in {"overview", "devices", "energy"} : OpenTab(t)
         \/ \E d \in PlantDevice : EditDevice(d) \/ OpenRemoval(d)
         \/ \E c \in Channel \cup {Nil} : ChooseChannel(c)
         \/ \E p \in Profile : ChooseProfile(p)
         \/ CancelEdit \/ ChooseFamily \/ CloseDialog \/ OpenWizard
  PROVE  PlantInv'
<1>0. plant \in Plant /\ site \in Site /\ plant.form \in Form
  BY DEF PlantInv, PlantTypeOK, Plant
<1>1. ASSUME NEW t \in {"overview", "devices", "energy"}, OpenTab(t) PROVE PlantInv'
  <2>1. /\ plant' \in Plant /\ plant'.form = plant.form /\ plant'.editing = plant.editing
        /\ plant'.calls = plant.calls
    BY <1>0, <1>1 DEF OpenTab, Plant
  <2> QED BY <1>1, <2>1, AskKeeps DEF OpenTab, Still, PlantInv, PlantTypeOK
<1>2. ASSUME NEW d \in PlantDevice, EditDevice(d) PROVE PlantInv'
  <2> DEFINE form == [of |-> d, channel |-> plant.shown.devices[d].channel,
                      profile |-> plant.shown.devices[d].profile, models |-> TRUE]
  <2>1. /\ plant' = [plant EXCEPT !.editing = d, !.form = form]
        /\ plant.shown.devices[d] # Nil /\ UNCHANGED <<site, foreign>>
    BY <1>2 DEF EditDevice, InstalledIn, Still
  <2>2. plant.shown.devices[d] \in Setting
    BY <1>0, <2>1 DEF Plant, Site
  <2>3. form \in Form /\ form.of = d /\ form.channel \in Supports[form.profile]
    BY <2>2 DEF Setting, Form
  <2> HIDE DEF form
  <2>4. /\ plant' \in Plant /\ plant'.form = form /\ plant'.editing = d /\ plant'.calls = plant.calls
    BY <1>0, <2>1, <2>3 DEF Plant
  <2> QED BY <2>1, <2>3, <2>4 DEF PlantInv, PlantTypeOK, SavesAreConsistent
<1>3. ASSUME NEW d \in PlantDevice, OpenRemoval(d) PROVE PlantInv'
  <2>1. /\ plant' \in Plant /\ plant'.form = plant.form /\ plant'.editing = plant.editing
        /\ plant'.calls = plant.calls
    BY <1>0, <1>3 DEF OpenRemoval, Plant
  <2> QED BY <1>3, <2>1, AskKeeps DEF OpenRemoval, Still, PlantInv, PlantTypeOK
<1>4. ASSUME NEW c \in Channel \cup {Nil}, ChooseChannel(c) PROVE PlantInv'
  <2>1. /\ plant' = [plant EXCEPT !.form.channel = c, !.form.profile = Nil]
        /\ UNCHANGED <<site, foreign>>
    BY <1>4 DEF ChooseChannel, FormShown, Still
  <2>2. /\ plant' \in Plant /\ plant'.form.of = plant.form.of /\ plant'.form.profile = Nil
        /\ plant'.editing = plant.editing /\ plant'.calls = plant.calls
    BY <1>0, <2>1 DEF Plant, Form
  <2> QED BY <2>1, <2>2 DEF PlantInv, PlantTypeOK, SavesAreConsistent
<1>5. ASSUME NEW p \in Profile, ChooseProfile(p) PROVE PlantInv'
  <2>1. /\ plant' = [plant EXCEPT !.form.profile = p] /\ UNCHANGED <<site, foreign>>
        /\ plant.form.channel \in Supports[p]
    BY <1>5 DEF ChooseProfile, FormShown, Still
  <2>2. /\ plant' \in Plant /\ plant'.form.of = plant.form.of /\ plant'.form.profile = p
        /\ plant'.form.channel = plant.form.channel
        /\ plant'.editing = plant.editing /\ plant'.calls = plant.calls
    BY <1>0, <2>1 DEF Plant, Form
  <2> QED BY <2>1, <2>2 DEF PlantInv, PlantTypeOK, SavesAreConsistent
<1>6. CASE CancelEdit
  <2>1. BlankForm \in Form /\ BlankForm.of = Nil /\ BlankForm.profile = Nil
    BY DEF BlankForm, Form
  <2>2. plant' = [plant EXCEPT !.editing = Nil, !.form = BlankForm] /\ UNCHANGED <<site, foreign>>
    BY <1>6 DEF CancelEdit, FormShown, Still
  <2>3. /\ plant' \in Plant /\ plant'.form = BlankForm /\ plant'.editing = Nil
        /\ plant'.calls = plant.calls
    BY <1>0, <2>1, <2>2 DEF Plant
  <2> QED BY <2>1, <2>2, <2>3 DEF PlantInv, PlantTypeOK, SavesAreConsistent
<1>7. CASE ChooseFamily
  <2>1. PICK some \in BOOLEAN : plant' = [plant EXCEPT !.form.profile = Nil, !.form.models = some]
    BY <1>7 DEF ChooseFamily
  <2>2. /\ plant' \in Plant /\ plant'.form.of = plant.form.of /\ plant'.form.profile = Nil
        /\ plant'.editing = plant.editing /\ plant'.calls = plant.calls
    BY <1>0, <2>1 DEF Plant, Form
  <2> QED BY <1>7, <2>2 DEF ChooseFamily, FormShown, Still, PlantInv, PlantTypeOK, SavesAreConsistent
<1>8. CASE CloseDialog \/ OpenWizard
  <2>1. /\ plant' \in Plant /\ plant'.form = plant.form /\ plant'.editing = plant.editing
        /\ plant'.calls = plant.calls
    BY <1>0, <1>8 DEF CloseDialog, OpenWizard, Plant
  <2> QED BY <1>8, <2>1, AskKeeps DEF CloseDialog, OpenWizard, Still, PlantInv, PlantTypeOK
<1> QED BY <1>1, <1>2, <1>3, <1>4, <1>5, <1>6, <1>7, <1>8

\* The requests.
LEMMA PlantInvCalls ==
  ASSUME PlantInv,
         \/ \E openTree \in BOOLEAN : WizardDone(openTree)
         \/ RefreshPlant \/ SaveDevice \/ SaveSite \/ AddBinding \/ RemoveBinding \/ Remove
  PROVE  PlantInv'
<1>0. plant \in Plant /\ site \in Site /\ UNCHANGED <<site, foreign>> /\ foreign \in 0 .. MaxForeign
  BY DEF PlantInv, PlantTypeOK, WizardDone, RefreshPlant, SaveDevice, SaveSite, AddBinding,
         RemoveBinding, Command, Remove, CanSave, FormShown, Still
<1> SUFFICES ASSUME NEW call \in Call, ConsistentSave(call),
                    NEW dialog \in PlantDevice \cup {"none", "wizard"}, NEW busy \in BOOLEAN,
                    plant' = [plant EXCEPT !.dialog = dialog, !.busy = busy, !.calls = @ \cup {call}]
             PROVE  PlantInv'
  <2>0. plant.dialog \in PlantDevice \cup {"none", "wizard"} /\ plant.busy \in BOOLEAN
    BY <1>0 DEF Plant
  <2> DEFINE Asks(call, dialog, busy) ==
               plant' = [plant EXCEPT !.dialog = dialog, !.busy = busy, !.calls = @ \cup {call}]
  <2> SUFFICES \E call \in Call, dialog \in PlantDevice \cup {"none", "wizard"}, busy \in BOOLEAN :
                 ConsistentSave(call) /\ Asks(call, dialog, busy)
    OBVIOUS
  <2>1. ASSUME NEW call \in Call, ConsistentSave(call), plant' = [plant EXCEPT !.calls = @ \cup {call}]
        PROVE  Asks(call, plant.dialog, plant.busy)
    BY <1>0, <2>1 DEF Plant
  <2>2. CASE RefreshPlant
    <3>1. LoadCall("nothing") \in Call /\ ConsistentSave(LoadCall("nothing"))
      BY <1>0, LoadIsCall DEF ConsistentSave
    <3> QED BY <2>0, <2>1, <2>2, <3>1 DEF RefreshPlant
  <2>3. CASE SaveSite \/ AddBinding \/ RemoveBinding
    <3>1. [op |-> "other"] \in Call /\ ConsistentSave([op |-> "other"])
      BY DEF Call, ConsistentSave
    <3> QED BY <2>0, <2>1, <2>3, <3>1 DEF SaveSite, AddBinding, RemoveBinding, Command
  <2>4. CASE SaveDevice
    <3> DEFINE call == [op |-> "save", device |-> plant.editing, channel |-> plant.form.channel,
                        profile |-> plant.form.profile]
    <3>1. /\ plant' = [plant EXCEPT !.calls = @ \cup {call}]
          /\ plant.editing # Nil /\ plant.form.profile # Nil
      BY <2>4 DEF SaveDevice, CanSave, FormShown
    <3>2. call \in Call
      BY <1>0, <3>1 DEF Plant, Form, Call
    <3>3. ConsistentSave(call)
      BY <3>1 DEF ConsistentSave, PlantInv, SavesAreConsistent
    <3> HIDE DEF call
    <3> QED BY <2>0, <2>1, <3>1, <3>2, <3>3
  <2>5. CASE Remove
    <3> DEFINE call == [op |-> "delete", device |-> plant.dialog]
    <3>1. call \in Call /\ ConsistentSave(call)
      BY <2>5 DEF Remove, Call, ConsistentSave
    <3>2. Asks(call, plant.dialog, TRUE)
      BY <1>0, <2>5 DEF Remove, Plant
    <3> HIDE DEF call
    <3> QED BY <2>0, <3>1, <3>2
  <2>6. ASSUME NEW openTree \in BOOLEAN, WizardDone(openTree)
        PROVE  \E call \in Call, dialog \in PlantDevice \cup {"none", "wizard"}, busy \in BOOLEAN :
                 ConsistentSave(call) /\ Asks(call, dialog, busy)
    <3> DEFINE call == LoadCall(IF openTree THEN "energy" ELSE "nothing")
    <3>1. call \in Call /\ ConsistentSave(call)
      BY <1>0, LoadIsCall DEF ConsistentSave
    <3>2. Asks(call, "none", plant.busy)
      BY <1>0, <2>6 DEF WizardDone, Plant
    <3> HIDE DEF call
    <3> QED BY <2>0, <3>1, <3>2
  <2> QED BY <2>2, <2>3, <2>4, <2>5, <2>6
<1>1. /\ plant' \in Plant /\ plant'.form = plant.form /\ plant'.editing = plant.editing
      /\ plant'.calls = plant.calls \cup {call}
  BY <1>0 DEF Plant
<1> QED BY <1>0, <1>1, AskKeeps

\* The server stores only complete and consistent configurations.
LEMMA AcceptedIsSite ==
  ASSUME site \in Site, NEW c \in Call, ConsistentSave(c), Accepts(c)
  PROVE  site' \in Site
<1>1. CASE c.op = "save"
  <2> DEFINE setting == [channel |-> c.channel, profile |-> c.profile]
  <2>1. /\ c.device \in PlantDevice /\ c.profile \in Profile /\ c.channel \in Supports[c.profile]
        /\ c.channel \in site.channels
        /\ site' = [site EXCEPT !.devices[c.device] = setting]
    BY <1>1 DEF Call, ConsistentSave, Accepts
  <2>2. setting \in Setting
    BY <2>1 DEF Setting, Site
  <2> QED BY <2>1, <2>2 DEF Site
<1>2. CASE c.op = "delete"
  BY <1>2 DEF Accepts, Site
<1>3. CASE c.op = "other"
  BY <1>3 DEF Accepts
<1> QED BY <1>1, <1>2, <1>3 DEF Accepts

\* The answers.
LEMMA PlantInvAnswers ==
  ASSUME PlantInv, NEW c \in plant.calls, Done(c) \/ Rejected(c) \/ Loaded(c)
  PROVE  PlantInv'
<1>0. /\ plant \in Plant /\ site \in Site /\ foreign' = foreign /\ foreign \in 0 .. MaxForeign
      /\ c \in Call /\ ConsistentSave(c)
  BY DEF PlantInv, PlantTypeOK, Plant, SavesAreConsistent, ConsistentSave, Done, Rejected, Loaded, Still
<1>1. CASE Done(c)
  <2> DEFINE load == LoadCall(IF c.op = "delete" THEN "close" ELSE "nothing")
             edited == IF c.op = "save" THEN Nil ELSE plant.editing
             form == IF c.op = "save" THEN BlankForm ELSE plant.form
  <2>1. /\ plant' = [plant EXCEPT !.calls = (plant.calls \ {c}) \cup {load}, !.editing = edited,
                                  !.form = form]
        /\ Accepts(c)
    BY <1>1 DEF Done
  <2>2. site' \in Site
    BY <1>0, <2>1, AcceptedIsSite
  <2>3. load \in Call /\ load.op = "load"
    BY <2>2, LoadIsCall
  <2>4. /\ edited \in PlantDevice \cup {Nil} /\ form \in Form /\ form.of = edited
        /\ form.profile # Nil => form.channel \in Supports[form.profile]
    BY <1>0 DEF Plant, BlankForm, Form, PlantInv, SavesAreConsistent
  <2> HIDE DEF load, edited, form
  <2>5. /\ plant' \in Plant /\ plant'.form = form /\ plant'.editing = edited
        /\ plant'.calls = (plant.calls \ {c}) \cup {load}
    BY <1>0, <2>1, <2>3, <2>4 DEF Plant
  <2> QED BY <1>0, <2>2, <2>3, <2>4, <2>5 DEF PlantInv, PlantTypeOK, SavesAreConsistent
<1>2. CASE Rejected(c)
  <2>1. (plant.busy /\ (c.op # "delete" \/ c.device # plant.dialog)) \in BOOLEAN
    OBVIOUS
  <2>2. /\ plant' \in Plant /\ plant'.form = plant.form /\ plant'.editing = plant.editing
        /\ plant'.calls \subseteq plant.calls
    BY <1>0, <1>2, <2>1 DEF Rejected, Plant
  <2> QED BY <1>0, <1>2, <2>2, AskKeeps DEF Rejected, Still
<1>3. CASE Loaded(c)
  <2>1. PICK answer \in {c.data, plant.shown} : plant' = AfterLoad(c, answer)
    BY <1>3 DEF Loaded
  <2>2. answer \in Site
    BY <1>0, <1>3, <2>1 DEF Loaded, Call, Plant
  <2> DEFINE tab == IF c.then = "energy" THEN "energy" ELSE plant.tab
             dialog == IF c.then = "close" /\ plant.dialog # "wizard" THEN "none" ELSE plant.dialog
             busy == plant.busy /\ c.then # "close"
  <2>3. plant' = [plant EXCEPT !.calls = plant.calls \ {c}, !.shown = answer, !.tab = tab,
                               !.dialog = dialog, !.busy = busy]
    BY <2>1 DEF AfterLoad
  <2>4. /\ tab \in {"overview", "devices", "energy"} /\ busy \in BOOLEAN
        /\ dialog \in PlantDevice \cup {"none", "wizard"}
    BY <1>0 DEF Plant
  <2> HIDE DEF tab, dialog, busy
  <2>5. /\ plant' \in Plant /\ plant'.form = plant.form /\ plant'.editing = plant.editing
        /\ plant'.calls \subseteq plant.calls
    BY <1>0, <2>2, <2>3, <2>4 DEF Plant
  <2> QED BY <1>0, <1>3, <2>5, AskKeeps DEF Loaded, Still
<1> QED BY <1>1, <1>2, <1>3

\* Other clients.
LEMMA PlantInvForeign ==
  ASSUME PlantInv, ForeignChange
  PROVE  PlantInv'
<1>1. site \in Site /\ foreign' \in 0 .. MaxForeign /\ plant' = plant
  BY PlantAssumption DEF PlantInv, PlantTypeOK, ForeignChange
<1>2. site' \in Site
  <2>1. PICK c \in Channel : \/ site' = [site EXCEPT !.channels = @ \cup {c}]
                             \/ site' = [site EXCEPT !.channels = @ \ {c}]
    BY <1>1 DEF ForeignChange, Site
  <2> QED BY <1>1, <2>1 DEF Site
<1> QED BY <1>1, <1>2 DEF PlantInv, PlantTypeOK, SavesAreConsistent

\* Every step keeps the invariant.
LEMMA PlantInvStep == PlantInv /\ [PlantNext]_plantVars => PlantInv'
<1> SUFFICES ASSUME PlantInv, [PlantNext]_plantVars PROVE PlantInv'
  OBVIOUS
<1>1. CASE PlantUser
  BY <1>1, PlantInvPage, PlantInvCalls DEF PlantUser
<1>2. CASE PlantAnswer
  BY <1>2, PlantInvAnswers DEF PlantAnswer
<1>3. CASE UNCHANGED plantVars
  BY <1>3 DEF plantVars, PlantInv, PlantTypeOK, SavesAreConsistent
<1> QED BY <1>1, <1>2, <1>3, PlantInvForeign DEF PlantNext

\* The invariant of the plant page holds in every state.
LEMMA PlantIsSafe == PlantSpec => []PlantInv
BY PlantInvInit, PlantInvStep, PTL DEF PlantSpec

\* For any devices, channels and profiles, and whatever is answered late, changed
\* by others or edited meanwhile: a save addresses the device whose values the
\* form was filled with, and its model speaks the channel's protocol (main.tsx,
\* editDevice and addDevice).
THEOREM SavesAreOwn == PlantSpec => []SavesAreConsistent
<1>1. PlantInv => SavesAreConsistent
  BY DEF PlantInv
<1> QED BY <1>1, PlantIsSafe, PTL
-----------------------------------------------------------------------------
\* The search opens.
LEMMA DiscoveryInvInit == DiscoveryInit => DiscoveryInv
BY DEF DiscoveryInit, DiscoveryInv, DiscoveryTypeOK, Discovery, OffersOnlyNew

\* The steps of the search.
LEMMA DiscoveryInvScan ==
  ASSUME DiscoveryInv, Scan \/ ScanEnds
  PROVE  DiscoveryInv'
<1>0. discovery \in Discovery /\ configured \subseteq Unit
  BY DEF DiscoveryInv, DiscoveryTypeOK
<1>1. CASE Scan
  <2>1. PICK found \in SUBSET Unit :
          discovery' = [discovery EXCEPT !.scanning = TRUE, !.result = None, !.selected = None,
                                         !.scan = [found |-> found, known |-> found \cap configured]]
    BY <1>1 DEF Scan
  <2> DEFINE result == [found |-> found, known |-> found \cap configured]
  <2>2. result \in Result
    BY <1>0 DEF Result
  <2> HIDE DEF result
  <2>3. /\ discovery' \in Discovery /\ discovery'.selected = None
        /\ discovery'.installed = discovery.installed /\ discovery'.orders = discovery.orders
        /\ discovery'.profile = discovery.profile /\ discovery'.transport = discovery.transport
        /\ discovery'.installing = discovery.installing
    BY <1>0, <2>1, <2>2 DEF Discovery, result
  <2>4. UNCHANGED <<configured, confirmed>>
    BY <1>1 DEF Scan
  <2> QED BY <2>3, <2>4, DiscoveryAssumption DEF DiscoveryInv, DiscoveryTypeOK, OffersOnlyNew
<1>2. CASE ScanEnds
  <2>1. PICK result \in {discovery.scan, None} :
          discovery' = [discovery EXCEPT !.scanning = FALSE, !.result = result, !.scan = None]
    BY <1>2 DEF ScanEnds
  <2>2. result \in Result \cup {None}
    BY <1>0, <2>1 DEF Discovery
  <2>3. /\ discovery' \in Discovery /\ discovery'.selected = discovery.selected
        /\ discovery'.installed = discovery.installed /\ discovery'.orders = discovery.orders
        /\ discovery'.profile = discovery.profile /\ discovery'.transport = discovery.transport
        /\ discovery'.installing = discovery.installing
    BY <1>0, <2>1, <2>2 DEF Discovery
  <2>4. UNCHANGED <<configured, confirmed>>
    BY <1>2 DEF ScanEnds
  <2> QED BY <2>3, <2>4 DEF DiscoveryInv, DiscoveryTypeOK, OffersOnlyNew
<1> QED BY <1>1, <1>2

\* The drawer: its device, transport, model and name.
LEMMA DiscoveryInvDrawer ==
  ASSUME DiscoveryInv,
         \/ \E u \in Unit : Prepare(u)
         \/ \E t \in {"tcp", "rtu"} : SetTransport(t)
         \/ \E given \in BOOLEAN : SetName(given)
         \/ \E p \in Candidate \cup {None} : SetProfile(p)
         \/ CloseDrawer
  PROVE  DiscoveryInv'
<1>0. /\ discovery \in Discovery /\ UNCHANGED <<configured, confirmed>>
      /\ confirmed \subseteq discovery.installed
  BY DEF DiscoveryInv, DiscoveryTypeOK, OffersOnlyNew, Prepare, SetTransport, SetName, SetProfile,
         CloseDrawer, Drawer
<1>1. ASSUME NEW u \in Unit, Prepare(u) PROVE DiscoveryInv'
  <2>1. PICK p \in {q \in Candidate : "tcp" \in Protocols[q]} \cup {None} :
          discovery' = [discovery EXCEPT !.selected = u, !.transport = "tcp", !.profile = p, !.name = TRUE]
    BY <1>1 DEF Prepare
  <2>2. u \notin confirmed
    BY <1>0, <1>1 DEF Prepare, Offers, Marked
  <2>3. /\ discovery' \in Discovery /\ discovery'.selected = u /\ discovery'.transport = "tcp"
        /\ discovery'.profile = p
        /\ discovery'.installed = discovery.installed /\ discovery'.orders = discovery.orders
        /\ discovery'.installing = discovery.installing
    BY <1>0, <2>1 DEF Discovery
  <2> QED BY <1>0, <2>2, <2>3 DEF DiscoveryInv, DiscoveryTypeOK, OffersOnlyNew
<1>2. ASSUME NEW t \in {"tcp", "rtu"}, SetTransport(t) PROVE DiscoveryInv'
  BY <1>0, <1>2 DEF SetTransport, DiscoveryInv, DiscoveryTypeOK, Discovery, OffersOnlyNew
<1>3. ASSUME NEW given \in BOOLEAN, SetName(given) PROVE DiscoveryInv'
  BY <1>0, <1>3 DEF SetName, DiscoveryInv, DiscoveryTypeOK, Discovery, OffersOnlyNew
<1>4. ASSUME NEW p \in Candidate \cup {None}, SetProfile(p) PROVE DiscoveryInv'
  BY <1>0, <1>4 DEF SetProfile, DiscoveryInv, DiscoveryTypeOK, Discovery, OffersOnlyNew
<1>5. CASE CloseDrawer
  <2>1. None \notin confirmed
    BY <1>0, DiscoveryAssumption DEF DiscoveryInv, DiscoveryTypeOK
  <2> QED BY <1>0, <1>5, <2>1
          DEF CloseDrawer, DiscoveryInv, DiscoveryTypeOK, Discovery, OffersOnlyNew
<1> QED BY <1>1, <1>2, <1>3, <1>4, <1>5

\* The installation and its answers.
LEMMA DiscoveryInvInstall ==
  ASSUME DiscoveryInv, InstallUnit \/ DiscoveryAnswer
  PROVE  DiscoveryInv'
<1>0. /\ discovery \in Discovery /\ configured \subseteq Unit /\ confirmed \subseteq configured
      /\ discovery.orders \subseteq Order
  BY DEF DiscoveryInv, DiscoveryTypeOK, Discovery
<1>1. CASE InstallUnit
  <2> DEFINE order == [unit |-> discovery.selected, profile |-> discovery.profile,
                       transport |-> discovery.transport, marks |-> discovery.installed]
  <2>1. /\ discovery' = [discovery EXCEPT !.installing = TRUE, !.orders = @ \cup {order}]
        /\ UNCHANGED <<configured, confirmed>>
        /\ discovery.selected # None /\ discovery.profile # None /\ ~discovery.installing
    BY <1>1 DEF InstallUnit, Drawer, CanInstall
  <2>2. order \in Order
    BY <1>0, <2>1 DEF Discovery, Order
  <2>3. /\ order.unit \notin confirmed /\ order.transport \in Protocols[order.profile]
        /\ order.marks = discovery.installed
    BY <2>1 DEF DiscoveryInv, OffersOnlyNew
  <2>4. discovery.orders = {}
    BY <2>1 DEF DiscoveryInv
  <2> HIDE DEF order
  <2>5. /\ discovery' \in Discovery /\ discovery'.orders = {order} /\ discovery'.installing
        /\ discovery'.installed = discovery.installed /\ discovery'.selected = discovery.selected
        /\ discovery'.profile = discovery.profile /\ discovery'.transport = discovery.transport
    BY <1>0, <2>1, <2>2, <2>4 DEF Discovery
  <2> QED BY <2>1, <2>3, <2>5 DEF DiscoveryInv, DiscoveryTypeOK, OffersOnlyNew
<1>2. CASE ParentLoaded
  BY <1>0, <1>2 DEF ParentLoaded, DiscoveryInv, DiscoveryTypeOK, Discovery, OffersOnlyNew
<1>3. ASSUME NEW o \in discovery.orders, UnitInstalled(o) PROVE DiscoveryInv'
  <2>1. /\ configured' = configured \cup {o.unit} /\ confirmed' = confirmed \cup {o.unit}
        /\ discovery' = [discovery EXCEPT !.installed = o.marks \cup {o.unit},
                                          !.selected = None, !.orders = @ \ {o}]
    BY <1>3 DEF UnitInstalled
  <2>2. o.unit \in Unit /\ o.marks \subseteq Unit
    BY <1>0 DEF Order
  <2>3. o.marks = discovery.installed /\ discovery.orders \ {o} = {}
    BY DEF DiscoveryInv
  <2>4. /\ discovery' \in Discovery /\ discovery'.orders = {} /\ discovery'.selected = None
        /\ discovery'.installed = discovery.installed \cup {o.unit}
        /\ discovery'.profile = discovery.profile /\ discovery'.transport = discovery.transport
    BY <1>0, <2>1, <2>2, <2>3 DEF Discovery
  <2> QED BY <1>0, <2>1, <2>2, <2>4, DiscoveryAssumption
          DEF DiscoveryInv, DiscoveryTypeOK, OffersOnlyNew
<1>4. ASSUME NEW o \in discovery.orders, InstallRefused(o) PROVE DiscoveryInv'
  <2>1. /\ configured' \in {configured, configured \cup {o.unit}} /\ confirmed' = confirmed
        /\ discovery' = [discovery EXCEPT !.orders = @ \ {o}, !.installing = FALSE]
    BY <1>4 DEF InstallRefused
  <2>2. o.unit \in Unit /\ discovery.orders \ {o} = {}
    BY <1>0 DEF Order, DiscoveryInv
  <2>3. /\ discovery' \in Discovery /\ discovery'.orders = {} /\ discovery'.selected = discovery.selected
        /\ discovery'.installed = discovery.installed
        /\ discovery'.profile = discovery.profile /\ discovery'.transport = discovery.transport
    BY <1>0, <2>1, <2>2 DEF Discovery
  <2> QED BY <1>0, <2>1, <2>2, <2>3 DEF DiscoveryInv, DiscoveryTypeOK, OffersOnlyNew
<1> QED BY <1>1, <1>2, <1>3, <1>4 DEF DiscoveryAnswer

\* Every step keeps the invariant.
LEMMA DiscoveryInvStep == DiscoveryInv /\ [DiscoveryNext]_discoveryVars => DiscoveryInv'
<1> SUFFICES ASSUME DiscoveryInv, [DiscoveryNext]_discoveryVars PROVE DiscoveryInv'
  OBVIOUS
<1>1. CASE DiscoveryNext
  BY <1>1, DiscoveryInvScan, DiscoveryInvDrawer, DiscoveryInvInstall DEF DiscoveryNext
<1>2. CASE UNCHANGED discoveryVars
  BY <1>2 DEF discoveryVars, DiscoveryInv, DiscoveryTypeOK, OffersOnlyNew
<1> QED BY <1>1, <1>2

\* The invariant of the search holds in every state.
LEMMA DiscoveryIsSafe == DiscoverySpec => []DiscoveryInv
BY DiscoveryInvInit, DiscoveryInvStep, PTL DEF DiscoverySpec

\* For any units and profiles, and however searches and installations overlap: a
\* unit that was installed stays marked and is never offered or ordered again
\* (modbus-discovery.tsx, prepare and install).
THEOREM InstalledUnitsAreKnown == DiscoverySpec => []OffersOnlyNew
<1>1. DiscoveryInv => OffersOnlyNew
  BY DEF DiscoveryInv
<1> QED BY <1>1, DiscoveryIsSafe, PTL
-----------------------------------------------------------------------------
\* The channels' form is that of the channel it is saved to, and what is stored
\* is valid.
CommInv == CommTypeOK /\ ChannelsAreKept

\* A reload asks for the channels as they are.
LEMMA ReadingIsTyped == ASSUME links' \in Links PROVE Reading \in CommCall
BY DEF Reading, CommCall

LEMMA CommInvInit == CommInit => CommInv
BY DEF CommInit, CommInv, CommTypeOK, ChannelsAreKept, Links, Config, Comm, CommCall, ChannelForm,
       NewChannel, Kind, Port, Present, ValidConfig

\* A request joins the others, and nothing else changes.
LEMMA CallKeeps ==
  ASSUME CommInv, links' = links, NEW call \in CommCall, Call1(call)
  PROVE  CommInv'
<1>1. comm \in Comm /\ links \in Links
  BY DEF CommInv, CommTypeOK
<1>2. /\ comm' \in Comm /\ comm'.form = comm.form /\ comm'.editing = comm.editing
  BY <1>1 DEF Call1, Comm
<1> QED BY <1>1, <1>2 DEF CommInv, CommTypeOK, ChannelsAreKept, Present

\* The form, the tabs and the dialogs.
LEMMA CommInvPage ==
  ASSUME CommInv,
         \/ \E t \in {"channels", "network", "serial"} : CommTab(t)
         \/ \E l \in Link : EditChannel(l)
         \/ \E k \in Kind : ChooseKind(k)
         \/ \E open \in BOOLEAN : EditNetwork(open)
         \/ CancelChannel \/ TypePort \/ ChooseSerial \/ OpenDiscovery \/ CloseDiscovery
  PROVE  CommInv'
<1>0. comm \in Comm /\ links \in Links /\ comm.form.of = comm.editing
  BY DEF CommInv, CommTypeOK, ChannelsAreKept
<1> SUFFICES links' = links /\ comm' \in Comm /\ comm'.form.of = comm'.editing
  BY <1>0 DEF CommInv, CommTypeOK, ChannelsAreKept, Present
<1>1. ASSUME NEW t \in {"channels", "network", "serial"}, CommTab(t)
      PROVE  links' = links /\ comm' \in Comm /\ comm'.form.of = comm'.editing
  BY <1>0, <1>1 DEF CommTab, Uncovered, Comm
<1>2. ASSUME NEW l \in Link, EditChannel(l)
      PROVE  links' = links /\ comm' \in Comm /\ comm'.form.of = comm'.editing
  <2> DEFINE form == [of |-> l, kind |-> comm.list[l].kind, port |-> comm.list[l].port,
                      serial |-> comm.list[l].port]
  <2>1. /\ comm' = [comm EXCEPT !.editing = l, !.form = form] /\ links' = links
        /\ comm.list[l] # Vacant
    BY <1>2 DEF EditChannel, FormAt, Uncovered, Present
  <2>2. comm.list[l] \in Config
    BY <1>0, <2>1 DEF Comm, Links
  <2>3. form \in ChannelForm /\ form.of = l
    BY <2>2 DEF Config, ChannelForm
  <2> HIDE DEF form
  <2> QED BY <1>0, <2>1, <2>3 DEF Comm
<1>3. ASSUME NEW k \in Kind, ChooseKind(k)
      PROVE  links' = links /\ comm' \in Comm /\ comm'.form.of = comm'.editing
  BY <1>0, <1>3 DEF ChooseKind, FormAt, Uncovered, Comm, ChannelForm
<1>4. ASSUME NEW open \in BOOLEAN, EditNetwork(open)
      PROVE  links' = links /\ comm' \in Comm /\ comm'.form.of = comm'.editing
  BY <1>0, <1>4 DEF EditNetwork, Uncovered, Comm
<1>5. CASE CancelChannel
  <2>1. NewChannel \in ChannelForm /\ NewChannel.of = Vacant
    BY DEF NewChannel, ChannelForm, Kind, Port
  <2> QED BY <1>0, <1>5, <2>1 DEF CancelChannel, FormAt, Uncovered, Comm
<1>6. CASE TypePort \/ ChooseSerial
  BY <1>0, <1>6 DEF TypePort, ChooseSerial, FormAt, Uncovered, Comm, ChannelForm, Port
<1>7. CASE OpenDiscovery \/ CloseDiscovery
  BY <1>0, <1>7 DEF OpenDiscovery, CloseDiscovery, Uncovered, Comm
<1> QED BY <1>1, <1>2, <1>3, <1>4, <1>5, <1>6, <1>7

\* The requests.
LEMMA CommInvCalls ==
  ASSUME CommInv,
         \/ \E l \in Link : RemoveChannel(l)
         \/ ReloadChannels \/ SaveChannel \/ SaveNetwork \/ FoundInstalled
  PROVE  CommInv'
<1>0. comm \in Comm /\ links \in Links
  BY DEF CommInv, CommTypeOK
<1>1. CASE ReloadChannels \/ FoundInstalled
  <2>1. links' = links /\ Call1(Reading)
    BY <1>1 DEF ReloadChannels, FoundInstalled, FormAt, Uncovered
  <2> QED BY <1>0, <2>1, ReadingIsTyped, CallKeeps
<1>2. CASE SaveChannel
  <2> DEFINE call == [op |-> "save", link |-> comm.editing, config |-> Sent(comm.form)]
  <2>1. comm.form \in ChannelForm /\ comm.editing \in Link \cup {Vacant}
    BY <1>0 DEF Comm
  <2>2. Sent(comm.form) \in Config
    BY <2>1 DEF Sent, ChannelForm, Config
  <2>3. call \in CommCall
    BY <2>1, <2>2 DEF CommCall
  <2>4. links' = links /\ Call1(call)
    BY <1>2 DEF SaveChannel, FormAt, Uncovered
  <2> QED BY <2>3, <2>4, CallKeeps
<1>3. ASSUME NEW l \in Link, RemoveChannel(l) PROVE CommInv'
  <2>1. [op |-> "delete", link |-> l] \in CommCall
    BY DEF CommCall
  <2>2. links' = links /\ Call1([op |-> "delete", link |-> l])
    BY <1>3 DEF RemoveChannel, FormAt, Uncovered
  <2> QED BY <2>1, <2>2, CallKeeps
<1>4. CASE SaveNetwork
  <2>1. [op |-> "network"] \in CommCall
    BY DEF CommCall
  <2>2. links' = links /\ Call1([op |-> "network"])
    BY <1>4 DEF SaveNetwork, Uncovered
  <2> QED BY <2>1, <2>2, CallKeeps
<1> QED BY <1>1, <1>2, <1>3, <1>4

\* What a request writes is valid.
LEMMA AppliedKeeps ==
  ASSUME links \in Links, \A l \in Present(links) : ValidConfig(links[l]),
         NEW c \in CommCall, Applied(c)
  PROVE  links' \in Links /\ (\A l \in Present(links) : ValidConfig(links[l]))'
<1>1. CASE c.op = "save"
  <2>1. PICK l \in Link : links' = [links EXCEPT ![l] = c.config]
    BY <1>1 DEF Applied, Present
  <2>2. c.config \in Config /\ ValidConfig(c.config)
    BY <1>1 DEF Applied, CommCall
  <2> QED BY <2>1, <2>2 DEF Links, Present
<1>2. CASE c.op = "delete"
  <2>1. c.link \in Link /\ links' = [links EXCEPT ![c.link] = Vacant]
    BY <1>2 DEF Applied, CommCall
  <2> QED BY <2>1 DEF Links, Present
<1>3. CASE c.op \notin {"save", "delete"}
  BY <1>3 DEF Applied, Present
<1> QED BY <1>1, <1>2, <1>3

\* The answers.
LEMMA CommInvAnswers ==
  ASSUME CommInv, NEW c, CommandDone(c) \/ CommandFailed(c) \/ ChannelsLoaded(c)
  PROVE  CommInv'
<1>0. comm \in Comm /\ links \in Links /\ comm.form.of = comm.editing /\ c \in comm.calls
  BY DEF CommInv, CommTypeOK, ChannelsAreKept, CommandDone, CommandFailed, ChannelsLoaded
<1>1. c \in CommCall
  BY <1>0 DEF Comm
<1>2. CASE CommandDone(c)
  <2> DEFINE read == Reading
             after == IF c.op = "save" THEN Vacant ELSE comm.editing
             form == IF c.op = "save" THEN NewChannel ELSE comm.form
             open == comm.network /\ c.op # "network"
  <2>1. comm' = [comm EXCEPT !.calls = (comm.calls \ {c}) \cup {read}, !.editing = after,
                             !.form = form, !.network = open]
    BY <1>2 DEF CommandDone
  <2>2. links' \in Links /\ (\A l \in Present(links) : ValidConfig(links[l]))'
    BY <1>0, <1>1, <1>2, AppliedKeeps DEF CommandDone, CommInv, ChannelsAreKept
  <2>3. read \in CommCall
    BY <2>2, ReadingIsTyped
  <2>4. /\ after \in Link \cup {Vacant} /\ form \in ChannelForm /\ form.of = after
        /\ open \in BOOLEAN
    BY <1>0 DEF NewChannel, ChannelForm, Kind, Port, Comm
  <2> HIDE DEF read, after, form, open
  <2>5. comm' \in Comm /\ comm'.form.of = comm'.editing
    BY <1>0, <2>1, <2>3, <2>4 DEF Comm
  <2> QED BY <2>2, <2>5 DEF CommInv, CommTypeOK, ChannelsAreKept
<1>3. CASE CommandFailed(c) \/ ChannelsLoaded(c)
  <2>1. links' = links /\ comm' \in Comm /\ comm'.form = comm.form /\ comm'.editing = comm.editing
    <3>1. CASE CommandFailed(c)
      BY <1>0, <3>1 DEF CommandFailed, Comm
    <3>2. CASE ChannelsLoaded(c)
      <4>1. c.data \in Links
        BY <1>1, <3>2 DEF ChannelsLoaded, CommCall
      <4> QED BY <1>0, <3>2, <4>1 DEF ChannelsLoaded, Comm
    <3> QED BY <1>3, <3>1, <3>2
  <2> QED BY <1>0, <2>1 DEF CommInv, CommTypeOK, ChannelsAreKept, Present
<1> QED BY <1>2, <1>3

\* Every step keeps the invariant.
LEMMA CommInvStep == CommInv /\ [CommNext]_commVars => CommInv'
<1> SUFFICES ASSUME CommInv, [CommNext]_commVars PROVE CommInv'
  OBVIOUS
<1>1. CASE CommNext
  BY <1>1, CommInvPage, CommInvCalls, CommInvAnswers DEF CommNext
<1>2. CASE UNCHANGED commVars
  BY <1>2 DEF commVars, CommInv, CommTypeOK, ChannelsAreKept, Present
<1> QED BY <1>1, <1>2

\* The invariant of the channels holds in every state.
LEMMA ChannelsAreSafe == CommSpec => []CommInv
BY CommInvInit, CommInvStep, PTL DEF CommSpec

\* For any channels, and however edits, saves, removals and late answers
\* interleave: the form holds the channel it is saved to, and no TCP channel is
\* stored with the path of a serial port (communications-center.tsx, edit and
\* saveConnection; main.py, validate_connection_config).
THEOREM FormsAndChannelsAreKept == CommSpec => []ChannelsAreKept
<1>1. CommInv => ChannelsAreKept
  BY DEF CommInv
<1> QED BY <1>1, ChannelsAreSafe, PTL
-----------------------------------------------------------------------------
\* What a load asks is of its type.
LEMMA CallsAreTyped ==
  /\ \A p \in Period, last \in BOOLEAN :
        LoadOf(p, last) \in StudioCall /\ LoadOf(p, last).op = "load" /\ LoadOf(p, last).data = Unloaded
  /\ \A t \in Tab, p \in Period :
        /\ TabLoad(t, p) \in StudioCall /\ TabLoad(t, p).op # "save"
        /\ TabLoad(t, p).op = "load" => TabLoad(t, p).data = Unloaded
<1>1. ASSUME NEW p \in Period, NEW last \in BOOLEAN
      PROVE  LoadOf(p, last) \in StudioCall /\ LoadOf(p, last).op = "load" /\ LoadOf(p, last).data = Unloaded
  BY DEF LoadOf, StudioCall
<1>2. [op |-> "status"] \in StudioCall
  BY DEF StudioCall
<1> QED BY <1>1, <1>2 DEF TabLoad

\* A request that is no save may join the others, and requests may end.
LEMMA AskingKeeps ==
  ASSUME SettingsInv, limit' \in Limit \ {"zero"}, NEW call \in StudioCall, call.op # "save",
         call.op = "load" => call.data # "zero",
         studio' \in Studio,
         studio'.calls \subseteq studio.calls \cup {call},
         studio'.draft = studio.draft, studio'.base = studio.base, studio'.touched = studio.touched
  PROVE  SettingsInv'
BY UnloadedIsNoValue DEF SettingsInv, SettingsTypeOK, UntouchedIsKept, Draft, Limit

LEMMA SettingsInvInit == SettingsInit => SettingsInv
BY UnloadedIsNoValue
   DEF SettingsInit, SettingsInv, SettingsTypeOK, UntouchedIsKept, Studio, StudioCall, Limit, Draft,
       Tab, TabLoad, LoadOf

\* The steps that load.
LEMMA SettingsInvLoads ==
  ASSUME SettingsInv,
         \/ \E p \in Period : LoadReport(p)
         \/ \E t \in Tab : SelectTab(t) \/ Refocus(t)
         \/ ReloadTab
  PROVE  SettingsInv'
<1>0. studio \in Studio /\ limit \in Limit \ {"zero"}
  BY DEF SettingsInv, SettingsTypeOK
<1>1. ASSUME NEW p \in Period, LoadReport(p) PROVE SettingsInv'
  <2>1. /\ studio' = [studio EXCEPT !.period = p, !.loading = TRUE, !.calls = @ \cup {LoadOf(p, FALSE)}]
        /\ limit' = limit
    BY <1>1 DEF LoadReport, AtPage
  <2>2. /\ LoadOf(p, FALSE) \in StudioCall /\ LoadOf(p, FALSE).op = "load"
        /\ LoadOf(p, FALSE).data = Unloaded
    BY CallsAreTyped
  <2>3. /\ studio' \in Studio /\ studio'.calls = studio.calls \cup {LoadOf(p, FALSE)}
        /\ studio'.draft = studio.draft /\ studio'.base = studio.base /\ studio'.touched = studio.touched
    BY <1>0, <2>1, <2>2 DEF Studio
  <2> QED BY <1>0, <2>1, <2>2, <2>3, AskingKeeps, UnloadedIsNoValue DEF Draft, Limit
<1>2. ASSUME NEW t \in Tab, SelectTab(t) \/ Refocus(t) \/ ReloadTab PROVE SettingsInv'
  <2>1. studio.period \in Period /\ studio.tab \in Tab
    BY <1>0 DEF Studio
  <2>2. /\ limit' = limit
        /\ \E tab, focus \in Tab : \E more \in SUBSET {TabLoad(tab, studio.period)} :
              studio' = [studio EXCEPT !.focus = focus, !.tab = tab, !.calls = @ \cup more]
    <3>1. CASE SelectTab(t)
      <4> DEFINE missing == IF t = "status" THEN ~studio.status ELSE studio.draft = Unloaded
                 more == IF missing THEN {TabLoad(t, studio.period)} ELSE {}
      <4>1. more \in SUBSET {TabLoad(t, studio.period)} /\ studio.focus \in Tab
        BY <1>0 DEF Studio
      <4>2. studio' = [studio EXCEPT !.tab = t, !.calls = @ \cup more] /\ limit' = limit
        BY <3>1 DEF SelectTab, AtPage
      <4> HIDE DEF more
      <4>3. studio' = [studio EXCEPT !.focus = studio.focus, !.tab = t, !.calls = @ \cup more]
        BY <1>0, <4>2 DEF Studio
      <4> QED BY <4>1, <4>2, <4>3
    <3>2. CASE Refocus(t)
      BY <3>2 DEF Refocus
    <3>3. CASE ReloadTab
      <4> DEFINE more == {TabLoad(studio.tab, studio.period)}
      <4>1. studio' = [studio EXCEPT !.calls = @ \cup more] /\ limit' = limit
        BY <3>3 DEF ReloadTab, AtPage
      <4>2. studio.focus \in Tab
        BY <1>0 DEF Studio
      <4>3. studio' = [studio EXCEPT !.focus = studio.focus, !.tab = studio.tab, !.calls = @ \cup more]
        BY <1>0, <4>1 DEF Studio
      <4> QED BY <2>1, <4>1, <4>2, <4>3
    <3> QED BY <1>2, <3>1, <3>2, <3>3
  <2>5. PICK tab \in Tab, focus \in Tab : \E more \in SUBSET {TabLoad(tab, studio.period)} :
            studio' = [studio EXCEPT !.focus = focus, !.tab = tab, !.calls = @ \cup more]
    BY <2>2
  <2>6. PICK more \in SUBSET {TabLoad(tab, studio.period)} :
            studio' = [studio EXCEPT !.focus = focus, !.tab = tab, !.calls = @ \cup more]
    BY <2>5
  <2>3. /\ TabLoad(tab, studio.period) \in StudioCall /\ TabLoad(tab, studio.period).op # "save"
        /\ TabLoad(tab, studio.period).op = "load" => TabLoad(tab, studio.period).data = Unloaded
    BY <2>1, CallsAreTyped
  <2>4. /\ studio' \in Studio /\ studio'.calls \subseteq studio.calls \cup {TabLoad(tab, studio.period)}
        /\ studio'.draft = studio.draft /\ studio'.base = studio.base /\ studio'.touched = studio.touched
    BY <1>0, <2>3, <2>6 DEF Studio
  <2> QED BY <1>0, <2>2, <2>3, <2>4, AskingKeeps, UnloadedIsNoValue DEF Draft, Limit
<1> QED BY <1>1, <1>2 DEF Tab

\* The dialog, the field, and the save.
LEMMA SettingsInvEdits ==
  ASSUME SettingsInv,
         OpenDialog \/ CloseSettings \/ Save \/ \E d \in Draft : TypeLimit(d) \/ TypePreference(d)
  PROVE  SettingsInv'
<1>0. studio \in Studio /\ limit \in Limit \ {"zero"}
  BY DEF SettingsInv, SettingsTypeOK
<1>1. CASE OpenDialog \/ CloseSettings
  BY <1>0, <1>1
     DEF OpenDialog, CloseSettings, AtPage, SettingsInv, SettingsTypeOK, UntouchedIsKept, Studio
<1>2. ASSUME NEW d \in Draft, TypeLimit(d) \/ TypePreference(d) PROVE SettingsInv'
  BY <1>0, <1>2, UnloadedIsNoValue
     DEF TypeLimit, TypePreference, AtForm, SettingsInv, SettingsTypeOK, UntouchedIsKept, Studio
<1>3. CASE Save
  <2> DEFINE call == [op |-> "save", period |-> studio.period, base |-> studio.base,
                      touched |-> studio.touched, sent |-> Payload(studio.draft)]
  <2>1. /\ studio' = [studio EXCEPT !.busy = TRUE, !.calls = @ \cup {call}]
        /\ limit' = limit /\ studio.draft # Unloaded
    BY <1>3 DEF Save, AtForm
  <2>2. /\ studio.period \in Period /\ studio.draft \in Draft /\ studio.base \in {"unset", "positive"}
        /\ studio.touched \in BOOLEAN /\ (~studio.touched => studio.draft = studio.base)
    BY <1>0, <2>1 DEF Studio, SettingsInv, Limit
  <2>3. /\ Payload(studio.draft) \in Limit
        /\ ~studio.touched /\ Storable(Payload(studio.draft)) => Payload(studio.draft) = studio.base
    BY <2>2 DEF Payload, DialogLimit, PreferredLimit, Storable, Limit, Draft
  <2>4. /\ call \in StudioCall /\ call.op = "save"
        /\ ~call.touched /\ Storable(call.sent) => call.sent = call.base
    BY <2>2, <2>3 DEF StudioCall, Limit
  <2> HIDE DEF call
  <2>5. /\ studio' \in Studio /\ studio'.calls = studio.calls \cup {call}
        /\ studio'.draft = studio.draft /\ studio'.base = studio.base /\ studio'.touched = studio.touched
    BY <1>0, <2>1, <2>4 DEF Studio
  <2> QED BY <2>1, <2>4, <2>5 DEF SettingsInv, SettingsTypeOK, UntouchedIsKept
<1> QED BY <1>1, <1>2, <1>3

\* The answers.
LEMMA SettingsInvAnswers ==
  ASSUME SettingsInv, SettingsAnswer
  PROVE  SettingsInv'
<1>0. studio \in Studio /\ limit \in Limit \ {"zero"}
  BY DEF SettingsInv, SettingsTypeOK
<1>1. ASSUME NEW c, Saved(c) PROVE SettingsInv'
  <2>1. /\ studio' = [studio EXCEPT !.open = FALSE, !.loading = Monitoring,
                                    !.calls = (@ \ {c}) \cup {LoadOf(c.period, TRUE)}]
        /\ c \in studio.calls /\ c.op = "save" /\ limit' = c.sent /\ c.sent # "zero"
    BY <1>1 DEF Saved, Storable
  <2>2. c.period \in Period /\ c.sent \in Limit /\ Monitoring \in BOOLEAN
    BY <1>0, <2>1 DEF Studio, StudioCall, Monitoring
  <2>3. /\ LoadOf(c.period, TRUE) \in StudioCall /\ LoadOf(c.period, TRUE).op = "load"
        /\ LoadOf(c.period, TRUE).data = Unloaded
    BY <2>2, CallsAreTyped
  <2>4. /\ studio' \in Studio /\ studio'.calls \subseteq studio.calls \cup {LoadOf(c.period, TRUE)}
        /\ studio'.draft = studio.draft /\ studio'.base = studio.base /\ studio'.touched = studio.touched
    BY <1>0, <2>1, <2>2, <2>3 DEF Studio
  <2> QED BY <2>1, <2>2, <2>3, <2>4, AskingKeeps, UnloadedIsNoValue DEF Draft, Limit
<1>2. ASSUME NEW c, SaveFailed(c) PROVE SettingsInv'
  <2>1. limit' \in Limit \ {"zero"}
    BY <1>0, <1>2 DEF SaveFailed, Storable
  <2> QED BY <1>0, <1>2, <2>1 DEF SaveFailed, SettingsInv, SettingsTypeOK, UntouchedIsKept, Studio
<1>3. ASSUME NEW c, ReadSettings(c) PROVE SettingsInv'
  <2> DEFINE read == [c EXCEPT !.data = limit]
  <2>1. /\ c \in studio.calls /\ c.op = "load" /\ limit' = limit
        /\ studio' = [studio EXCEPT !.calls = (@ \ {c}) \cup {read}]
    BY <1>3 DEF ReadSettings
  <2>2. c \in StudioCall
    BY <1>0, <2>1 DEF Studio
  <2>3. read \in StudioCall /\ read.op = "load" /\ read.data = limit
    BY <1>0, <2>1, <2>2 DEF StudioCall
  <2> HIDE DEF read
  <2>4. /\ studio' \in Studio /\ studio'.calls \subseteq studio.calls \cup {read}
        /\ studio'.draft = studio.draft /\ studio'.base = studio.base /\ studio'.touched = studio.touched
    BY <1>0, <2>1, <2>3 DEF Studio
  <2> QED BY <1>0, <2>1, <2>3, <2>4, AskingKeeps
<1>4. ASSUME NEW c, SettingsLoaded(c) PROVE SettingsInv'
  BY <1>4, UnloadedIsNoValue
     DEF SettingsLoaded, SettingsInv, SettingsTypeOK, UntouchedIsKept, Studio, StudioCall, Limit, Draft
<1>5. ASSUME NEW c, LoadFailed(c) \/ StatusLoaded(c) PROVE SettingsInv'
  <2>1. /\ limit' = limit /\ studio' \in Studio /\ studio'.calls \subseteq studio.calls
        /\ studio'.draft = studio.draft /\ studio'.base = studio.base /\ studio'.touched = studio.touched
    <3>1. CASE LoadFailed(c)
      <4>1. (studio.busy /\ ~c.last) \in BOOLEAN
        OBVIOUS
      <4> QED BY <1>0, <3>1, <4>1 DEF LoadFailed, Studio
    <3>2. CASE StatusLoaded(c)
      <4>1. PICK loaded \in {studio.status, TRUE} :
               studio' = [studio EXCEPT !.status = loaded, !.calls = @ \ {c}]
        BY <3>2 DEF StatusLoaded
      <4>2. loaded \in BOOLEAN /\ limit' = limit
        BY <1>0, <3>2, <4>1 DEF StatusLoaded, Studio
      <4> QED BY <1>0, <4>1, <4>2 DEF Studio
    <3> QED BY <1>5, <3>1, <3>2
  <2> QED BY <2>1 DEF SettingsInv, SettingsTypeOK, UntouchedIsKept
<1> QED BY <1>1, <1>2, <1>3, <1>4, <1>5 DEF SettingsAnswer

\* Every step keeps the invariant.
LEMMA SettingsInvStep == SettingsInv /\ [SettingsNext]_settingsVars => SettingsInv'
<1> SUFFICES ASSUME SettingsInv, [SettingsNext]_settingsVars PROVE SettingsInv'
  OBVIOUS
<1>1. CASE ForeignSave
  BY <1>1 DEF ForeignSave, SettingsInv, SettingsTypeOK, UntouchedIsKept, Limit
<1>2. CASE UNCHANGED settingsVars
  BY <1>2 DEF settingsVars, SettingsInv, SettingsTypeOK, UntouchedIsKept
<1> QED BY <1>1, <1>2, SettingsInvLoads, SettingsInvEdits, SettingsInvAnswers DEF SettingsNext

\* The invariant of the settings holds in every state.
LEMMA SettingsAreSafe == SettingsSpec => []SettingsInv
BY SettingsInvInit, SettingsInvStep, PTL DEF SettingsSpec

\* For any periods, and however loads, edits and saves of both editors and of other
\* clients interleave: a limit nobody touched is stored as it was read, or not at
\* all (monitoring-studio.tsx, save; system-center.tsx, savePreferences).
THEOREM UntouchedLimitsAreKept == SettingsSpec => []UntouchedIsKept
<1>1. SettingsInv => UntouchedIsKept
  BY DEF SettingsInv
<1> QED BY <1>1, SettingsAreSafe, PTL
-----------------------------------------------------------------------------
\* In the shell the session takes its own steps, and a device of the energy tree
\* opens the live page, which the navigation lists for every role.
LEMMA ShellKeepsSession ==
  ASSUME SessionInv, ShellNext
  PROVE  SessionInv'
<1>1. CASE OpenLive
  <2>1. me \in Users
    BY <1>1 DEF OpenLive, Signed, SessionInv, SessionTypeOK
  <2>2. PageRoles("live") = Everyone
    BY DEF PageRoles
  <2>3. CanAccess("live", me) /\ "live" \in Pages
    BY <2>1, <2>2, SessionAssumption DEF CanAccess
  <2>4. Navigate("live")
    BY <1>1, <2>3 DEF OpenLive, Signed, Navigate
  <2> QED BY <2>3, <2>4, SessionInvStep DEF SessionNext
<1>2. CASE SessionStep
  BY <1>2, SessionInvStep DEF SessionStep
<1>3. CASE TreeStep \/ (Measure /\ UNCHANGED <<sessionVars, rail>>)
  BY <1>3, SessionInvStep DEF TreeStep
<1> QED BY <1>1, <1>2, <1>3 DEF ShellNext

\* The tree beside the page keeps its type.
RailTyped == version \in Version /\ rail \in Rail

LEMMA RailLoads ==
  ASSUME version \in Version, NEW r \in Rail, NEW silent \in BOOLEAN
  PROVE  Load(r, silent) \in Rail
<1>1. /\ r = [open |-> r.open, data |-> r.data, loading |-> r.loading, error |-> r.error, asked |-> r.asked]
      /\ r.open \in BOOLEAN /\ r.data \in Version \cup {NoTree} /\ r.loading \in BOOLEAN
      /\ r.error \in BOOLEAN /\ r.asked \subseteq Version
  BY DEF Rail
<1>2. r.asked \cup {version} \in SUBSET Version
  BY <1>1
<1> QED BY <1>1, <1>2 DEF Load, Rail

LEMMA RailMounts ==
  ASSUME version \in Version, NEW open \in BOOLEAN
  PROVE  NewRail(open) \in Rail /\ \A r \in Rail : Unmounted(r) \in Rail
<1>1. [open |-> open, data |-> NoTree, loading |-> TRUE, error |-> FALSE, asked |-> {}] \in Rail
  BY DEF Rail
<1>2. NewRail(open) \in Rail
  BY <1>1, RailLoads DEF NewRail
<1>3. ASSUME NEW r \in Rail PROVE Unmounted(r) \in Rail
  BY DEF Unmounted, Rail
<1> QED BY <1>2, <1>3

LEMMA RailAnswers ==
  ASSUME RailTyped, RailStep
  PROVE  RailTyped'
<1>0. version \in Version /\ version' = version /\ rail \in Rail
  BY DEF RailTyped, RailStep
<1>1. CASE RailTick \/ RailRefresh
  BY <1>0, <1>1, RailLoads DEF RailTick, RailRefresh, RailTyped
<1>2. CASE RailToggle
  BY <1>0, <1>2 DEF RailToggle, RailTyped, Rail
<1>3. ASSUME NEW v \in Version, RailAnswered(v) \/ RailFailed(v) PROVE RailTyped'
  <2>1. rail.asked \ {v} \in SUBSET Version
    BY <1>0 DEF Rail
  <2> QED BY <1>0, <1>3, <2>1 DEF RailAnswered, RailFailed, RailTyped, Rail
<1> QED BY <1>1, <1>2, <1>3 DEF RailStep

LEMMA ShellKeepsRail ==
  ASSUME RailTyped, ShellNext \/ UNCHANGED <<rail, version>>
  PROVE  RailTyped'
<1>0. version \in Version /\ rail \in Rail /\ rail.open \in BOOLEAN
  BY DEF RailTyped, Rail
<1>1. CASE SessionStep
  BY <1>0, <1>1, RailMounts DEF SessionStep, RailTyped
<1>2. CASE TreeStep
  BY <1>2, RailAnswers DEF TreeStep
<1>3. CASE OpenLive \/ UNCHANGED <<rail, version>>
  BY <1>0, <1>3 DEF OpenLive, RailTyped
<1>4. CASE Measure /\ UNCHANGED <<sessionVars, rail>>
  <2>1. version + 1 \in Version
    BY <1>0, <1>4, RailAssumption DEF Measure, Version
  <2> QED BY <1>0, <1>4, <2>1 DEF Measure, RailTyped
<1> QED BY <1>1, <1>2, <1>3, <1>4 DEF ShellNext

\* The shell and the views together.
ClientInv ==
    /\ view \in Views /\ SessionInv /\ RailTyped
    /\ WizardInv /\ PlantInv /\ DiscoveryInv /\ CommInv /\ SettingsInv /\ TreeInv /\ ReportInv

LEMMA ClientInvStart == ClientInit => ClientInv
<1> SUFFICES ASSUME ClientInit PROVE ClientInv
  OBVIOUS
<1>1. version \in Version /\ rail \in Rail
  <2>1. 0 \in Version
    BY RailAssumption DEF Version
  <2>2. PICK open \in BOOLEAN : version = 0 /\ rail = Unmounted([open |-> open])
    BY DEF ClientInit, ShellInit
  <2> QED BY <2>1, <2>2 DEF Unmounted, Rail
<1>2. TreeInv
  BY TreeInvStart DEF ClientInit
<1> QED BY <1>1, <1>2, InvStart, WizardInvInit, PlantInvInit, DiscoveryInvInit, CommInvInit,
           SettingsInvInit, ReportInvStart DEF ClientInit, ShellInit, ClientInv, RailTyped

\* A step of the client is a step of each view, or leaves it.
LEMMA ClientSteps ==
  ASSUME [ClientNext]_clientVars
  PROVE  /\ [WizardNext]_wizardVars /\ [PlantNext]_plantVars /\ [DiscoveryNext]_discoveryVars
         /\ [CommNext]_commVars /\ [SettingsNext]_settingsVars /\ [TreeNext]_treeVars
         /\ [ReportNext]_reportVars /\ UNCHANGED view
         /\ ShellNext \/ UNCHANGED <<sessionVars, rail, version>>
BY DEF ClientNext, Only, clientVars, shellVars

LEMMA ClientInvStep == ClientInv /\ [ClientNext]_clientVars => ClientInv'
<1> SUFFICES ASSUME ClientInv, [ClientNext]_clientVars PROVE ClientInv'
  OBVIOUS
<1>1. SessionInv'
  BY ClientSteps, ShellKeepsSession, SessionInvStep DEF ClientInv
<1>2. RailTyped'
  BY ClientSteps, ShellKeepsRail DEF ClientInv
<1>3. view' \in Views
  BY ClientSteps DEF ClientInv
<1>4. WizardInv' /\ PlantInv' /\ DiscoveryInv' /\ CommInv' /\ SettingsInv'
  BY ClientSteps, WizardInvStep, PlantInvStep, DiscoveryInvStep, CommInvStep, SettingsInvStep
     DEF ClientInv
<1>5. TreeInv' /\ ReportInv'
  BY ClientSteps, TreeInvStep, ReportInvStep DEF ClientInv
<1> QED BY <1>1, <1>2, <1>3, <1>4, <1>5 DEF ClientInv

\* For any accounts, plant and catalogue, any editors and handlers: every variable
\* of the client keeps its type (the states of main.tsx and of its views).
THEOREM ClientTypesAreKept == ClientSpec => []ClientTypeOK
<1>1. ClientInv => ClientTypeOK
  BY DEF ClientInv, ClientTypeOK, ShellTypeOK, RailTyped, SessionInv, WizardInv, PlantInv,
         DiscoveryInv, CommInv, SettingsInv, TreeInv, ReportInv
<1> QED BY <1>1, ClientInvStart, ClientInvStep, PTL DEF ClientSpec

\* For any accounts, any plant and any catalogue: in the client as a whole neither
\* the live tree nor a view disturbs what the session and the other views promise
\* (App in main.tsx mounts one page at a time).
THEOREM ClientIsSafe ==
  ClientSpec => [](/\ IdentityIsCurrent /\ PageIsAllowed /\ ReloadKeepsSession
                   /\ InstallsAreComplete /\ LastPageIsReal /\ SavesAreConsistent
                   /\ OffersOnlyNew /\ ChannelsAreKept /\ UntouchedIsKept
                   /\ ReportedWasConsumed /\ UnattributedIsReal)
<1>1. ClientInv => /\ IdentityIsCurrent /\ PageIsAllowed /\ ReloadKeepsSession
                   /\ InstallsAreComplete /\ LastPageIsReal /\ SavesAreConsistent
                   /\ OffersOnlyNew /\ ChannelsAreKept /\ UntouchedIsKept
  BY DEF ClientInv, SessionInv, WizardInv, PlantInv, DiscoveryInv, CommInv, SettingsInv
<1>2. ClientInv => ReportedWasConsumed /\ UnattributedIsReal
  BY ReadingsGiveUsage, ReadingsGiveRest DEF ClientInv
<1> QED BY <1>1, <1>2, ClientInvStart, ClientInvStep, PTL DEF ClientSpec

\* In the client as a whole, too, the tree of assets is only ever lost by a write
\* that another handler overtook (assets in main.py).
THEOREM ClientLosesTheTreeToRaces == ClientSpec => TreeLostToRacesOnly
<1>1. TreeInv /\ [ClientNext]_clientVars
        => [TreeIsATree /\ (\A r \in requests : Write(r) => ~r.overtaken) => TreeIsATree']_treeVars
  BY ClientSteps, RacesOnlyStep
<1>2. TreeInv /\ [ClientNext]_clientVars => TreeInv'
  BY ClientSteps, TreeInvStep
<1>3. ClientInit => TreeInv
  BY TreeInvStart DEF ClientInit
<1> QED BY <1>1, <1>2, <1>3, PTL DEF ClientSpec, TreeLostToRacesOnly
=============================================================================

------------------------------ MODULE WebShell ------------------------------
(***************************************************************************)
(* The web client around its pages: the session, and on the Edge the live  *)
(* energy tree beside the page, mounted while an identity is shown         *)
(* (App in main.tsx).                                                      *)
(***************************************************************************)
EXTENDS WebSession, EnergyRail

shellVars == <<sessionVars, rail, version>>

Signed(t, user) == t # NoOne /\ user # NoOne

\* A step of the session mounts or unmounts the tree.
SessionStep ==
    /\ SessionNext
    /\ rail' = IF ~Signed(token', me') THEN Unmounted(rail)
               ELSE IF Signed(token, me) THEN rail ELSE NewRail(rail.open)
    /\ UNCHANGED version

TreeStep == Signed(token, me) /\ RailStep /\ UNCHANGED sessionVars

\* A device of the tree opens the live page, which every role may see; after a
\* load that failed the message stands in the tree's place.
OpenLive ==
    /\ Signed(token, me) /\ rail.data # NoTree /\ ~rail.error
    /\ Render(token, me, "live")
    /\ UNCHANGED <<stored, signingIn, askedMe, rail, version>>

ShellNext == SessionStep \/ TreeStep \/ OpenLive \/ (Measure /\ UNCHANGED <<sessionVars, rail>>)

ShellInit ==
    /\ SessionInit
    /\ version = 0
    /\ \E open \in BOOLEAN : rail = Unmounted([open |-> open])

\* Steps that happen by themselves: answers, and the interval that fires.
SessionAnswers == SessionStep /\ SessionAnswer
TreeTicks == Signed(token, me) /\ RailTick /\ UNCHANGED <<sessionVars, version>>
TreeAnswers(v) == Signed(token, me) /\ RailAnswered(v) /\ UNCHANGED <<sessionVars, version>>

\* Requests are answered; one of the tree's, repeated for ever, at last with
\* success.  Users do nothing in particular.
ShellFairness ==
    /\ WF_shellVars(SessionAnswers) /\ WF_shellVars(TreeTicks)
    /\ \A v \in Version : SF_shellVars(TreeAnswers(v))

ShellSpec == ShellInit /\ [][ShellNext]_shellVars /\ ShellFairness
-----------------------------------------------------------------------------
ShellTypeOK == SessionTypeOK /\ version \in Version /\ rail \in Rail

\* The tree of a session that lasts catches up with the measurements, although
\* nothing keeps an older answer from arriving after a newer one.
TreeCatchesUp ==
    <>[](Signed(token, me) /\ version = MaxVersion) => <>[](rail.data = MaxVersion)
=============================================================================

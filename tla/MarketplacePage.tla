-------------------------- MODULE MarketplacePage --------------------------
(***************************************************************************)
(* The skills marketplace page of the dashboard                           *)
(* (src/frontend/src/app/skills/marketplace/page.tsx and the table of     *)
(* components/skills/MarketplaceSkillsTable.tsx): the install dialog, the *)
(* effect that loads a skill's install status on every gateway, the       *)
(* install and uninstall mutations, the gateways and skills queries, and  *)
(* the server they talk to.                                                *)
(*                                                                         *)
(* React state updates, effect cleanup and the effect's synchronous       *)
(* prefix happen in the step of the event that causes them; every awaited *)
(* response is a step of its own.  While the dialog is open the page      *)
(* behind it is inert (a modal), so table clicks need it closed.          *)
(***************************************************************************)
EXTENDS Integers, FiniteSets

CONSTANTS
    Skills,       \* marketplace skills
    Gateways,     \* gateways the organization may have
    GatewayOrder, \* the order the gateways endpoint lists them in
    None,         \* no skill selected / no gateway / no query data
    MaxSelects,   \* bound on the number of times a skill is opened
    MaxGatewayLists \* bound on the changed gateway lists the page receives

ASSUME None \notin Skills \cup Gateways

VARIABLES
    installed,    \* server: the <<skill, gateway>> pairs installed
    gws,          \* gateways: the gateways query's last list
    gwLists,      \* number of changed gateway lists received
    cache,        \* skillsQuery cache: cache[g], skills installed on g, or None
    selected,     \* selectedSkill
    view,         \* gateways whose gatewayInstalledById entry is true
    loading,      \* isGatewayStatusLoading
    statusErr,    \* gatewayStatusError # null
    loadedFor,    \* <<skill, gateways>> the last applied status result is for
    loads,        \* running loadGatewayStatus calls
    install,      \* the pending install mutation, or None
    installing,   \* installingGatewayId
    uninstall,    \* the pending uninstall mutation, or None
    selects       \* number of times a skill was opened

vars == <<installed, gws, gwLists, cache, selected, view, loading, statusErr,
          loadedFor, loads, install, installing, uninstall, selects>>

\* resolvedGatewayId = gateways[0]?.id: the first listed gateway, or None.
Resolved ==
    IF gws = {} THEN None
    ELSE LET i == CHOOSE i \in DOMAIN GatewayOrder :
                     /\ GatewayOrder[i] \in gws
                     /\ \A j \in 1..(i - 1) : GatewayOrder[j] \notin gws
         IN GatewayOrder[i]

\* The skills list for gateway_id = g as the server returns it.
TableRows(g) == {s \in Skills : <<s, g>> \in installed}

\* skills: the data of the query keyed by resolvedGatewayId ([] until the
\* first answer for that key; the query is disabled without a gateway).
tableInstalled == IF Resolved = None \/ cache[Resolved] = None THEN {} ELSE cache[Resolved]

\* A refetch of the active skills query (refetchInterval, or the
\* invalidateQueries of a mutation's onSuccess).
RefetchActive == [cache EXCEPT ![Resolved] = TableRows(Resolved)]

isMutating == install # None \/ uninstall # None

\* The page once the gateways query has answered with one gateway and the
\* skills query for it has answered.
Init ==
    /\ installed \in SUBSET (Skills \X Gateways)
    /\ gws = {GatewayOrder[1]}
    /\ gwLists = 0
    /\ cache = [g \in Gateways |-> IF g = Resolved THEN TableRows(g) ELSE None]
    /\ selected = None
    /\ view = {}
    /\ loading = FALSE
    /\ statusErr = FALSE
    /\ loadedFor = None
    /\ loads = {}
    /\ install = None
    /\ installing = None
    /\ uninstall = None
    /\ selects = 0

\* The effect's cleanup: every running load sees cancelled = true.
CancelLoads == {[l EXCEPT !.cancelled = TRUE] : l \in loads}

(***************************************************************************)
(* The gateway-status effect, re-run with skill s and gateways gs after   *)
(* the previous run's cleanup: with no skill or no gateway it empties the *)
(* map, clears the error and the loading flag and returns; otherwise it   *)
(* sets loading, clears the error and starts one listMarketplaceSkills    *)
(* fetch per gateway (Promise.all).  n names the run.                     *)
(***************************************************************************)
RunEffect(s, gs, n) ==
    /\ statusErr' = FALSE
    /\ IF s = None \/ gs = {}
       THEN /\ view' = {}
            /\ loading' = FALSE
            /\ loads' = CancelLoads
            /\ loadedFor' = IF s = None THEN None ELSE <<s, {}>>
       ELSE /\ loading' = TRUE
            /\ loads' = CancelLoads \cup
                        {[skill |-> s, gws |-> gs, cancelled |-> FALSE, n |-> n,
                          answered |-> {}, found |-> {}]}
            /\ UNCHANGED <<view, loadedFor>>

(***************************************************************************)
(* onSkillClick = setSelectedSkill, from the table, which is rendered     *)
(* only while there is a gateway; the effect re-runs.                     *)
(***************************************************************************)
SelectSkill(s) ==
    /\ selected = None
    /\ gws # {}
    /\ selects < MaxSelects
    /\ selects' = selects + 1
    /\ selected' = s
    /\ RunEffect(s, gws, <<selects', gwLists>>)
    /\ UNCHANGED <<installed, gws, gwLists, cache, install, installing, uninstall>>

(***************************************************************************)
(* Dialog onOpenChange(false) (Escape or a click outside; the Close       *)
(* button does the same but is disabled while an install is pending):     *)
(* setSelectedSkill(null), and the effect re-runs with no skill.          *)
(***************************************************************************)
CloseDialog ==
    /\ selected # None
    /\ selected' = None
    /\ RunEffect(None, gws, <<selects, gwLists>>)
    /\ UNCHANGED <<installed, gws, gwLists, cache, install, installing, uninstall,
                   selects>>

\* Mutant: the effect's dependency list without `gateways`.
GatewaysListedNoRerun ==
    /\ gwLists < MaxGatewayLists
    /\ gwLists' = gwLists + 1
    /\ \E gs \in SUBSET Gateways : gws' = gs
    /\ UNCHANGED <<installed, cache, selected, view, loading, statusErr, loadedFor,
                   loads, install, installing, uninstall, selects>>

(***************************************************************************)
(* The gateways query answers (every 30 s) with data that                 *)
(* differs from what it held (react-query keeps the old object when the   *)
(* JSON is equal, and then nothing re-runs): a gateway was added, removed *)
(* or changed.  `gateways` is a new array, so the status effect re-runs,  *)
(* and resolvedGatewayId, the skills query's key, may move.               *)
(***************************************************************************)
GatewaysListed ==
    /\ gwLists < MaxGatewayLists
    /\ gwLists' = gwLists + 1
    /\ \E gs \in SUBSET Gateways :
        /\ gws' = gs
        /\ RunEffect(selected, gs, <<selects, gwLists'>>)
    /\ UNCHANGED <<installed, cache, selected, install, installing, uninstall, selects>>

(***************************************************************************)
(* One gateway's fetch answers: a 200 list tells whether the skill is     *)
(* installed there (found); another status reads as not installed.        *)
(***************************************************************************)
LoadFetch(l, g) ==
    /\ l \in loads
    /\ g \in l.gws \ l.answered
    /\ \E ok \in BOOLEAN :
        loads' = (loads \ {l}) \cup
                 {[l EXCEPT !.answered = @ \cup {g},
                            !.found = IF ok /\ <<l.skill, g>> \in installed
                                      THEN @ \cup {g} ELSE @]}
    /\ UNCHANGED <<installed, gws, gwLists, cache, selected, view, loading, statusErr,
                   loadedFor, install, installing, uninstall, selects>>

\* Mutant: the `if (cancelled) return` before setGatewayInstalledById left out.
LoadSettlesIgnoresCancel(l) ==
    /\ l \in loads
    /\ l.answered = l.gws
    /\ loads' = loads \ {l}
    /\ view' = l.found
    /\ loadedFor' = <<l.skill, l.gws>>
    /\ IF l.cancelled THEN UNCHANGED loading ELSE loading' = FALSE
    /\ UNCHANGED <<installed, gws, gwLists, cache, selected, statusErr, install,
                   installing, uninstall, selects>>

(***************************************************************************)
(* Promise.all resolves: unless cancelled, the map is replaced by the     *)
(* results; finally clears loading unless cancelled.                      *)
(***************************************************************************)
LoadSettles(l) ==
    /\ l \in loads
    /\ l.answered = l.gws
    /\ loads' = loads \ {l}
    /\ IF l.cancelled
       THEN UNCHANGED <<view, loading, loadedFor>>
       ELSE /\ view' = l.found
            /\ loading' = FALSE
            /\ loadedFor' = <<l.skill, l.gws>>
    /\ UNCHANGED <<installed, gws, gwLists, cache, selected, statusErr, install,
                   installing, uninstall, selects>>

(***************************************************************************)
(* One fetch rejects, so Promise.all rejects: unless cancelled, the error *)
(* is shown; finally clears loading unless cancelled.                     *)
(***************************************************************************)
LoadFails(l, g) ==
    /\ l \in loads
    /\ g \in l.gws \ l.answered
    /\ loads' = loads \ {l}
    /\ IF l.cancelled
       THEN UNCHANGED <<statusErr, loading, loadedFor>>
       ELSE /\ statusErr' = TRUE
            /\ loading' = FALSE
            /\ loadedFor' = <<l.skill, l.gws>>
    /\ UNCHANGED <<installed, gws, gwLists, cache, selected, view, install,
                   installing, uninstall, selects>>

(***************************************************************************)
(* handleInstallToGateway(g) from the dialog's Install button, one per    *)
(* listed gateway, shown once loading is over and enabled unless          *)
(* installed or an install is pending.                                    *)
(***************************************************************************)
ClickInstall(g) ==
    /\ selected # None
    /\ ~loading
    /\ g \in gws \ view
    /\ install = None
    /\ install' = [skill |-> selected, gw |-> g, phase |-> "request"]
    /\ installing' = g
    /\ UNCHANGED <<installed, gws, gwLists, cache, selected, view, loading, statusErr,
                   loadedFor, loads, uninstall, selects>>

\* The install POST succeeds; onSuccess starts awaiting the refetch.
InstallSucceeds ==
    /\ install # None
    /\ install.phase = "request"
    /\ installed' = installed \cup {<<install.skill, install.gw>>}
    /\ install' = [install EXCEPT !.phase = "refetch"]
    /\ UNCHANGED <<gws, gwLists, cache, selected, view, loading, statusErr, loadedFor,
                   loads, installing, uninstall, selects>>

\* Mutant: handleInstallToGateway without its finally.
InstallFailsKeepsMarker ==
    /\ install # None
    /\ install.phase = "request"
    /\ \E applied \in BOOLEAN :
        installed' = IF applied THEN installed \cup {<<install.skill, install.gw>>}
                     ELSE installed
    /\ install' = None
    /\ UNCHANGED <<gws, gwLists, cache, selected, view, loading, statusErr, loadedFor,
                   loads, installing, uninstall, selects>>

(***************************************************************************)
(* The install POST fails (it may still have been applied): mutateAsync   *)
(* rejects and finally clears installingGatewayId.                        *)
(***************************************************************************)
InstallFails ==
    /\ install # None
    /\ install.phase = "request"
    /\ \E applied \in BOOLEAN :
        installed' = IF applied THEN installed \cup {<<install.skill, install.gw>>}
                     ELSE installed
    /\ install' = None
    /\ installing' = None
    /\ UNCHANGED <<gws, gwLists, cache, selected, view, loading, statusErr, loadedFor,
                   loads, uninstall, selects>>

\* invalidateQueries(marketplace) refetches the skills query if it is active.
Invalidated == IF Resolved = None THEN cache ELSE RefetchActive

(***************************************************************************)
(* invalidateQueries(marketplace) resolves once the list is refetched;    *)
(* onSuccess then sets gatewayInstalledById[gateway_id] = true in the map *)
(* as it is now; the mutation settles and finally clears installingId.    *)
(***************************************************************************)
InstallRefetched ==
    /\ install # None
    /\ install.phase = "refetch"
    /\ cache' = Invalidated
    /\ view' = view \cup {install.gw}
    /\ install' = None
    /\ installing' = None
    /\ UNCHANGED <<installed, gws, gwLists, selected, loading, statusErr, loadedFor,
                   loads, uninstall, selects>>

(***************************************************************************)
(* The table's Uninstall button (on a row shown installed, disabled while *)
(* any mutation is pending or there is no gateway): uninstall on the      *)
(* resolvedGatewayId of that render.                                      *)
(***************************************************************************)
ClickUninstall(s) ==
    /\ selected = None
    /\ ~isMutating
    /\ Resolved # None
    /\ s \in tableInstalled
    /\ uninstall' = [skill |-> s, gw |-> Resolved, phase |-> "request"]
    /\ UNCHANGED <<installed, gws, gwLists, cache, selected, view, loading, statusErr,
                   loadedFor, loads, install, installing, selects>>

\* The uninstall POST answers; on success onSuccess awaits the refetch.
UninstallResponds ==
    /\ uninstall # None
    /\ uninstall.phase = "request"
    /\ \/ /\ installed' = installed \ {<<uninstall.skill, uninstall.gw>>}
          /\ uninstall' = [uninstall EXCEPT !.phase = "refetch"]
       \/ /\ uninstall' = None
          /\ UNCHANGED installed
    /\ UNCHANGED <<gws, gwLists, cache, selected, view, loading, statusErr, loadedFor,
                   loads, install, installing, selects>>

UninstallRefetched ==
    /\ uninstall # None
    /\ uninstall.phase = "refetch"
    /\ cache' = Invalidated
    /\ uninstall' = None
    /\ UNCHANGED <<installed, gws, gwLists, selected, view, loading, statusErr,
                   loadedFor, loads, install, installing, selects>>

\* skillsQuery answers for its current key (on a key change, then every 15 s).
RefetchSkills ==
    /\ Resolved # None
    /\ cache' = RefetchActive
    /\ cache' # cache
    /\ UNCHANGED <<installed, gws, gwLists, selected, view, loading, statusErr,
                   loadedFor, loads, install, installing, uninstall, selects>>

Next ==
    \/ \E s \in Skills : SelectSkill(s) \/ ClickUninstall(s)
    \/ CloseDialog
    \/ GatewaysListed
    \/ \E l \in loads, g \in Gateways : LoadFetch(l, g) \/ LoadFails(l, g)
    \/ \E l \in loads : LoadSettles(l)
    \/ \E g \in Gateways : ClickInstall(g)
    \/ InstallSucceeds \/ InstallFails \/ InstallRefetched
    \/ UninstallResponds \/ UninstallRefetched
    \/ RefetchSkills

Spec == Init /\ [][Next]_vars

-----------------------------------------------------------------------------
(***************************************************************************)
(* Properties.                                                             *)
(***************************************************************************)

\* Type, and installingGatewayId is set only while an install is pending.
TypeOK ==
    /\ installed \subseteq Skills \X Gateways
    /\ gws \subseteq Gateways /\ gwLists \in 0..MaxGatewayLists
    /\ \A g \in Gateways : cache[g] = None \/ cache[g] \subseteq Skills
    /\ selected \in Skills \cup {None}
    /\ view \subseteq Gateways
    /\ loading \in BOOLEAN /\ statusErr \in BOOLEAN
    /\ installing \in Gateways \cup {None}
    /\ installing # None => install # None

(***************************************************************************)
(* The `cancelled` flag of the status effect and its dependency list:     *)
(* whenever the dialog shows a result (loading over), that result, list   *)
(* or error, is the one loaded for the skill the dialog is open on and    *)
(* for the gateways it lists now, never one a load started for a          *)
(* previously opened skill, or for an older gateway list, delivered late. *)
(***************************************************************************)
StatusLoadMatchesSelection ==
    (selected # None /\ ~loading) => loadedFor = <<selected, gws>>

(***************************************************************************)
(* The dialog tells the truth: a gateway it shows as "Installed" for the  *)
(* open skill (and so whose Install button it disables) has that skill    *)
(* installed on the server.                                               *)
(***************************************************************************)
ShownInstalledIsInstalled ==
    (selected # None /\ ~loading) => \A g \in view : <<selected, g>> \in installed
=============================================================================

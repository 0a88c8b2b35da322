-------------------------- MODULE PromptEvolutionPage --------------------------
(***************************************************************************)
(* The prompt-evolution page of a board (src/frontend/src/app/boards/      *)
(* [boardId]/prompt-evolution/page.tsx).  load() runs on mount and on     *)
(* Refresh (disabled while isLoading): it awaits the pack list, then the  *)
(* task evals, then sets packs and evals, then fetches every pack's        *)
(* versions concurrently through Promise.all and only then sets the       *)
(* versions map.  Any rejection goes to the catch (error) and the finally *)
(* clears isLoading.  The server's data may change between any two         *)
(* responses.  A version list is abstracted to a revision number.         *)
(***************************************************************************)
EXTENDS Naturals, FiniteSets

CONSTANTS
    Packs,     \* pack ids the board may have
    Revs,      \* revisions a version list or the eval list may be at
    MaxLoads,  \* bound on load() calls (mount and Refresh clicks)
    MaxEdits,  \* bound on server-side changes
    None       \* model value: no load in flight / no error

VARIABLES
    srvPacks,        \* the board's packs on the server
    srvVer,          \* each pack's version list on the server
    srvEvals,        \* the task-eval list on the server
    packs,           \* React state: pack ids shown
    versionsByPack,  \* React state: pack id -> version list
    taskEvals,       \* React state
    error,           \* React state: None or "err"
    isLoading,       \* React state
    ld,              \* the load in flight, or None
    loads, edits,    \* counters for the bounds
    packsFrom,       \* ghost: the load whose pack list is shown
    versFrom         \* ghost: the load whose versions map is shown

vars == <<srvPacks, srvVer, srvEvals, packs, versionsByPack, taskEvals, error,
          isLoading, ld, loads, edits, packsFrom, versFrom>>

\* A function from a set of pack ids to revisions (a Record<string, ...>).
VersionMaps == UNION {[S -> Revs] : S \in SUBSET Packs}

\* `{}`: the initial versions map, and the map built for an empty pack list.
EmptyMap == [p \in {} |-> 0]

Init ==
    /\ srvPacks \in SUBSET Packs
    /\ srvVer \in [Packs -> Revs]
    /\ srvEvals \in Revs
    /\ packs = {}
    /\ versionsByPack = EmptyMap
    /\ taskEvals \in Revs
    /\ error = None
    /\ isLoading = FALSE
    /\ ld = None
    /\ loads = 0 /\ edits = 0
    /\ packsFrom = 0 /\ versFrom = 0

(***************************************************************************)
(* load() from the mount effect or the Refresh button (disabled while      *)
(* isLoading): setIsLoading(true), setError(null), GET the packs.          *)
(***************************************************************************)
Load ==
    /\ ~isLoading
    /\ loads < MaxLoads
    /\ isLoading' = TRUE
    /\ error' = None
    /\ loads' = loads + 1
    /\ ld' = [stage |-> "packs", id |-> loads + 1, packs |-> {},
              pending |-> {}, next |-> EmptyMap]
    /\ UNCHANGED <<srvPacks, srvVer, srvEvals, packs, versionsByPack, taskEvals,
                   edits, packsFrom, versFrom>>

\* Mutant: the catch without the finally, so isLoading stays set.
FailNoFinally ==
    /\ error' = "err"
    /\ isLoading' = isLoading
    /\ ld' = None

\* The catch and finally: setError(message); setIsLoading(false).
Fail ==
    /\ error' = "err"
    /\ isLoading' = FALSE
    /\ ld' = None

\* The pack list answers: on success the evals are requested next.
PacksAnswered ==
    /\ ld # None /\ ld.stage = "packs"
    /\ \/ ld' = [ld EXCEPT !.stage = "evals", !.packs = srvPacks]
          /\ UNCHANGED <<error, isLoading>>
       \/ Fail
    /\ UNCHANGED <<srvPacks, srvVer, srvEvals, packs, versionsByPack, taskEvals,
                   loads, edits, packsFrom, versFrom>>

(***************************************************************************)
(* The evals answer: setPacks, setTaskEvals, then Promise.all over the    *)
(* packs' version requests.  Promise.all([]) resolves at once, so with no *)
(* packs setVersionsByPack({}) and the finally run in the same step.      *)
(***************************************************************************)
\* Mutant: Promise.all(...) not awaited, so setVersionsByPack(next) runs on
\* the still empty `next` and the finally runs at once.
EvalsAnsweredNoAwait ==
    /\ ld # None /\ ld.stage = "evals"
    /\ \/ /\ packs' = ld.packs
          /\ taskEvals' = srvEvals
          /\ packsFrom' = ld.id
          /\ versionsByPack' = EmptyMap
          /\ versFrom' = ld.id
          /\ isLoading' = FALSE
          /\ ld' = None
          /\ UNCHANGED error
       \/ /\ Fail
          /\ UNCHANGED <<packs, taskEvals, packsFrom, versionsByPack, versFrom>>
    /\ UNCHANGED <<srvPacks, srvVer, srvEvals, loads, edits>>

EvalsAnswered ==
    /\ ld # None /\ ld.stage = "evals"
    /\ \/ /\ packs' = ld.packs
          /\ taskEvals' = srvEvals
          /\ packsFrom' = ld.id
          /\ IF ld.packs = {}
             THEN /\ versionsByPack' = EmptyMap
                  /\ versFrom' = ld.id
                  /\ isLoading' = FALSE
                  /\ ld' = None
             ELSE /\ ld' = [ld EXCEPT !.stage = "versions", !.pending = ld.packs]
                  /\ UNCHANGED <<versionsByPack, versFrom, isLoading>>
          /\ UNCHANGED error
       \/ /\ Fail
          /\ UNCHANGED <<packs, taskEvals, packsFrom, versionsByPack, versFrom>>
    /\ UNCHANGED <<srvPacks, srvVer, srvEvals, loads, edits>>

(***************************************************************************)
(* One pack's versions answer: next[pack.id] = data.  When the last one   *)
(* is in, setVersionsByPack(next) and the finally.  A rejection rejects   *)
(* Promise.all at once; the requests still running only write the local   *)
(* `next`, which is dropped.                                               *)
(***************************************************************************)
VersionsAnswered(p) ==
    /\ ld # None /\ ld.stage = "versions" /\ p \in ld.pending
    /\ LET next == [q \in DOMAIN ld.next \cup {p} |->
                        IF q = p THEN srvVer[p] ELSE ld.next[q]]
           rest == ld.pending \ {p}
       IN IF rest = {}
          THEN /\ versionsByPack' = next
               /\ versFrom' = ld.id
               /\ ld' = None
               /\ isLoading' = FALSE
          ELSE /\ ld' = [ld EXCEPT !.pending = rest, !.next = next]
               /\ UNCHANGED <<versionsByPack, versFrom, isLoading>>
    /\ UNCHANGED <<error, srvPacks, srvVer, srvEvals, packs, taskEvals, loads,
                   edits, packsFrom>>

VersionsFail(p) ==
    /\ ld # None /\ ld.stage = "versions" /\ p \in ld.pending
    /\ Fail
    /\ UNCHANGED <<srvPacks, srvVer, srvEvals, packs, versionsByPack, taskEvals,
                   loads, edits, packsFrom, versFrom>>

\* Environment: another user or an agent changes the board's prompt data.
ServerEdit ==
    /\ edits < MaxEdits
    /\ edits' = edits + 1
    /\ \/ \E s \in SUBSET Packs : s # srvPacks /\ srvPacks' = s
          /\ UNCHANGED <<srvVer, srvEvals>>
       \/ \E p \in Packs, r \in Revs : r # srvVer[p]
             /\ srvVer' = [srvVer EXCEPT ![p] = r]
             /\ UNCHANGED <<srvPacks, srvEvals>>
       \/ \E r \in Revs \ {srvEvals} : srvEvals' = r
             /\ UNCHANGED <<srvPacks, srvVer>>
    /\ UNCHANGED <<packs, versionsByPack, taskEvals, error, isLoading, ld, loads,
                   packsFrom, versFrom>>

Next ==
    \/ Load
    \/ PacksAnswered
    \/ EvalsAnswered
    \/ \E p \in Packs : VersionsAnswered(p) \/ VersionsFail(p)
    \/ ServerEdit

Spec == Init /\ [][Next]_vars

-----------------------------------------------------------------------------
TypeOK ==
    /\ srvPacks \subseteq Packs /\ srvVer \in [Packs -> Revs] /\ srvEvals \in Revs
    /\ packs \subseteq Packs
    /\ versionsByPack \in VersionMaps
    /\ taskEvals \in Revs
    /\ error \in {None, "err"}
    /\ isLoading \in BOOLEAN
    /\ isLoading <=> ld # None

(***************************************************************************)
(* A load that ends without an error leaves a consistent page: the        *)
(* versions map has an entry for exactly the packs shown, every entry was  *)
(* fetched by the load that fetched the pack list, and the page shows no   *)
(* version list of a pack it no longer lists.  Promise.all must have all  *)
(* answers before setVersionsByPack runs.                                  *)
(***************************************************************************)
SettledPageConsistent ==
    (~isLoading /\ error = None) =>
        /\ DOMAIN versionsByPack = packs
        /\ versFrom = packsFrom

=============================================================================

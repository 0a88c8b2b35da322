----------------------------- MODULE SkillPacksPage -----------------------------
(***************************************************************************)
(* The skill packs page (src/frontend/src/app/skills/packs/page.tsx with   *)
(* components/skills/SkillPacksTable.tsx and ui/confirm-action-dialog.tsx). *)
(* Each row has a Sync button, disabled while that pack is in the          *)
(* syncingPackIds set; syncs of different packs run concurrently.  A row's *)
(* delete action opens a confirm dialog; Confirm starts the delete         *)
(* mutation, whose onSuccess closes the dialog and awaits a refetch.       *)
(* Cancel stays enabled while a delete is pending.  While the dialog is    *)
(* open the page behind it is inert (a modal Radix dialog).               *)
(***************************************************************************)
EXTENDS Naturals, FiniteSets

CONSTANTS
    Packs,   \* pack ids
    None,    \* model value: no dialog / no pending delete
    MaxOps   \* bound on user actions (clicks)

VARIABLES
    srvPacks,      \* packs on the server
    rows,          \* the packs query's data: the table rows
    syncing,       \* React state syncingPackIds
    syncs,         \* running sync handlers: [pack, captured, phase]
    deleteTarget,  \* React state deleteTarget: None or a pack id
    deleting,      \* the pending delete mutation: None or [pack, phase]
    ops            \* user actions so far

vars == <<srvPacks, rows, syncing, syncs, deleteTarget, deleting, ops>>

Init ==
    /\ srvPacks = Packs
    /\ rows = Packs
    /\ syncing = {}
    /\ syncs = {}
    /\ deleteTarget = None
    /\ deleting = None
    /\ ops = 0

\* Only a delete pending on the server holds the confirm button disabled.
isConfirming == deleting # None

(***************************************************************************)
(* onSync(pack): add pack.id to the set (functional update), then await   *)
(* syncMutation.mutateAsync.  The button is disabled while the pack is     *)
(* syncing, and unreachable while the dialog is open.  The handler's      *)
(* closure holds the syncingPackIds of the render it came from.           *)
(***************************************************************************)
\* Mutant: the Sync button's `disabled={isThisPackSyncing || ...}` left out.
ClickSyncUnguarded(p) ==
    /\ ops < MaxOps /\ deleteTarget = None
    /\ p \in rows
    /\ syncing' = syncing \cup {p}
    /\ syncs' = syncs \cup {[pack |-> p, captured |-> syncing, phase |-> "request"]}
    /\ ops' = ops + 1
    /\ UNCHANGED <<srvPacks, rows, deleteTarget, deleting>>

ClickSync(p) ==
    /\ ops < MaxOps /\ deleteTarget = None
    /\ p \in rows /\ p \notin syncing
    /\ syncing' = syncing \cup {p}
    /\ syncs' = syncs \cup {[pack |-> p, captured |-> syncing, phase |-> "request"]}
    /\ ops' = ops + 1
    /\ UNCHANGED <<srvPacks, rows, deleteTarget, deleting>>

(***************************************************************************)
(* The finally: remove pack.id from the set, by a functional update of    *)
(* the current set.                                                        *)
(***************************************************************************)
\* Mutant: `setSyncingPackIds(() => ...)` built from the closure's set.
SyncFinallyStale(s) ==
    /\ syncing' = s.captured \ {s.pack}
    /\ syncs' = syncs \ {s}

SyncFinally(s) ==
    /\ syncing' = syncing \ {s.pack}
    /\ syncs' = syncs \ {s}

(***************************************************************************)
(* The sync POST answers.  On success the mutation's onSuccess awaits the  *)
(* packs refetch before mutateAsync resolves; on failure (a pack deleted  *)
(* meanwhile, a network error) mutateAsync rejects and the finally runs.  *)
(***************************************************************************)
SyncAnswered(s) ==
    /\ s \in syncs /\ s.phase = "request"
    /\ \/ syncs' = (syncs \ {s}) \cup {[s EXCEPT !.phase = "refetch"]}
          /\ UNCHANGED syncing
       \/ SyncFinally(s)
    /\ UNCHANGED <<srvPacks, rows, deleteTarget, deleting, ops>>

SyncRefetched(s) ==
    /\ s \in syncs /\ s.phase = "refetch"
    /\ rows' = srvPacks
    /\ SyncFinally(s)
    /\ UNCHANGED <<srvPacks, deleteTarget, deleting, ops>>

\* A row's delete action: onDelete = setDeleteTarget.
ClickDelete(p) ==
    /\ ops < MaxOps /\ deleteTarget = None
    /\ p \in rows
    /\ deleteTarget' = p
    /\ ops' = ops + 1
    /\ UNCHANGED <<srvPacks, rows, syncing, syncs, deleting>>

\* Cancel, Escape or the overlay: onOpenChange(false) clears deleteTarget.
Cancel ==
    /\ deleteTarget # None
    /\ deleteTarget' = None
    /\ UNCHANGED <<srvPacks, rows, syncing, syncs, deleting, ops>>

\* handleDelete: deleteMutation.mutate({packId: deleteTarget.id}).
ConfirmDelete ==
    /\ ops < MaxOps
    /\ deleteTarget # None /\ ~isConfirming
    /\ deleting' = [pack |-> deleteTarget, phase |-> "request"]
    /\ ops' = ops + 1
    /\ UNCHANGED <<srvPacks, rows, syncing, syncs, deleteTarget>>

(***************************************************************************)
(* The DELETE answers.  onSuccess: setDeleteTarget(null), then await the   *)
(* refetch; the mutation stays pending until it is in.  On an error the   *)
(* dialog stays open with the error; the server may still have deleted.   *)
(***************************************************************************)
DeleteSucceeds ==
    /\ deleting # None /\ deleting.phase = "request"
    /\ srvPacks' = srvPacks \ {deleting.pack}
    /\ deleteTarget' = None
    /\ deleting' = [deleting EXCEPT !.phase = "refetch"]
    /\ UNCHANGED <<rows, syncing, syncs, ops>>

DeleteFails ==
    /\ deleting # None /\ deleting.phase = "request"
    /\ \E applied \in BOOLEAN :
         srvPacks' = IF applied THEN srvPacks \ {deleting.pack} ELSE srvPacks
    /\ deleting' = None
    /\ UNCHANGED <<rows, syncing, syncs, deleteTarget, ops>>

DeleteRefetched ==
    /\ deleting # None /\ deleting.phase = "refetch"
    /\ rows' = srvPacks
    /\ deleting' = None
    /\ UNCHANGED <<srvPacks, syncing, syncs, deleteTarget, ops>>

\* The packs query's refetchInterval (15 s) brings the rows up to date.
PollPacks ==
    /\ rows # srvPacks
    /\ rows' = srvPacks
    /\ UNCHANGED <<srvPacks, syncing, syncs, deleteTarget, deleting, ops>>

Next ==
    \/ \E p \in Packs : ClickSync(p) \/ ClickDelete(p)
    \/ \E s \in syncs : SyncAnswered(s) \/ SyncRefetched(s)
    \/ Cancel \/ ConfirmDelete
    \/ DeleteSucceeds \/ DeleteFails \/ DeleteRefetched
    \/ PollPacks

Spec == Init /\ [][Next]_vars

-----------------------------------------------------------------------------
TypeOK ==
    /\ srvPacks \subseteq Packs /\ rows \subseteq Packs
    /\ syncing \subseteq Packs
    /\ \A s \in syncs : s.pack \in Packs /\ s.captured \subseteq Packs
                        /\ s.phase \in {"request", "refetch"}
    \* one sync handler per pack at a time
    /\ \A s, t \in syncs : s.pack = t.pack => s = t
    /\ deleteTarget \in Packs \cup {None}
    /\ deleting = None \/ (deleting.pack \in Packs
                           /\ deleting.phase \in {"request", "refetch"})

(***************************************************************************)
(* The Sync button of a pack shows "Syncing..." (and is disabled) exactly *)
(* while a sync handler for that pack is running, whatever the order in   *)
(* which concurrent syncs of several packs answer and run their finally.  *)
(***************************************************************************)
SyncingIffRunning ==
    \A p \in Packs : p \in syncing <=> \E s \in syncs : s.pack = p

=============================================================================

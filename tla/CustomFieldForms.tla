---------------------------- MODULE CustomFieldForms ----------------------------
(***************************************************************************)
(* The custom-field pages (src/frontend/src/app/custom-fields/new/page.tsx *)
(* and [fieldId]/edit/page.tsx) over the life of one field: the new page  *)
(* validates its form and POSTs the definition; the list page follows;    *)
(* the edit page loads the field list, mounts EditCustomFieldForm with a  *)
(* form initialised once from the field (key = field.id, so a refetch     *)
(* does not remount it), and on submit PATCHes only the attributes whose  *)
(* payload differs from the `field` prop it has at that moment.  After    *)
(* the PATCH it awaits a refetch of the list and navigates away.  Another *)
(* admin may change the field on the server at any time, and the list     *)
(* query refetches (window focus) at any time.  The field key is fixed,    *)
(* and description and UI visibility, handled like the regex and          *)
(* `required`, are left out.                                               *)
(***************************************************************************)
EXTENDS CustomFieldValues, FiniteSets

CONSTANTS
    Boards,         \* board ids
    FieldTypes,     \* field types offered by the type select
    LabelInputs,    \* label texts a user may type
    RegexInputs,    \* validation-regex texts a user may type
    DefaultInputs,  \* default-value texts a user may type
    MaxFills,       \* bound on filling and submitting the new page
    MaxEdits,       \* bound on edits of the edit form
    MaxAdminEdits,  \* bound on another admin's changes
    None            \* model value

VARIABLES
    page,        \* "new" | "list" | "edit" | "done"
    form,        \* FormState (None while the edit form is not mounted)
    touched,     \* ghost: attributes the user edited in the edit form
    remote,      \* ghost: attributes another admin changed on the server
    field,       \* the edit page's `field` (the list query's copy), or None
    srv,         \* the field definition on the server, or None
    error,       \* the form's error: None or what it says
    mut,         \* the pending POST/PATCH: None or [op, body]
    after,       \* a saved edit awaiting its refetch and router.push
    fills, edits, adminEdits

vars == <<page, form, touched, remote, field, srv, error, mut, after, fills, edits, adminEdits>>

Attrs == {"label", "fieldType", "regex", "required", "default", "boards"}

(***************************************************************************)
(* selectedBoardIds is a Set of board ids.  board_ids is sent as          *)
(* Array.from(selectedBoardIds) and only ever compared after sorting, so  *)
(* its order is not kept: the boards of a form, a payload and a field are *)
(* sets.                                                                   *)
(***************************************************************************)
Forms == [label : LabelInputs, fieldType : FieldTypes, regex : RegexInputs,
          required : BOOLEAN, default : DefaultInputs, boards : SUBSET Boards]

\* setSelectedBoardIds: delete the id if present, else add it.
Toggle(s, b) == IF b \in s THEN s \ {b} ELSE s \cup {b}

(***************************************************************************)
(* The checks handleSubmit makes before it builds a payload, in order;    *)
(* the result names the error it sets, or None.                           *)
(***************************************************************************)
Validate(f) ==
    CASE Trim(f.label) = <<>> -> "label"
      [] f.boards = {} -> "boards"
      [] Trim(f.regex) # <<>> /\ f.fieldType \notin StringFieldTypes -> "regex"
      [] ~parseDefaultValue(f.fieldType, f.default).ok -> "default"
      [] OTHER -> None

\* The payload both pages build (an empty regex stands for null).
Payload(f) ==
    [label |-> Trim(f.label), fieldType |-> f.fieldType, regex |-> Trim(f.regex),
     required |-> f.required,
     default |-> parseDefaultValue(f.fieldType, f.default).value,
     boards |-> f.boards]

\* useState initialiser of EditCustomFieldForm.
FormOf(d) ==
    [label |-> d.label, fieldType |-> d.fieldType, regex |-> d.regex,
     required |-> d.required, default |-> formatDefaultValue(d.default),
     boards |-> d.boards]

(***************************************************************************)
(* The edit form's diff: an attribute goes into `updates` when the payload *)
(* differs from the current `field` prop; the default by canonicalJson,   *)
(* the boards after sorting both lists (equal exactly when they hold the  *)
(* same ids).                                                              *)
(***************************************************************************)
\* Mutant: the defaults compared with !== instead of canonicalJson: a parsed
\* object or array is never the stored one.
UpdatesByIdentity(p, d) ==
    LET changed == {a \in Attrs \ {"default", "boards"} : p[a] # d[a]}
                   \cup (IF canonicalJson(p.default) # canonicalJson(d.default)
                            \/ p.default.kind \in {"obj", "arr"}
                         THEN {"default"} ELSE {})
                   \cup (IF p.boards # d.boards THEN {"boards"} ELSE {})
    IN [a \in changed |-> p[a]]

Updates(p, d) ==
    LET changed == {a \in Attrs \ {"default", "boards"} : p[a] # d[a]}
                   \cup (IF canonicalJson(p.default) # canonicalJson(d.default)
                         THEN {"default"} ELSE {})
                   \cup (IF p.boards # d.boards THEN {"boards"} ELSE {})
    IN [a \in changed |-> p[a]]

\* The server applies a PATCH attribute by attribute.
Apply(d, u) == [a \in DOMAIN d |-> IF a \in DOMAIN u THEN u[a] ELSE d[a]]

Init ==
    /\ page = "new"
    /\ form = None /\ touched = {} /\ remote = {} /\ field = None /\ srv = None
    /\ error = None /\ mut = None /\ after = FALSE
    /\ fills = 0 /\ edits = 0 /\ adminEdits = 0

-----------------------------------------------------------------------------
(* The new page.                                                           *)

(***************************************************************************)
(* The user fills the form (the onChange handlers, in any order, nothing  *)
(* else runs on this page meanwhile) and submits: handleSubmit returns    *)
(* with an error at the first failed check, or POSTs the payload.  The    *)
(* regex input is disabled for non-string types.                           *)
(***************************************************************************)
\* Mutant: router.push("/custom-fields") run as soon as the POST is sent.
SubmitNewPushEarly ==
    /\ page = "new" /\ mut = None /\ fills < MaxFills
    /\ fills' = fills + 1
    /\ \E f \in Forms :
         /\ f.fieldType \notin StringFieldTypes => f.regex = <<>>
         /\ form' = f
         /\ error' = Validate(f)
         /\ mut' = IF Validate(f) = None THEN [op |-> "create", body |-> Payload(f)]
                   ELSE None
         /\ page' = IF Validate(f) = None THEN "list" ELSE page
    /\ UNCHANGED <<touched, remote, field, srv, after, edits, adminEdits>>

SubmitNew ==
    /\ page = "new" /\ mut = None /\ fills < MaxFills
    /\ fills' = fills + 1
    /\ \E f \in Forms :
         /\ f.fieldType \notin StringFieldTypes => f.regex = <<>>
         /\ form' = f
         /\ error' = Validate(f)
         /\ mut' = IF Validate(f) = None THEN [op |-> "create", body |-> Payload(f)]
                   ELSE None
    /\ UNCHANGED <<page, touched, remote, field, srv, after, edits, adminEdits>>

\* The POST answers: on success the list query is invalidated (it has no
\* observer on this page) and router.push("/custom-fields") runs.
CreateAnswers ==
    /\ page = "new" /\ mut # None
    /\ \/ /\ srv' = mut.body
          /\ page' = "list"
          /\ form' = None
          /\ UNCHANGED error
       \/ /\ error' = "server"
          /\ UNCHANGED <<srv, page, form>>
    /\ mut' = None
    /\ UNCHANGED <<touched, remote, field, after, fills, edits, adminEdits>>

-----------------------------------------------------------------------------
(* The edit page.                                                          *)

OpenEdit ==
    /\ page = "list"
    /\ page' = "edit"
    /\ error' = None
    /\ UNCHANGED <<form, touched, remote, field, srv, mut, after, fills, edits, adminEdits>>

\* The list query answers: `field` is the server's definition; the first
\* time, the form mounts and its state is initialised from it.
FieldFetched ==
    /\ page = "edit"
    /\ field # srv
    /\ field' = srv
    /\ IF form = None THEN form' = FormOf(srv) ELSE UNCHANGED form
    /\ UNCHANGED <<page, touched, remote, srv, error, mut, after, fills, edits, adminEdits>>

\* One onChange handler of the mounted form; inputs are disabled while
\* saving, and the regex input for non-string types.
EditForm ==
    /\ page = "edit" /\ form # None /\ mut = None /\ edits < MaxEdits
    /\ edits' = edits + 1
    /\ \/ \E l \in LabelInputs : form' = [form EXCEPT !.label = l]
       \/ \E t \in FieldTypes : form' = [form EXCEPT !.fieldType = t]
       \/ form.fieldType \in StringFieldTypes
          /\ \E r \in RegexInputs : form' = [form EXCEPT !.regex = r]
       \/ form' = [form EXCEPT !.required = ~form.required]
       \/ \E v \in DefaultInputs : form' = [form EXCEPT !.default = v]
       \/ \E b \in Boards : form' = [form EXCEPT !.boards = Toggle(form.boards, b)]
    /\ form' # form
    /\ touched' = touched \cup {a \in Attrs : form'[a] # form[a]}
    /\ UNCHANGED <<page, remote, field, srv, error, mut, after, fills, adminEdits>>

(***************************************************************************)
(* handleSubmit of EditCustomFieldForm: the checks, the diff against the  *)
(* `field` prop, "No changes were made." when it is empty, else onSubmit  *)
(* (the PATCH).                                                            *)
(***************************************************************************)
SubmitEdit ==
    /\ page = "edit" /\ form # None /\ mut = None
    /\ LET u == Updates(Payload(form), field) IN
       IF Validate(form) # None
       THEN error' = Validate(form) /\ UNCHANGED mut
       ELSE IF DOMAIN u = {}
       THEN error' = "nochanges" /\ UNCHANGED mut
       ELSE error' = None /\ mut' = [op |-> "update", body |-> u]
    /\ UNCHANGED <<page, form, touched, remote, field, srv, after, fills, edits, adminEdits>>

(***************************************************************************)
(* The PATCH answers.  On success mutateAsync resolves (saving is false   *)
(* again) and handleSubmit awaits the list refetch; on failure the form    *)
(* shows the error, and the server may still have applied the PATCH.  A   *)
(* PATCH sent while a saved edit awaited its refetch may answer after the *)
(* page has gone; only the server keeps its effect.                       *)
(***************************************************************************)
PatchAnswers ==
    /\ mut # None /\ mut.op = "update"
    /\ \/ /\ srv' = Apply(srv, mut.body)
          /\ after' = (page = "edit")
          /\ UNCHANGED error
       \/ /\ \E applied \in BOOLEAN :
                srv' = IF applied THEN Apply(srv, mut.body) ELSE srv
          /\ error' = "server"
          /\ UNCHANGED after
    /\ mut' = None
    /\ UNCHANGED <<page, form, touched, remote, field, fills, edits, adminEdits>>

\* invalidateQueries refetches the list, then router.push("/custom-fields").
SavedAndLeft ==
    /\ page = "edit" /\ after
    /\ field' = srv
    /\ page' = "done"
    /\ after' = FALSE
    /\ UNCHANGED <<form, touched, remote, srv, error, mut, fills, edits, adminEdits>>

\* Another admin edits the field (label or required) on the server.
AdminEdit ==
    /\ srv # None /\ adminEdits < MaxAdminEdits
    /\ adminEdits' = adminEdits + 1
    /\ \/ \E l \in LabelInputs : Trim(l) # <<>> /\ Trim(l) # srv.label
            /\ srv' = [srv EXCEPT !.label = Trim(l)]
            /\ remote' = remote \cup {"label"}
       \/ srv' = [srv EXCEPT !.required = ~srv.required]
          /\ remote' = remote \cup {"required"}
    /\ UNCHANGED <<page, form, touched, field, error, mut, after, fills, edits>>

Next ==
    \/ SubmitNew \/ CreateAnswers
    \/ OpenEdit \/ FieldFetched \/ EditForm \/ SubmitEdit
    \/ PatchAnswers \/ SavedAndLeft
    \/ AdminEdit

Spec == Init /\ [][Next]_vars

-----------------------------------------------------------------------------
Texts == Seq(STRING)

TypeOK ==
    /\ page \in {"new", "list", "edit", "done"}
    /\ form # None =>
         /\ DOMAIN form = Attrs
         /\ form.label \in Texts /\ form.regex \in Texts /\ form.default \in Texts
         /\ form.fieldType \in FieldTypes /\ form.required \in BOOLEAN
         /\ form.boards \subseteq Boards
    /\ touched \subseteq Attrs /\ remote \subseteq Attrs
    /\ error \in {None, "label", "boards", "regex", "default", "nochanges", "server"}
    /\ mut = None \/ (mut.op \in {"create", "update"}
                     /\ DOMAIN mut.body \subseteq Attrs)
    \* a mutation is pending only while its page is shown
    /\ mut # None => page \in IF mut.op = "create" THEN {"new"} ELSE {"edit", "done"}
    /\ after \in BOOLEAN
    /\ page = "edit" /\ form # None => field # None /\ srv # None

\* Changing the type reparses the default under the new type.
MayChange == touched \cup (IF "fieldType" \in touched THEN {"default"} ELSE {})

(***************************************************************************)
(* The edit form's diff is right up to concurrent changes: every          *)
(* attribute a PATCH carries was edited by the user (the default also      *)
(* after a change of type) or changed on the server by someone else.  An *)
(* untouched default, reformatted by formatDefaultValue and reparsed, must *)
(* compare equal; reordered board selections must compare equal.         *)
(***************************************************************************)
DiffOnlyEditedOrRemote ==
    (mut # None /\ mut.op = "update") => DOMAIN mut.body \subseteq MayChange \cup remote

(***************************************************************************)
(* A save never reverts someone else's change: every attribute the edit   *)
(* form's PATCH carries is one the user edited.  The diff is against the  *)
(* `field` prop, which a refetch updates while the form keeps the values  *)
(* it was mounted with.                                                    *)
(***************************************************************************)
NoSpuriousUpdates ==
    (mut # None /\ mut.op = "update") => DOMAIN mut.body \subseteq MayChange

(***************************************************************************)
(* A field created through the new page stays editable: a submit of the   *)
(* edit form never fails on the default value unless the user changed the *)
(* default or the type.  The text formatDefaultValue shows must pass the  *)
(* same parseDefaultValue that accepted the typed text.                   *)
(***************************************************************************)
UntouchedDefaultAccepted ==
    [][(SubmitEdit /\ error' = "default")
          => {"default", "fieldType"} \cap touched # {}]_vars
=============================================================================

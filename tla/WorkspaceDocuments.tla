------------------------ MODULE WorkspaceDocuments ------------------------
(***************************************************************************)
(* The workspace documents of generators/workspace.ts, and the string      *)
(* fields of harness/schema.ts they are filled from.                       *)
(*                                                                         *)
(* Text is kept only as far as whitespace goes: a string is a sequence of  *)
(* characters "w" (any non-whitespace character), " " and "\n".  A        *)
(* template literal is its lines, each ended by the "\n" the template      *)
(* puts after it; a literal word ("# AGENTS", "- Name:", "true", "8") is   *)
(* "w".  Booleans and numbers render as a word, so they are not inputs.   *)
(***************************************************************************)
EXTENDS Sequences, FiniteSets
LOCAL INSTANCE SequencesExt

CONSTANTS
    RawTexts,   \* the strings a harness document may hold in a text field
    MaxItems,   \* bound on the length of a list field
    Absent      \* an optional field the document leaves out

W == <<"w">>
SP == <<" ">>
NL == <<"\n">>
Blank == {" ", "\n"}

(***************************************************************************)
(* String.prototype.trim, as z.string().trim() applies it.                 *)
(***************************************************************************)
RECURSIVE TrimStart(_)
TrimStart(s) == IF s # <<>> /\ Head(s) \in Blank THEN TrimStart(Tail(s)) ELSE s

\* Mutant: the field declared as z.string().min(1), without .trim().
TrimNone(s) == s

Trim(s) == Reverse(TrimStart(Reverse(TrimStart(s))))

\* nonEmptyString = z.string().trim().min(1): the values it lets through.
ValidText == {Trim(r) : r \in RawTexts} \ {<<>>}

\* z.string().trim().optional() (communicationStyle): may be empty.
OptionalText == {Trim(r) : r \in RawTexts} \cup {Absent}

\* z.array(nonEmptyString).min(1) and z.array(nonEmptyString).default([]),
\* for items drawn from T.
NonEmptyLists(T) == SeqOf(T, MaxItems) \ {<<>>}
Lists(T) == SeqOf(T, MaxItems)

\* z.string().url().optional(): a well-formed URL is one word.
OptionalUrl == {W, Absent}

\* z.string().optional() (memorySeed): kept as written.
OptionalSeed == RawTexts \cup {Absent}

(***************************************************************************)
(* Template helpers.  Doc(ls) is a template literal whose lines are ls.    *)
(* Labelled(v) is a "- Label: ${v}" line.                                  *)
(***************************************************************************)
Doc(ls) == FlattenSeq([i \in DOMAIN ls |-> ls[i] \o NL])
Labelled(v) == W \o SP \o v
Or(v, default) == IF v = Absent THEN default ELSE v

RECURSIVE Join(_, _)
Join(ss, sep) ==
    IF Len(ss) <= 1 THEN FlattenSeq(ss) ELSE Head(ss) \o sep \o Join(Tail(ss), sep)

\* renderList: "- none" for no items, else "- item" lines joined by "\n".
RenderList(items) ==
    IF items = <<>> THEN W \o SP \o W
    ELSE Join([i \in DOMAIN items |-> W \o SP \o items[i]], NL)

RenderAgentsMd(s) == Doc(<<
    W, <<>>,
    W, Labelled(s.displayName), Labelled(s.role), Labelled(s.purpose),
       Labelled(s.personality), <<>>,
    W, RenderList(s.responsibilities), <<>>,
    W, RenderList(s.successCriteria), <<>>,
    W, Labelled(Join(s.allow, W \o SP)), Labelled(W), Labelled(W), <<>>,
    W, W, RenderList(s.allowlist), W, RenderList(s.denylist), Labelled(W), <<>>,
    W, RenderList(s.hardLimits), <<>>,
    W, RenderList(s.escalationRules)>>)

RenderSoulMd(s) == Doc(<<
    W, <<>>,
    W, RenderList(s.coreTruths), <<>>,
    W, s.vibe, <<>>,
    W, Labelled(W), W, s.reflectionTemplate>>)

RenderToolsMd(s) == Doc(<<
    W, <<>>,
    W, W, RenderList(s.allowlist), W, RenderList(s.denylist), Labelled(W), <<>>,
    W, W, RenderList(s.allowedInWorkspace), W, RenderList(s.redactionRules), <<>>,
    W, Labelled(W), Labelled(s.apiKeyEnv), Labelled(s.baseUrl), Labelled(W), Labelled(W)>>)

\* The tenant line is `... tenant "${displayName}".`
RenderUserMd(s) == Doc(<<
    W, <<>>,
    W \o SP \o W \o s.displayName \o W, <<>>,
    W, Or(s.communicationStyle, W), <<>>,
    W, Labelled(W), Labelled(W)>>)

RenderHeartbeatMd(s) == Doc(<<
    W, <<>>,
    W, Labelled(W), Labelled(W), <<>>,
    W, Labelled(Or(s.ownerWebhookUrl, W)), Labelled(Or(s.managementWebhookUrl, W))>>)

RenderMemoryMd(s) == Doc(<<W, <<>>, Or(s.memorySeed, W)>>)

-----------------------------------------------------------------------------
\* No blank of the text comes right before a newline.
NoBlankBeforeNewline(t) == \A i \in 1..(Len(t) - 1) : t[i] = " " => t[i + 1] # "\n"

(***************************************************************************)
(* nonEmptyString trims only the ends of a value, so a validated field    *)
(* may still hold a blank before an inner newline ("calm \nfocused").     *)
(* CleanText are the validated values that do not.                        *)
(***************************************************************************)
CleanText == {t \in ValidText : NoBlankBeforeNewline(t)}
CleanOptionalText == {t \in OptionalText : t = Absent \/ NoBlankBeforeNewline(t)}

(***************************************************************************)
(* The validated specs each renderer reads, as far as the fields it uses, *)
(* with every text field clean.                                            *)
(***************************************************************************)
AgentsInputs ==
    [displayName : CleanText, role : CleanText, purpose : CleanText,
     personality : CleanText, responsibilities : NonEmptyLists(CleanText),
     successCriteria : NonEmptyLists(CleanText), allow : NonEmptyLists(CleanText),
     allowlist : Lists(CleanText), denylist : Lists(CleanText),
     hardLimits : Lists(CleanText), escalationRules : Lists(CleanText)]
SoulInputs ==
    [coreTruths : NonEmptyLists(CleanText), vibe : CleanText, reflectionTemplate : CleanText]
ToolsInputs ==
    [allowlist : Lists(CleanText), denylist : Lists(CleanText),
     allowedInWorkspace : Lists(CleanText), redactionRules : Lists(CleanText),
     apiKeyEnv : CleanText, baseUrl : CleanText]
UserInputs == [displayName : CleanText, communicationStyle : CleanOptionalText]
HeartbeatInputs == [ownerWebhookUrl : OptionalUrl, managementWebhookUrl : OptionalUrl]

\* writeArtifacts writes a document as content.trimEnd() + "\n".
TrimEnd(s) == Reverse(TrimStart(Reverse(s)))
Written(doc) == TrimEnd(doc) \o NL

\* The text ends in exactly one "\n", with no blank before it.
EndsInOneNewline(d) ==
    /\ Len(d) >= 1 /\ d[Len(d)] = "\n"
    /\ Len(d) >= 2 => d[Len(d) - 1] \notin Blank

\* ... and no line of it ends in a blank.
WellFormed(d) ==
    /\ EndsInOneNewline(d)
    /\ NoBlankBeforeNewline(d)

(***************************************************************************)
(* For each document buildWorkspaceFiles may return, whether the text     *)
(* writeArtifacts writes for it meets the layout contract for every clean *)
(* value of the fields it prints: the templates, the list joins and the   *)
(* trims add no blank-ending line of their own.  MEMORY.md prints the     *)
(* seed as written, so only its end is the template's to keep.            *)
(***************************************************************************)
RendersWellFormed == [
    d \in {"AGENTS.md", "SOUL.md", "TOOLS.md", "USER.md", "HEARTBEAT.md", "MEMORY.md"} |->
        CASE d = "AGENTS.md" -> \A s \in AgentsInputs : WellFormed(Written(RenderAgentsMd(s)))
          [] d = "SOUL.md" -> \A s \in SoulInputs : WellFormed(Written(RenderSoulMd(s)))
          [] d = "TOOLS.md" -> \A s \in ToolsInputs : WellFormed(Written(RenderToolsMd(s)))
          [] d = "USER.md" -> \A s \in UserInputs : WellFormed(Written(RenderUserMd(s)))
          [] d = "HEARTBEAT.md" -> \A s \in HeartbeatInputs : WellFormed(Written(RenderHeartbeatMd(s)))
          [] d = "MEMORY.md" -> \A v \in OptionalSeed :
                                  EndsInOneNewline(Written(RenderMemoryMd([memorySeed |-> v])))]
=============================================================================

-------------------------- MODULE HarnessCompiler --------------------------
(***************************************************************************)
(* The harness compiler behind the `compile` and `compose` commands:      *)
(*   parseHarness / loadHarnessFromFile          (harness/schema.ts)       *)
(*   compileFromSpec, writeArtifacts, compileHarness (harness/compiler.ts) *)
(*   buildOpenclawConfig, buildSkillPackManifest (generators/openclawConfig) *)
(*   buildWorkspaceFiles                          (generators/workspace.ts) *)
(*   runCompile, runCompose, runCli               (cli.ts)                 *)
(* Invocations run one after another against one output directory; each  *)
(* write of writeArtifacts is a step, and a write may fail (or the        *)
(* process die), which ends the invocation with the files written so far. *)
(*                                                                         *)
(* File contents are records naming the invocation that wrote them and    *)
(* the fields the properties read.  A raw harness document is a record of *)
(* the fields that steer the output; every other required field is        *)
(* summarised by `required` ("ok" or "bad").                              *)
(***************************************************************************)
EXTENDS Integers, Sequences, FiniteSets, MemoryConventions, WorkspaceDocuments

CONSTANTS
    FlagInputs,   \* raw values of dmPairingRequired/mentionGating/sandbox...
    SeedInputs,   \* raw values of workspace.includeMemorySeed
    Slugs,        \* --tenant values (compile: slug; compose: the tenant id)
    Suffixes,     \* random suffixes buildTenantId may draw
    Prefix,       \* supermemory.containerTagPrefix
    ExplicitTags, \* raw values of tenant.containerTag (<<>> when absent)
    MaxRuns,      \* bound on the number of invocations
    Junk          \* a raw field of the wrong type (a string, a number, null)

VARIABLES
    fs,       \* fs[p]: content of output file p, or Missing
    runs,     \* number of invocations started
    pc,       \* "idle" | "writing"
    plan,     \* writes the running invocation still has to make
    cmd,      \* the running (or last) invocation's command
    exit      \* exit code of the last invocation, or NoExit while none has ended

vars == <<fs, runs, pc, plan, cmd, exit>>

Missing == [run |-> 0]
NoExit == -1

DocNames == {"AGENTS.md", "SOUL.md", "TOOLS.md", "USER.md", "HEARTBEAT.md", "MEMORY.md"}
DocOrder == <<"AGENTS.md", "SOUL.md", "TOOLS.md", "USER.md", "HEARTBEAT.md">>
JsonFiles == {"openclaw.json", "skill-pack-manifest.json", "artifact-metadata.json"}
ComposeFile == "docker-compose.tenant.yml"
Paths == {<<"workspace", d>> : d \in DocNames}
         \cup {<<f>> : f \in JsonFiles} \cup {<<ComposeFile>>}

Commands == {"compile", "compile-tenant-id", "compose", "other"}

RawDocs ==
    [dmPairingRequired : FlagInputs, mentionGating : FlagInputs,
     sandboxNonMainSessions : FlagInputs, includeMemorySeed : SeedInputs,
     containerTag : ExplicitTags, required : {"ok", "bad"}]

(***************************************************************************)
(* harnessSchema.parse: z.boolean().default(d) takes a missing value to d *)
(* and rejects a non-boolean; a bad required field rejects.  All          *)
(* violations are collected, so the result is just ok or not.             *)
(***************************************************************************)
BoolField(v, default) == IF v = Absent THEN default ELSE v

\* Mutant: mentionGating declared with .default(false).
ParseHarnessMentionOff(raw) ==
    LET fields == {raw.dmPairingRequired, raw.mentionGating,
                   raw.sandboxNonMainSessions, raw.includeMemorySeed}
    IN IF raw.required = "bad" \/ Junk \in fields
       THEN [ok |-> FALSE]
       ELSE [ok |-> TRUE,
             dmPairingRequired |-> BoolField(raw.dmPairingRequired, TRUE),
             mentionGating |-> BoolField(raw.mentionGating, FALSE),
             sandboxNonMainSessions |-> BoolField(raw.sandboxNonMainSessions, TRUE),
             includeMemorySeed |-> BoolField(raw.includeMemorySeed, FALSE)]

\* Mutant: the channel switches declared without a type (z.any().default(true)),
\* so whatever the YAML holds is passed through to the config.
ParseHarnessUnchecked(raw) ==
    LET pass(v, default) == IF v = Absent THEN default ELSE v
        checked == {raw.sandboxNonMainSessions, raw.includeMemorySeed}
    IN IF raw.required = "bad" \/ Junk \in checked
       THEN [ok |-> FALSE]
       ELSE [ok |-> TRUE,
             dmPairingRequired |-> pass(raw.dmPairingRequired, TRUE),
             mentionGating |-> pass(raw.mentionGating, TRUE),
             sandboxNonMainSessions |-> BoolField(raw.sandboxNonMainSessions, TRUE),
             includeMemorySeed |-> BoolField(raw.includeMemorySeed, FALSE)]

ParseHarness(raw) ==
    LET fields == {raw.dmPairingRequired, raw.mentionGating,
                   raw.sandboxNonMainSessions, raw.includeMemorySeed}
    IN IF raw.required = "bad" \/ Junk \in fields
       THEN [ok |-> FALSE]
       ELSE [ok |-> TRUE,
             dmPairingRequired |-> BoolField(raw.dmPairingRequired, TRUE),
             mentionGating |-> BoolField(raw.mentionGating, TRUE),
             sandboxNonMainSessions |-> BoolField(raw.sandboxNonMainSessions, TRUE),
             includeMemorySeed |-> BoolField(raw.includeMemorySeed, FALSE)]

(***************************************************************************)
(* buildOpenclawConfig: the three security switches of the gateway config. *)
(***************************************************************************)
BuildOpenclawConfig(spec) ==
    [pairingRequired |-> spec.dmPairingRequired,
     mentionGating |-> spec.mentionGating,
     sandbox |-> IF spec.sandboxNonMainSessions THEN "strict" ELSE "off"]

(***************************************************************************)
(* buildWorkspaceFiles: five documents, and MEMORY.md only with            *)
(* includeMemorySeed; Object.entries yields them in insertion order.      *)
(***************************************************************************)
BuildWorkspaceFiles(spec) ==
    IF spec.includeMemorySeed THEN Append(DocOrder, "MEMORY.md") ELSE DocOrder

(***************************************************************************)
(* writeArtifacts(outDir, artifacts) as the sequence of writeFileSync     *)
(* calls it makes: each workspace document, openclaw.json,                *)
(* skill-pack-manifest.json, then artifact-metadata.json listing the      *)
(* document names sorted.  Invocation n writes contents tagged n.          *)
(***************************************************************************)
WriteArtifacts(n, spec, raw, tenantId) ==
    LET docs == BuildWorkspaceFiles(spec)
        docWrites == [k \in 1..Len(docs) |->
                        [path |-> <<"workspace", docs[k]>>, content |-> [run |-> n]]]
        config == [run |-> n, raw |-> raw] @@ BuildOpenclawConfig(spec)
        manifest == [run |-> n, tenantId |-> tenantId]
        metadata == [run |-> n, tenantId |-> tenantId,
                     containerTag |-> ResolveContainerTag(raw.containerTag, Prefix, tenantId),
                     workspaceFiles |-> {docs[k] : k \in 1..Len(docs)}]
    IN docWrites \o
       <<[path |-> <<"openclaw.json">>, content |-> config],
         [path |-> <<"skill-pack-manifest.json">>, content |-> manifest],
         [path |-> <<"artifact-metadata.json">>, content |-> metadata]>>

(***************************************************************************)
(* runCompose: loadHarnessFromFile, compileFromSpec(spec, tenant) with the *)
(* --tenant flag as tenant id, writeArtifacts, then the compose file that *)
(* buildComposeTemplate fills with the tenant id and container tag.       *)
(***************************************************************************)
\* Mutant: runCompose writing the compose file without calling writeArtifacts.
ComposeWritesOnly(n, spec, raw, tenantId) ==
    <<[path |-> <<ComposeFile>>,
       content |-> [run |-> n, tenantId |-> tenantId,
                    containerTag |-> ResolveContainerTag(raw.containerTag, Prefix, tenantId)]]>>

ComposeWrites(n, spec, raw, tenantId) ==
    Append(WriteArtifacts(n, spec, raw, tenantId),
           [path |-> <<ComposeFile>>,
            content |-> [run |-> n, tenantId |-> tenantId,
                         containerTag |-> ResolveContainerTag(raw.containerTag, Prefix, tenantId)]])

Init ==
    /\ fs = [p \in Paths |-> Missing]
    /\ runs = 0
    /\ pc = "idle"
    /\ plan = <<>>
    /\ cmd = "none"
    /\ exit = NoExit

(***************************************************************************)
(* runCli(argv) for compile / compose: requiredString flags, then load and *)
(* validate the harness; a missing flag or an invalid harness throws       *)
(* before any file is touched and runCli returns 1.  Otherwise the        *)
(* tenant id is taken from --tenant-id, from buildTenantId(--tenant) with *)
(* a fresh random suffix (compileHarness), or is --tenant itself           *)
(* (compose), and the writes begin.  Any other command prints the usage   *)
(* and returns 2.                                                          *)
(***************************************************************************)
Invoke ==
    /\ pc = "idle"
    /\ runs < MaxRuns
    /\ runs' = runs + 1
    /\ \E c \in Commands, raw \in RawDocs, slug \in Slugs, flagsOk \in BOOLEAN :
        LET spec == ParseHarness(raw) IN
        /\ cmd' = c
        /\ IF c = "other"
           THEN /\ exit' = 2
                /\ UNCHANGED <<pc, plan>>
           ELSE IF ~flagsOk \/ ~spec.ok
           THEN /\ exit' = 1
                /\ UNCHANGED <<pc, plan>>
           ELSE /\ \E tenantId \in
                      CASE c = "compile" -> {BuildTenantId(slug, x) : x \in Suffixes}
                        [] c = "compile-tenant-id" -> {slug}
                        [] c = "compose" -> {slug} :
                     plan' = IF c = "compose"
                             THEN ComposeWrites(runs', spec, raw, tenantId)
                             ELSE WriteArtifacts(runs', spec, raw, tenantId)
                /\ pc' = "writing"
                /\ exit' = NoExit
    /\ UNCHANGED fs

\* One writeFileSync succeeds; after the last one runCli returns 0.
WriteNext ==
    /\ pc = "writing"
    /\ fs' = [fs EXCEPT ![Head(plan).path] = Head(plan).content]
    /\ plan' = Tail(plan)
    /\ IF Tail(plan) = <<>>
       THEN pc' = "idle" /\ exit' = 0
       ELSE UNCHANGED <<pc, exit>>
    /\ UNCHANGED <<runs, cmd>>

(***************************************************************************)
(* A write throws (EACCES, ENOSPC) or the process dies: the error         *)
(* propagates, the remaining writes never happen, nothing is rolled back.  *)
(***************************************************************************)
WriteFails ==
    /\ pc = "writing"
    /\ pc' = "idle"
    /\ plan' = <<>>
    /\ exit' = 1
    /\ UNCHANGED <<fs, runs, cmd>>

Next == Invoke \/ WriteNext \/ WriteFails

Spec == Init /\ [][Next]_vars

-----------------------------------------------------------------------------
(***************************************************************************)
(* Properties.                                                             *)
(***************************************************************************)

\* Type.
TypeOK ==
    /\ runs \in 0..MaxRuns
    /\ pc \in {"idle", "writing"}
    /\ cmd \in Commands \cup {"none"}
    /\ exit \in {NoExit, 0, 1, 2}
    /\ \A p \in Paths : fs[p].run \in 0..runs
    /\ LET c == fs[<<"openclaw.json">>] IN
       c # Missing => {c.pairingRequired, c.mentionGating} \subseteq BOOLEAN

(***************************************************************************)
(* Spec 4.4/8: the gateway config never silently takes the permissive     *)
(* value: a switch the document leaves out is secure (pairing required,   *)
(* mention gating, strict sandbox), and one it gives is copied unchanged. *)
(* Checked on every openclaw.json on disk, against the raw document the   *)
(* invocation that wrote it read.                                          *)
(***************************************************************************)
SecureDefaults ==
    LET c == fs[<<"openclaw.json">>] IN
    c # Missing =>
        /\ c.pairingRequired = (c.raw.dmPairingRequired # FALSE)
        /\ c.mentionGating = (c.raw.mentionGating # FALSE)
        /\ c.sandbox = IF c.raw.sandboxNonMainSessions = FALSE THEN "off" ELSE "strict"

(***************************************************************************)
(* After an invocation exits 0, the output directory is one bundle of that *)
(* invocation: the config, manifest and metadata, every document the      *)
(* metadata lists, and (for compose) the compose file were written by it, *)
(* and the manifest names the metadata's tenant, whatever failed writes   *)
(* and earlier invocations left behind.                                    *)
(***************************************************************************)
SuccessLeavesOneBundle ==
    (pc = "idle" /\ exit = 0) =>
        LET meta == fs[<<"artifact-metadata.json">>] IN
        /\ \A f \in JsonFiles : fs[<<f>>].run = runs
        /\ \A d \in meta.workspaceFiles : fs[<<"workspace", d>>].run = runs
        /\ fs[<<"skill-pack-manifest.json">>].tenantId = meta.tenantId
        /\ cmd = "compose" => fs[<<ComposeFile>>].run = runs

(***************************************************************************)
(* Spec 6: workspace/MEMORY.md exists "only if includeMemorySeed", and    *)
(* artifact-metadata.json records the documents written: after a         *)
(* successful invocation the documents in workspace/ are exactly those    *)
(* the metadata lists.                                                     *)
(***************************************************************************)
WorkspaceMatchesMetadata ==
    (pc = "idle" /\ exit = 0) =>
        {d \in DocNames : fs[<<"workspace", d>>] # Missing}
            = fs[<<"artifact-metadata.json">>].workspaceFiles

(***************************************************************************)
(* Spec 4.3: "Trailing whitespace is normalized and every document ends   *)
(* with exactly one trailing newline."  The renderers of workspace.ts     *)
(* never trim; writeArtifacts trims the end of each document, and schema *)
(* .ts trims the ends of every field the templates print.  Every          *)
(* workspace document on disk is one whose written text meets the         *)
(* contract for every validated spec whose fields hold no blank before an *)
(* inner newline (MEMORY.md: its end; the seed's own lines are the        *)
(* user's).  A field that does hold one ("calm \nfocused" passes          *)
(* nonEmptyString) puts a blank-ending line inside the document.          *)
(***************************************************************************)
WrittenDocumentsWellFormed ==
    \A d \in DOMAIN RendersWellFormed :
        fs[<<"workspace", d>>] # Missing => RendersWellFormed[d]

=============================================================================

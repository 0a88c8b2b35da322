------------------------------ MODULE Watchdog ------------------------------
(***************************************************************************)
(* The heartbeat process: `runCli(["watchdog", ...])` (src/kr8tiv-claw/    *)
(* src/cli.ts), i.e. runWatchdog and postWebhook.  After reading its      *)
(* flags it loops forever: await the owner ping, await the management     *)
(* ping, await a setTimeout of intervalMs.  A ping is one fetch with no   *)
(* timeout of its own; it resolves or rejects, or never settles when the  *)
(* runtime's timeouts do not cover the stall (a DNS lookup has none).     *)
(* Time is not kept: no property here is about how long a round takes.    *)
(*                                                                         *)
(* The process is started by hand or as the agent-watchdog service of     *)
(* docker-compose.tenant.yml.  That service depends on the gateway being  *)
(* healthy: docker runs the gateway's healthcheck (every 30 s) until it   *)
(* passes, which starts the watchdog, or fails HealthRetries times in a   *)
(* row, which marks the gateway unhealthy and the watchdog never starts.  *)
(* The healthcheck command only checks the token (no --config), so its    *)
(* outcome is the same every time.                                         *)
(***************************************************************************)
EXTENDS Integers, Sequences, FiniteSets, TenantCompose

CONSTANTS
    Launches         \* how the process may be started: [compose, argv, env]

Unset == <<"unset">>    \* an environment variable that is not set

VARIABLES
    pc,          \* "start" | "owner" | "management" | "sleep" | "exited"
    owner,       \* whether the owner webhook URL is set
    management,  \* whether the management webhook URL is set
    beats,       \* management pings sent, modulo 2 (a toggle)
    exitCode,    \* runCli's result once runWatchdog has thrown, else -1
    launch,      \* how the process was started (None before)
    failures     \* consecutive failed healthchecks of the gateway

vars == <<pc, owner, management, beats, exitCode, launch, failures>>

\* The launch before the process starts: an empty argv, which no launch has.
None == [compose |-> FALSE, argv |-> <<>>, env |-> [token |-> <<>>, owner |-> Unset, management |-> Unset]]
Loop == {"owner", "management", "sleep"}

Init ==
    /\ pc = "start"
    /\ owner = FALSE
    /\ management = FALSE
    /\ beats = 0
    /\ exitCode = -1
    /\ launch = None
    /\ failures = 0

(***************************************************************************)
(* runCli(argv) with command "watchdog", and runWatchdog's prologue:      *)
(* requiredString(flags, "tenant") throws on a missing tenant (runCli     *)
(* returns 1); a webhook URL is the trimmed flag when that is a string,   *)
(* else the environment variable.  Both are fixed for the life of the     *)
(* loop.  The interval (lines 151-155) only sets how long Sleep waits.    *)
(***************************************************************************)
WebhookUrl(flags, name, env) ==
    IF IsString(flags, Key(name)) THEN Trim(flags[Key(name)]) ELSE env

\* postWebhook: if (!url) return.
Pings(url) == url \notin {<<>>, Unset}

RunWatchdog(l) ==
    LET flags == ParseArgs(EntryArgv(l.argv)).flags
    IN IF RequiredString(flags, Key("tenant")).ok
       THEN /\ pc' = "owner"
            /\ owner' = Pings(WebhookUrl(flags, "owner-webhook", l.env.owner))
            /\ management' = Pings(WebhookUrl(flags, "management-webhook", l.env.management))
            /\ UNCHANGED exitCode
       ELSE /\ pc' = "exited"
            /\ exitCode' = 1
            /\ UNCHANGED <<owner, management>>

\* The process is started: by hand at once, by compose once the gateway is healthy.
Start ==
    /\ pc = "start"
    /\ \E l \in Launches :
        /\ launch' = l
        /\ IF l.compose
           THEN pc' = "waiting" /\ UNCHANGED <<owner, management, exitCode>>
           ELSE RunWatchdog(l)
    /\ UNCHANGED <<beats, failures>>

HealthCheck ==
    /\ pc = "waiting"
    /\ LET flags == ParseArgs(EntryArgv(HealthcheckCommand(launch.env.token))).flags IN
       IF RunHealth(flags, launch.env.token, "ok")
       THEN RunWatchdog(launch) /\ UNCHANGED failures
       ELSE /\ failures' = failures + 1
            /\ pc' = IF failures + 1 = HealthRetries THEN "unhealthy" ELSE pc
            /\ UNCHANGED <<owner, management, exitCode>>
    /\ UNCHANGED <<launch, beats>>

(***************************************************************************)
(* await postWebhook(url, payload): no URL returns at once; otherwise the *)
(* fetch resolves or rejects.                                             *)
(***************************************************************************)
\* Mutant: postWebhook without its catch; the rejection ends runWatchdog and
\* runCli returns 1.
AfterFetchUncaught(rejected, next) ==
    IF rejected THEN pc' = "exited" /\ exitCode' = 1
    ELSE pc' = next /\ UNCHANGED exitCode

\* try { await fetch(...) } catch { }: a rejection is swallowed.
AfterFetch(rejected, next) ==
    /\ pc' = next
    /\ UNCHANGED exitCode

PostWebhook(url, next) ==
    IF url THEN \E rejected \in BOOLEAN : AfterFetch(rejected, next)
    ELSE pc' = next /\ UNCHANGED exitCode

\* await postWebhook(ownerWebhook, payload)
PostOwner ==
    /\ pc = "owner"
    /\ PostWebhook(owner, "management")
    /\ UNCHANGED <<owner, management, beats, launch, failures>>

\* await postWebhook(managementWebhook, payload)
PostManagement ==
    /\ pc = "management"
    /\ PostWebhook(management, "sleep")
    /\ beats' = IF management THEN 1 - beats ELSE beats
    /\ UNCHANGED <<owner, management, launch, failures>>

(***************************************************************************)
(* await new Promise(resolve => setTimeout(resolve, intervalMs)).  The    *)
(* timer always fires; how long it waits is not kept (setTimeout makes    *)
(* any delay above 2^31-1 ms a 1 ms one).                                  *)
(***************************************************************************)
Sleep ==
    /\ pc = "sleep"
    /\ pc' = "owner"
    /\ UNCHANGED <<owner, management, beats, exitCode, launch, failures>>

Next == Start \/ HealthCheck \/ PostOwner \/ PostManagement \/ Sleep

(***************************************************************************)
(* Every step is the event loop resuming the one async function after a   *)
(* timer or a settled fetch; the runtime guarantees both.                  *)
(***************************************************************************)
Spec == Init /\ [][Next]_vars /\ WF_vars(Next)

-----------------------------------------------------------------------------
(***************************************************************************)
(* Properties.                                                             *)
(***************************************************************************)

TypeOK ==
    /\ pc \in {"start", "waiting", "unhealthy", "exited"} \cup Loop
    /\ launch \in Launches \cup {None}
    /\ failures \in 0..HealthRetries
    /\ owner \in BOOLEAN /\ management \in BOOLEAN
    /\ beats \in {0, 1}
    /\ exitCode \in {-1, 1}

(***************************************************************************)
(* Heartbeats are best effort and never stop: once the loop has started   *)
(* with a management webhook, management pings keep being sent forever,   *)
(* whatever either endpoint answers or how long it takes (postWebhook     *)
(* swallows every failure).                                                *)
(***************************************************************************)
ManagementBeatsForever ==
    \A b \in {0, 1} :
        [](pc # "start" /\ management /\ beats = b => <>(beats # b))

(***************************************************************************)
(* The token gate of the deployment: the watchdog of a compose file      *)
(* never starts its loop for a gateway whose OPENCLAW_GATEWAY_TOKEN has   *)
(* fewer than 16 characters.  The healthcheck expands the token unquoted, *)
(* so runHealth gets only its first shell word as --token, and parseArgs  *)
(* takes a word starting with "--" for a flag, leaving runHealth to fall  *)
(* back on the environment variable; neither path may let a short token   *)
(* through.                                                                *)
(***************************************************************************)
WatchdogOnlyAfterValidToken ==
    launch.compose /\ pc \in Loop => Len(launch.env.token) >= 16
=============================================================================

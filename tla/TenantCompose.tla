---------------------------- MODULE TenantCompose ----------------------------
(***************************************************************************)
(* The two services of docker-compose.tenant.yml as buildComposeTemplate  *)
(* (src/kr8tiv-claw/src/generators/compose.ts) writes them, as far as the *)
(* processes they start go: the gateway's healthcheck command and the     *)
(* watchdog's command list, each as the argv runCli receives.  compose    *)
(* substitutes ${VAR} from the host environment (an unset variable        *)
(* becomes ""), and both containers get the host's OPENCLAW_GATEWAY_TOKEN, *)
(* OWNER_WEBHOOK_URL and MANAGEMENT_WEBHOOK_URL.                           *)
(***************************************************************************)
EXTENDS CliArgs

Digits == <<"0", "1", "2", "3", "4", "5", "6", "7", "8", "9">>

\* String(n) of a positive integer below 10^21 (plain decimal notation).
RECURSIVE DecimalString(_)
DecimalString(n) ==
    IF n < 10 THEN <<Digits[n + 1]>> ELSE DecimalString(n \div 10) \o <<Digits[(n % 10) + 1]>>

Word(w) == <<w>>

(***************************************************************************)
(* healthcheck test ["CMD-SHELL", "node dist/index.js health --token      *)
(* $$OPENCLAW_GATEWAY_TOKEN"]: compose turns $$ into $, and the shell     *)
(* expands the unquoted variable into its words.                          *)
(***************************************************************************)
HealthcheckCommand(token) ==
    <<Word("node"), Word("dist/index.js"), Word("health"), Flag("token")>> \o ShellWords(token)

\* healthcheck retries: 3.
HealthRetries == 3

(***************************************************************************)
(* The agent-watchdog command list, written when includeWatchdog is set: *)
(* the tenant id and the heartbeat interval are written into the file,    *)
(* the webhook items are ${OWNER_WEBHOOK_URL} and ${MANAGEMENT_WEBHOOK_URL}. *)
(***************************************************************************)
WatchdogCommand(tenantId, heartbeatIntervalSeconds, ownerUrl, managementUrl) ==
    <<Word("node"), Word("dist/index.js"), Word("watchdog"),
      Flag("tenant"), tenantId,
      Flag("owner-webhook"), ownerUrl,
      Flag("management-webhook"), managementUrl,
      Flag("interval-seconds"), DecimalString(heartbeatIntervalSeconds)>>
=============================================================================

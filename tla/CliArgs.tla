------------------------------ MODULE CliArgs ------------------------------
(***************************************************************************)
(* The argument handling of the command line (src/kr8tiv-claw/src/cli.ts  *)
(* and index.ts): parseArgs, requiredString and runHealth, and the way an *)
(* argv reaches runCli from a container of docker-compose.tenant.yml.     *)
(*                                                                         *)
(* A token is a sequence of one-character strings.  A flag name is one    *)
(* symbol, so "--tenant" is <<"-", "-", "tenant">> and its key, the       *)
(* token after slice(2), is <<"tenant">>.                                 *)
(***************************************************************************)
EXTENDS Integers, Sequences, TLC

Blanks == {" ", "\n"}

Flag(name) == <<"-", "-", name>>
Key(name) == <<name>>

RECURSIVE TrimLeft(_)
TrimLeft(s) == IF s # <<>> /\ Head(s) \in Blanks THEN TrimLeft(Tail(s)) ELSE s

RECURSIVE TrimRight(_)
TrimRight(s) == IF s # <<>> /\ s[Len(s)] \in Blanks THEN TrimRight(SubSeq(s, 1, Len(s) - 1)) ELSE s

Trim(s) == TrimRight(TrimLeft(s))

\* token.startsWith("--")
IsFlag(t) == Len(t) >= 2 /\ t[1] = "-" /\ t[2] = "-"

NoFlags == [k \in {} |-> <<>>]

\* The value `true` of a flag given without a value: one symbol that no
\* token holds.
FlagTrue == <<"(true)">>

(***************************************************************************)
(* The loop of parseArgs over the tokens after the command: a token not   *)
(* starting with "--" is skipped; "--key" takes the next token as its     *)
(* value unless that token is missing, empty or itself starts with "--",  *)
(* in which case the flag is `true` and the next token is looked at on    *)
(* its own.  A later flag of the same key overwrites an earlier one.      *)
(***************************************************************************)
RECURSIVE ParseFlags(_, _)
ParseFlags(rest, flags) ==
    IF rest = <<>> THEN flags
    ELSE LET key == SubSeq(Head(rest), 3, Len(Head(rest)))
             next == IF Len(rest) >= 2 THEN rest[2] ELSE <<>>
         IN CASE ~IsFlag(Head(rest)) -> ParseFlags(Tail(rest), flags)
              [] next = <<>> \/ IsFlag(next) -> ParseFlags(Tail(rest), (key :> FlagTrue) @@ flags)
              [] OTHER -> ParseFlags(Tail(Tail(rest)), (key :> next) @@ flags)

\* parseArgs(argv): the first token is the command ("" for an empty argv).
ParseArgs(argv) ==
    [command |-> IF argv = <<>> THEN <<>> ELSE Head(argv),
     flags |-> ParseFlags(IF argv = <<>> THEN <<>> ELSE Tail(argv), NoFlags)]

\* typeof flags[key] === "string"
IsString(flags, key) == key \in DOMAIN flags /\ flags[key] # FlagTrue

\* The trimmed string value of a flag, or <<>> when it is not a string.
TrimmedFlag(flags, key) == IF IsString(flags, key) THEN Trim(flags[key]) ELSE <<>>

\* requiredString: the trimmed value, which must be non-empty, else it throws.
RequiredString(flags, key) ==
    [ok |-> TrimmedFlag(flags, key) # <<>>, value |-> TrimmedFlag(flags, key)]

(***************************************************************************)
(* runHealth(flags) with OPENCLAW_GATEWAY_TOKEN = env and `config` the    *)
(* state of the --config file ("missing", "badjson" or "ok"): whether it  *)
(* writes health:ok and returns (runCli exits 0) or throws (exit 1).  The *)
(* token is the trimmed --token flag if that is a non-empty string, else  *)
(* the environment variable as it is.                                      *)
(***************************************************************************)
HealthToken(flags, env) ==
    IF TrimmedFlag(flags, Key("token")) # <<>> THEN TrimmedFlag(flags, Key("token")) ELSE env

\* Mutant: the check written as !token && token.length < 16.
HealthTokenOkAnd(token) == ~(token = <<>> /\ Len(token) < 16)

HealthTokenOk(token) == token # <<>> /\ ~(Len(token) < 16)

RunHealth(flags, env, config) ==
    /\ HealthTokenOk(HealthToken(flags, env))
    /\ TrimmedFlag(flags, Key("config")) # <<>> => config = "ok"

(***************************************************************************)
(* /bin/sh -c of a CMD-SHELL healthcheck: an unquoted $VAR expands to the *)
(* words of its value, split at blanks, with empty words dropped.         *)
(***************************************************************************)
RECURSIVE Words(_, _)
Words(s, word) ==
    CASE s = <<>> -> IF word = <<>> THEN <<>> ELSE <<word>>
      [] Head(s) \in Blanks ->
            (IF word = <<>> THEN <<>> ELSE <<word>>) \o Words(Tail(s), <<>>)
      [] OTHER -> Words(Tail(s), Append(word, Head(s)))

ShellWords(s) == Words(s, <<>>)

\* index.ts: runCli(process.argv.slice(2)), after "node" and "dist/index.js".
EntryArgv(command) == SubSeq(command, 3, Len(command))
=============================================================================

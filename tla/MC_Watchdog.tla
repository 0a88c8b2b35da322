---------------------------- MODULE MC_Watchdog ----------------------------
(***************************************************************************)
(* Instances of Watchdog for TLC.                                          *)
(*                                                                         *)
(* By hand: argv with or without --tenant, the owner URL as a flag or in  *)
(* the environment, and the management URL in the environment or not at   *)
(* all.                                                                    *)
(*                                                                         *)
(* From compose: tenant "t", heartbeat interval 60, each webhook URL set  *)
(* or empty on the host, and a gateway token that is empty, 15 or 16      *)
(* characters long, starts with "--" (16 and 15 characters), or has a     *)
(* blank: a short first word (17 characters in all), a 16-character first *)
(* word (18), or a leading blank (17).                                    *)
(***************************************************************************)
EXTENDS Watchdog

A(n) == [i \in 1..n |-> "a"]
Url == <<"u">>
Node == <<Word("node"), Word("dist/index.js"), Word("watchdog")>>

MCManualLaunches ==
    {[compose |-> FALSE,
      argv |-> Node \o tenant \o <<Flag("owner-webhook"), Url>>,
      env |-> [token |-> <<>>, owner |-> Unset, management |-> m]] :
        tenant \in {<<>>, <<Flag("tenant"), <<"t">>>>},
        m \in {Unset, Url}}
    \cup {[compose |-> FALSE, argv |-> Node \o <<Flag("tenant"), <<"t">>>>,
           env |-> [token |-> <<>>, owner |-> Unset, management |-> Url]]}

MCTokens == {<<>>, A(15), A(16), <<"-", "-">> \o A(14), <<"-", "-">> \o A(13),
             A(8) \o <<" ">> \o A(8), A(16) \o <<" ", "b">>, <<" ">> \o A(16)}

MCComposeLaunches ==
    {[compose |-> TRUE,
      argv |-> WatchdogCommand(<<"t">>, 60, o, m),
      env |-> [token |-> tk, owner |-> o, management |-> m]] :
        tk \in MCTokens, o \in {<<>>, Url}, m \in {<<>>, Url}}

MCLaunches == MCManualLaunches \cup MCComposeLaunches
=============================================================================

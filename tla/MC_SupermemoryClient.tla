------------------------ MODULE MC_SupermemoryClient ------------------------
(***************************************************************************)
(* Two concurrent calls by two tenants.  Slugs include one that needs     *)
(* normalising; namespaces and external ids include ":" and "/" and upper *)
(* case, user ids include "/" and ":".                                     *)
(***************************************************************************)
EXTENDS SupermemoryClient

MCSlugs == {<<"a">>, <<"A", "_", "b">>}
MCPrefix == <<"a">>
MCNamespaces == {<<"a">>, <<"a", ":", "b">>}
MCExternalIds == {<<"b", ":", "a">>, <<" ", "A">>}
MCUserIds == {<<"b">>, <<"a", "/", ":">>}
=============================================================================

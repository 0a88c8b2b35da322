------------------------ MODULE MC_HarnessCompiler ------------------------
(***************************************************************************)
(* Instances of HarnessCompiler for TLC.  A field may be missing, a        *)
(* boolean or a value of the wrong type; the tenant slug has an upper-case *)
(* and an underscore character, which buildTenantId rewrites.              *)
(***************************************************************************)
EXTENDS HarnessCompiler

MCFlagInputs == {Absent, TRUE, FALSE, Junk}
MCSeedInputs == {Absent, TRUE}
MCSlugs == {<<"A", "_">>}
MCPrefix == <<"a">>
MCExplicitTags == {<<>>, <<" ", "b">>}

\* Text fields: a word, and words with a blank or a newline at either end,
\* a field of blanks only (which nonEmptyString rejects), and one with a
\* blank before an inner newline (which it lets through).
MCRawTexts == {<<"w">>, <<" ", "w">>, <<"w", " ">>, <<"w", "\n">>, <<"\n", " ">>,
               <<"w", " ", "\n", "w">>}

\* The question of WorkspaceMatchesMetadata: seed on, then seed off.
MCSeedOnOff == {TRUE, FALSE}
MCFlagAbsent == {Absent}
MCNoTag == {<<>>}
=============================================================================

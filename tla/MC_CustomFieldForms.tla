------------------------- MODULE MC_CustomFieldForms -------------------------
EXTENDS CustomFieldForms, TLC

\* One type per parse branch (text stands for every string type).
MCFieldTypes == {"text", "integer", "decimal", "boolean", "json"}
MCLabelInputs == {<<"a">>, <<" ", "b">>}
MCRegexInputs == {<<>>, <<"^">>}
\* Blank, integers (negative and padded, -0), a decimal with a trailing
\* zero, a boolean in capitals, and JSON with inner blanks.
MCDefaultInputs ==
    {<<>>, <<" ", "-", "7">>, <<"-", "0">>, <<"1", ".", "5", "0">>,
     <<"T", "R", "U", "E">>, <<"[", " ", "]">>, <<"{", "}">>}
\* Board ids are interchangeable.
MCSymmetry == Permutations(Boards)
=============================================================================

------------------------- MODULE MC_RetrievalDedup -------------------------
(***************************************************************************)
(* Model of retrieveHybridContext: every search response with up to        *)
(* MaxEntries entries drawn from EntryChoices, under each payload shape.   *)
(***************************************************************************)
EXTENDS RetrievalDedup

\* Raw strings: plain, padded with mixed whitespace, blank, another word.
A == Str(<<"a">>)
PaddedA == Str(<<" ", "a", "nl">>)
B == Str(<<"b">>)
Blank == Str(<<" ", "nl">>)

\* A non-object entry, and objects whose fields cover a missing or null
\* field, a non-string value, and strings that normalise alike or to "".
EntryChoices ==
    {[obj |-> FALSE, content |-> Nullish, text |-> Nullish, snippet |-> Nullish]}
    \cup
    [obj : {TRUE}, content : {Nullish, NumberVal, A, PaddedA, Blank},
     text : {Nullish, B}, snippet : {Nullish, A}]

MCTopKs == {1, 2}
MCTopKsWithZero == {0, 1}
=============================================================================

--------------------------- MODULE RetrievalDedup ---------------------------
(***************************************************************************)
(* retrieveHybridContext (src/kr8tiv-claw/src/supermemory/retrieval.ts):  *)
(* one search call, then a loop over the returned entries that extracts a  *)
(* text, whitespace-normalises it, drops empty and already-seen texts and  *)
(* stops as soon as topK texts are kept.                                   *)
(*                                                                         *)
(* Strings are sequences of character tokens; " " and "nl" are the         *)
(* whitespace tokens (the \s class of the code's regex).  A JSON value is  *)
(* a record whose kind is "nullish" (null or a missing key, which the     *)
(* code's ?? treats alike), "number" (any non-string scalar) or "string".  *)
(***************************************************************************)
EXTENDS Integers, Sequences, FiniteSets

LOCAL Seqs == INSTANCE SequencesExt

CONSTANTS
    Entries,    \* the entries a search response may carry
    MaxEntries, \* bound on the length of the returned entry list
    TopKs       \* the request.topK values a caller may pass

VARIABLES
    pc,         \* "search" | "loop" | "done" | "failed"
    topK,       \* request.topK
    rawResults, \* the entry list the loop walks (payload.results ?? ...)
    i,          \* index of the next entry of rawResults
    deduped,    \* the returned list, texts in order of first occurrence
    seen        \* the Set<string> of texts already kept

vars == <<pc, topK, rawResults, i, deduped, seen>>

Whitespace == {" ", "nl"}

Nullish == [kind |-> "nullish"]
NumberVal == [kind |-> "number"]
Str(s) == [kind |-> "string", chars |-> s]
IsString(v) == v.kind = "string"

(***************************************************************************)
(* maybeText.trim().replace(/\s+/g, " ")                                   *)
(***************************************************************************)
RECURSIVE TrimStart(_)
TrimStart(s) ==
    IF s # <<>> /\ Head(s) \in Whitespace THEN TrimStart(Tail(s)) ELSE s

Trim(s) == Seqs!Reverse(TrimStart(Seqs!Reverse(TrimStart(s))))

RECURSIVE CollapseWs(_)
CollapseWs(s) ==
    IF s = <<>> THEN s
    ELSE IF Head(s) \in Whitespace
         THEN <<" ">> \o CollapseWs(TrimStart(Tail(s)))
         ELSE <<Head(s)>> \o CollapseWs(Tail(s))

Compact(s) == CollapseWs(Trim(s))

(***************************************************************************)
(* item.content ?? item.text ?? item.snippet: the first field that is not  *)
(* null/undefined, whatever its type.                                      *)
(***************************************************************************)
MaybeText(item) ==
    IF item.content # Nullish THEN item.content
    ELSE IF item.text # Nullish THEN item.text
    ELSE item.snippet

(***************************************************************************)
(* payload.results ?? payload.items ?? payload.data ?? []                  *)
(***************************************************************************)
ResultsField(payload) ==
    IF payload.results # Nullish THEN payload.results
    ELSE IF payload.items # Nullish THEN payload.items
    ELSE IF payload.data # Nullish THEN payload.data
    ELSE [kind |-> "array", elems |-> <<>>]

(***************************************************************************)
(* The text an entry contributes: its normalised text when it is an object *)
(* whose first non-null field is a string, else the empty string, which   *)
(* the loop skips like a string that normalises to "".                    *)
(***************************************************************************)
TextOf(item) ==
    IF item.obj /\ IsString(MaybeText(item))
    THEN Compact(MaybeText(item).chars)
    ELSE <<>>

Array(l) == [kind |-> "array", elems |-> l]

(***************************************************************************)
(* The responses the service may send for an entry list l: l under         *)
(* results, items or data, behind a non-array results value, or no list.   *)
(***************************************************************************)
Payloads(l) ==
    {[results |-> Array(l), items |-> Nullish, data |-> Nullish],
     [results |-> Nullish, items |-> Array(l), data |-> Nullish],
     [results |-> Nullish, items |-> Nullish, data |-> Array(l)],
     [results |-> NumberVal, items |-> Array(l), data |-> Nullish],
     [results |-> Nullish, items |-> Nullish, data |-> Nullish]}

EntryLists == UNION {[1..n -> Entries] : n \in 0..MaxEntries}

Init ==
    /\ pc = "search"
    /\ topK \in TopKs
    /\ rawResults = <<>>
    /\ i = 1
    /\ deduped = <<>>
    /\ seen = {}

(***************************************************************************)
(* await client.search(...), then the Array.isArray early return.          *)
(***************************************************************************)
Search ==
    /\ pc = "search"
    /\ \E l \in EntryLists : \E payload \in Payloads(l) :
        LET raw == ResultsField(payload) IN
        IF raw.kind = "array"
        THEN /\ rawResults' = raw.elems
             /\ pc' = "loop"
        ELSE /\ pc' = "done"
             /\ UNCHANGED rawResults
    /\ UNCHANGED <<topK, i, deduped, seen>>

(***************************************************************************)
(* One iteration that ends in `continue`: a non-object entry, a text that  *)
(* is not a string, an empty text or one already in `seen`.               *)
(***************************************************************************)
SkipEntry ==
    /\ pc = "loop"
    /\ i <= Len(rawResults)
    /\ LET compact == TextOf(rawResults[i]) IN
        compact = <<>> \/ compact \in seen
    /\ i' = i + 1
    /\ UNCHANGED <<pc, topK, rawResults, deduped, seen>>

\* Mutant: seen.add(maybeText) (the raw text) instead of the compact one.
KeepEntrySeenRaw ==
    /\ pc = "loop"
    /\ i <= Len(rawResults)
    /\ LET compact == TextOf(rawResults[i]) IN
        /\ compact # <<>>
        /\ compact \notin seen
        /\ seen' = seen \cup {MaybeText(rawResults[i]).chars}
        /\ deduped' = Append(deduped, compact)
        /\ IF Len(deduped') >= topK
           THEN pc' = "done" /\ UNCHANGED i
           ELSE pc' = "loop" /\ i' = i + 1
    /\ UNCHANGED <<topK, rawResults>>

\* Mutant: the cutoff tested with > instead of >=.
KeepEntryPastTopK ==
    /\ pc = "loop"
    /\ i <= Len(rawResults)
    /\ LET compact == TextOf(rawResults[i]) IN
        /\ compact # <<>>
        /\ compact \notin seen
        /\ seen' = seen \cup {compact}
        /\ deduped' = Append(deduped, compact)
        /\ IF Len(deduped') > topK
           THEN pc' = "done" /\ UNCHANGED i
           ELSE pc' = "loop" /\ i' = i + 1
    /\ UNCHANGED <<topK, rawResults>>

(***************************************************************************)
(* seen.add; deduped.push; break once deduped.length >= topK.              *)
(***************************************************************************)
KeepEntry ==
    /\ pc = "loop"
    /\ i <= Len(rawResults)
    /\ LET compact == TextOf(rawResults[i]) IN
        /\ compact # <<>>
        /\ compact \notin seen
        /\ seen' = seen \cup {compact}
        /\ deduped' = Append(deduped, compact)
        /\ IF Len(deduped') >= topK
           THEN pc' = "done" /\ UNCHANGED i
           ELSE pc' = "loop" /\ i' = i + 1
    /\ UNCHANGED <<topK, rawResults>>

(***************************************************************************)
(* The for-of loop runs out of entries: return deduped.                    *)
(***************************************************************************)
LoopExhausted ==
    /\ pc = "loop"
    /\ i > Len(rawResults)
    /\ pc' = "done"
    /\ UNCHANGED <<topK, rawResults, i, deduped, seen>>

(***************************************************************************)
(* client.search rejects (non-2xx status, abort on timeout, bad JSON): the *)
(* error propagates out of retrieveHybridContext unhandled.                *)
(***************************************************************************)
SearchFails ==
    /\ pc = "search"
    /\ pc' = "failed"
    /\ UNCHANGED <<topK, rawResults, i, deduped, seen>>

Next == Search \/ SearchFails \/ SkipEntry \/ KeepEntry \/ LoopExhausted

Spec == Init /\ [][Next]_vars /\ WF_vars(Next)

-----------------------------------------------------------------------------
(***************************************************************************)
(* Properties.                                                             *)
(***************************************************************************)

Text == Seq(Whitespace \cup {"a", "b"})

\* Type: the loop keeps normalised strings and an index into the entries.
TypeOK ==
    /\ pc \in {"search", "loop", "done", "failed"}
    /\ topK \in TopKs
    /\ i \in 1..(Len(rawResults) + 1)
    /\ \A n \in 1..Len(deduped) : deduped[n] \in Text
    /\ seen = Seqs!ToSet(deduped)

(***************************************************************************)
(* The reference: the texts the entries carry, normalised and non-empty,   *)
(* reduced to their first occurrences, of which the first topK.            *)
(* Extract(item) is how a text is taken from an entry.                     *)
(***************************************************************************)
TextsOf(entries, Extract(_)) ==
    LET carries(n) == entries[n].obj /\ IsString(Extract(entries[n]))
        idx == {n \in 1..Len(entries) :
                    carries(n) /\ Compact(Extract(entries[n]).chars) # <<>>}
        order == Seqs!SetToSortSeq(idx, <)
    IN [m \in 1..Len(order) |-> Compact(Extract(entries[order[m]]).chars)]

FirstOccurrences(t) ==
    LET firsts == {n \in 1..Len(t) : \A m \in 1..(n - 1) : t[m] # t[n]}
        order == Seqs!SetToSortSeq(firsts, <)
    IN [m \in 1..Len(order) |-> t[order[m]]]

Expected(entries, Extract(_), k) ==
    LET d == FirstOccurrences(TextsOf(entries, Extract)) IN
    SubSeq(d, 1, IF k < Len(d) THEN k ELSE Len(d))

(***************************************************************************)
(* When retrieveHybridContext returns, its list is exactly the first topK *)
(* distinct normalised texts in the order the service returned them: no   *)
(* duplicate, no text dropped before the cutoff, none kept after it.       *)
(***************************************************************************)
ResultMatchesReference ==
    pc = "done" => deduped = Expected(rawResults, MaybeText, topK)

=============================================================================

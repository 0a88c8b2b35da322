------------------------- MODULE MemoryConventions -------------------------
(***************************************************************************)
(* Pure string conventions of the memory subsystem and tenant identity:    *)
(*   buildTenantId, resolveContainerTag    (harness/compiler.ts)           *)
(*   buildContainerTag, buildCustomId, buildMetadata                       *)
(*                                         (supermemory/conventions.ts)    *)
(*   encodeURIComponent of profile paths   (supermemory/client.ts)         *)
(*                                                                         *)
(* A string is a sequence of character tokens over a small alphabet:       *)
(* "a", "b" (lower case), "A" (upper case), "-", "_", ":", "/" and " ".    *)
(* The 8-hex-digit random suffix of a tenant id is one token (a member of  *)
(* the caller's Suffixes), as it never contains a separator.               *)
(***************************************************************************)
EXTENDS Integers, Sequences, FiniteSets, TLC

LowerCase(c) == IF c = "A" THEN "a" ELSE c

\* Characters kept by /[^a-z0-9-]/ (tenant slug) and /[^a-z0-9-:_]/ (id).
SlugChars == {"a", "b", "-"}
IdChars == {"a", "b", "-", ":", "_"}

RECURSIVE TrimLeading(_)
TrimLeading(s) ==
    IF s # <<>> /\ Head(s) = " " THEN TrimLeading(Tail(s)) ELSE s

RECURSIVE TrimTrailing(_)
TrimTrailing(s) ==
    IF s # <<>> /\ s[Len(s)] = " " THEN TrimTrailing(SubSeq(s, 1, Len(s) - 1))
    ELSE s

\* s.toLowerCase().replace(regex, "-") for the character class Keep.
Sanitize(s, Keep) ==
    [n \in 1..Len(s) |-> IF LowerCase(s[n]) \in Keep THEN LowerCase(s[n]) ELSE "-"]

(***************************************************************************)
(* buildTenantId(slug): `${normalized}-${randomBytes(4).toString("hex")}`  *)
(***************************************************************************)
BuildTenantId(slug, suffix) == Sanitize(slug, SlugChars) \o <<"-", suffix>>

(***************************************************************************)
(* buildContainerTag(prefix, tenantId) = `${prefix}:${tenantId}`           *)
(***************************************************************************)
BuildContainerTag(prefix, tenantId) == prefix \o <<":">> \o tenantId

(***************************************************************************)
(* resolveContainerTag: the spec's explicit tag when it is non-empty after *)
(* trim (returned trimmed), else `${containerTagPrefix}:${tenantId}`.     *)
(***************************************************************************)
ResolveContainerTag(explicitTag, prefix, tenantId) ==
    LET t == TrimTrailing(TrimLeading(explicitTag)) IN
    IF t # <<>> THEN t ELSE BuildContainerTag(prefix, tenantId)

(***************************************************************************)
(* buildCustomId: externalId trimmed, lower-cased, every character outside *)
(* [a-z0-9-:_] replaced by "-"; tenant and namespace are used verbatim.    *)
(***************************************************************************)
\* Mutant: the custom id without its tenant prefix.
BuildCustomIdNoTenant(tenantId, namespace, externalId) ==
    namespace \o <<":">> \o Sanitize(TrimTrailing(TrimLeading(externalId)), IdChars)

BuildCustomId(tenantId, namespace, externalId) ==
    tenantId \o <<":">> \o namespace \o <<":">>
        \o Sanitize(TrimTrailing(TrimLeading(externalId)), IdChars)

(***************************************************************************)
(* buildMetadata: the record sent with an ingest; userId: undefined is     *)
(* dropped by JSON.stringify, so an absent user id is an absent key.       *)
(* user is an optional string: [present |-> BOOLEAN, id |-> string].      *)
(***************************************************************************)
BuildMetadata(tenantId, containerTag, source, namespace, user) ==
    LET base == [tenantId |-> tenantId, containerTag |-> containerTag,
                 source |-> source, namespace |-> namespace]
    IN IF user.present THEN base @@ [userId |-> user.id] ELSE base

(***************************************************************************)
(* encodeURIComponent on the alphabet: ":" "/" " " become escapes, the     *)
(* rest is unreserved; decodeURIComponent undoes it.                       *)
(***************************************************************************)
Escape(c) ==
    CASE c = ":" -> "%3A"
      [] c = "/" -> "%2F"
      [] c = " " -> "%20"
      [] OTHER -> c

Unescape(c) ==
    CASE c = "%3A" -> ":"
      [] c = "%2F" -> "/"
      [] c = "%20" -> " "
      [] OTHER -> c

EncodeURIComponent(s) == [n \in 1..Len(s) |-> Escape(s[n])]
DecodeURIComponent(s) == [n \in 1..Len(s) |-> Unescape(s[n])]

(***************************************************************************)
(* `/v1/user-profiles/${encodeURIComponent(tag)}/${encodeURIComponent(u)}` *)
(* (the constant prefix is left out: the tail after it).                   *)
(***************************************************************************)
\* Mutant: the path built without encodeURIComponent.
ProfilePathRaw(containerTag, userId) == containerTag \o <<"/">> \o userId

ProfilePath(containerTag, userId) ==
    EncodeURIComponent(containerTag) \o <<"/">> \o EncodeURIComponent(userId)

(***************************************************************************)
(* How the service routes a profile path: split the tail on "/" and       *)
(* decode each segment; a tail that is not two segments matches no route.  *)
(***************************************************************************)
RouteProfile(p) ==
    LET cuts == {n \in 1..Len(p) : p[n] = "/"} IN
    IF Cardinality(cuts) = 1
    THEN LET n == CHOOSE m \in cuts : TRUE IN
         [matched |-> TRUE,
          tag |-> DecodeURIComponent(SubSeq(p, 1, n - 1)),
          user |-> DecodeURIComponent(SubSeq(p, n + 1, Len(p)))]
    ELSE [matched |-> FALSE, tag |-> <<>>, user |-> <<>>]
=============================================================================

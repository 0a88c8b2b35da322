--------------------------- MODULE MarketplacePacks ---------------------------
(***************************************************************************)
(* The pack filter of the skills marketplace page                         *)
(* (src/frontend/src/app/skills/marketplace/page.tsx): opened with         *)
(* ?packId=<id>, the page looks the pack up in its own packs query and,   *)
(* when it finds it, lists only the skills whose source URL lies under    *)
(* the pack's repository.  Operators only.                                 *)
(*                                                                         *)
(* A URL is a sequence of symbols, each standing for the characters it    *)
(* names: "https://", a host ("github.com", "GitHub.com"), "/", ".git",   *)
(* " ", and the characters of path segments ("o", "r", "tree", "main",    *)
(* "s").  The string operations the code applies (trim, a trailing "/"   *)
(* or ".git", indexOf("/tree/"), slice) only ever cut at symbol bounds    *)
(* of these inputs, so they act on symbols as they act on characters.     *)
(***************************************************************************)
EXTENDS Integers, Sequences
LOCAL INSTANCE SequencesExt

Scheme == "https://"
Hosts == {"github.com", "GitHub.com"}
LowerHost == [h \in Hosts |-> "github.com"]   \* the URL parser lowercases the host

\* String.prototype.trim
RECURSIVE TrimLead(_)
TrimLead(s) == IF s # <<>> /\ Head(s) = " " THEN TrimLead(Tail(s)) ELSE s
TrimUrl(s) == Reverse(TrimLead(Reverse(TrimLead(s))))

\* .replace(/\/+$/, "")
RECURSIVE StripSlashes(_)
StripSlashes(s) == IF s # <<>> /\ Last(s) = "/" THEN StripSlashes(Front(s)) ELSE s

\* normalizeRepoSourceUrl: trim, drop trailing slashes, then one ".git".
NormalizeRepoSourceUrl(sourceUrl) ==
    LET trimmed == StripSlashes(TrimUrl(sourceUrl))
    IN IF trimmed # <<>> /\ Last(trimmed) = ".git" THEN Front(trimmed) ELSE trimmed

(***************************************************************************)
(* new URL(s): leading and trailing blanks are stripped; a string without *)
(* a scheme and host throws.  origin is the scheme and the lowercased     *)
(* host; pathname is the rest, "/" when there is none.                     *)
(***************************************************************************)
ParseUrl(s) ==
    LET t == TrimUrl(s) IN
    IF Len(t) >= 2 /\ t[1] = Scheme /\ t[2] \in Hosts
    THEN [ok |-> TRUE, origin |-> <<Scheme, LowerHost[t[2]]>>,
          pathname |-> IF Len(t) = 2 THEN <<"/">> ELSE SubSeq(t, 3, Len(t))]
    ELSE [ok |-> FALSE]

\* s.indexOf(pat) as a 1-based index, 0 when absent (JavaScript's -1).
IndexOf(s, pat) ==
    LET at == {i \in 1..(Len(s) - Len(pat) + 1) : SubSeq(s, i, i + Len(pat) - 1) = pat}
    IN IF at = {} THEN 0 ELSE CHOOSE i \in at : \A j \in at : i <= j

TreeMarker == <<"/", "tree", "/">>

NoRepo == <<"null">>   \* repoBaseFromSkillSourceUrl's null

(***************************************************************************)
(* repoBaseFromSkillSourceUrl: the normalised origin and the pathname up  *)
(* to the first "/tree/"; null when the URL does not parse or the marker  *)
(* is missing or starts the pathname (markerIndex <= 0).                  *)
(***************************************************************************)
RepoBaseFromSkillSourceUrl(skillSourceUrl) ==
    LET u == ParseUrl(skillSourceUrl) IN
    IF ~u.ok THEN NoRepo
    ELSE LET markerIndex == IndexOf(u.pathname, TreeMarker) IN
         IF markerIndex <= 1 THEN NoRepo
         ELSE NormalizeRepoSourceUrl(u.origin \o SubSeq(u.pathname, 1, markerIndex - 1))

\* Mutant: the skill kept when its repository URL starts with the pack's.
VisibleSkillsByPrefix(skills, packSource) ==
    {s \in skills : IsPrefix(NormalizeRepoSourceUrl(packSource), RepoBaseFromSkillSourceUrl(s))}

\* visibleSkills under a selected pack: skillRepo === selectedRepo.
VisibleSkills(skills, packSource) ==
    {s \in skills : RepoBaseFromSkillSourceUrl(s) = NormalizeRepoSourceUrl(packSource)}

(***************************************************************************)
(* The page at /skills/marketplace?packId=id: selectedPack is the pack of *)
(* that id in the packs query (listed), else null.  With a pack it lists  *)
(* the filtered skills and says "N skills for <pack>"; without, every     *)
(* skill and "N skills synced from packs".                                 *)
(***************************************************************************)
MarketplaceView(packId, listed, packSource, skills) ==
    IF packId \in listed
    THEN [forPack |-> TRUE, skills |-> VisibleSkills(skills, packSource)]
    ELSE [forPack |-> FALSE, skills |-> skills]

-----------------------------------------------------------------------------
(***************************************************************************)
(* Reference: the repository a URL names, read the way a person reads it: *)
(* the host without regard to case, and the first two path segments with  *)
(* a ".git" ending dropped.  NoRepo when it names none.                    *)
(***************************************************************************)
RECURSIVE Segments(_, _)
Segments(p, seg) ==
    CASE p = <<>> -> IF seg = <<>> THEN <<>> ELSE <<seg>>
      [] Head(p) = "/" -> (IF seg = <<>> THEN <<>> ELSE <<seg>>) \o Segments(Tail(p), <<>>)
      [] OTHER -> Segments(Tail(p), Append(seg, Head(p)))

DropGit(seg) == IF Last(seg) = ".git" THEN Front(seg) ELSE seg

RepoOf(url) ==
    LET u == ParseUrl(url)
        segs == IF u.ok THEN Segments(u.pathname, <<>>) ELSE <<>>
    IN IF Len(segs) < 2 THEN NoRepo
       ELSE <<u.origin, segs[1], DropGit(segs[2])>>
=============================================================================

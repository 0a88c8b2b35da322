---------------------------- MODULE PackSkillsLink ----------------------------
(***************************************************************************)
(* The Skills column of the packs table (SkillPacksTable.tsx) links each  *)
(* row to /skills/marketplace?packId=<id>.  The marketplace page mounts   *)
(* with its own packs query (refetchOnMount: "always"), so it looks the   *)
(* id up in the packs the server has when the link is followed, which may *)
(* no longer hold a row the packs page still shows.  Its skills are the   *)
(* marketplace skills of the first gateway, SkillUrls by source URL.      *)
(***************************************************************************)
EXTENDS SkillPacksPage, MarketplacePacks

CONSTANTS
    PackSources,  \* source_url values a pack may have
    SkillUrls     \* source_url values of the marketplace skills

(***************************************************************************)
(* Following the Skills link of any row the packs page shows, whatever    *)
(* pack deletes and refetches happened before: when the marketplace says  *)
(* it lists the skills "for" the pack, every skill it lists lies in the   *)
(* pack's repository (host without regard to case, owner, repository     *)
(* name without ".git").  This is about normalizeRepoSourceUrl and        *)
(* repoBaseFromSkillSourceUrl agreeing on pack URLs written with a        *)
(* trailing slash, ".git" or blanks, and skill URLs with a mixed-case     *)
(* host, ".git" before "/tree/", or a repository whose name extends the   *)
(* pack's.                                                                  *)
(***************************************************************************)
SkillsLinkListsOnlyPackSkills ==
    \A p \in rows, src \in PackSources :
        LET view == MarketplaceView(p, srvPacks, src, SkillUrls) IN
        view.forPack => \A s \in view.skills : RepoOf(s) = RepoOf(src)
=============================================================================

--------------------------- MODULE MC_SkillPacksPage ---------------------------
EXTENDS PackSkillsLink, TLC

\* Pack ids are interchangeable: every pack may have any of the sources.
MCSymmetry == Permutations(Packs)

Url(host, path) == <<"https://", host>> \o path
Repo(repo) == <<"/", "o", "/">> \o repo
Tree == <<"/", "tree", "/", "main", "/", "s">>

\* A repository URL as a pack is added: plain, with ".git", with a
\* trailing slash, padded with blanks and a mixed-case host.
MCPackSources ==
    {Url("github.com", Repo(<<"r">>)),
     Url("github.com", Repo(<<"r", ".git">>)),
     Url("github.com", Repo(<<"r", "/">>)),
     <<" ">> \o Url("GitHub.com", Repo(<<"r">>)) \o <<" ">>,
     Url("github.com", Repo(<<"r", "r">>))}

\* Skill source URLs: in repository r (host case, ".git"), in rr, in a
\* repository named "tree", the repository URL itself, a tree at the
\* root of the host, and a string that is not a URL.
MCSkillUrls ==
    {Url("github.com", Repo(<<"r">>) \o Tree),
     Url("GitHub.com", Repo(<<"r">>) \o Tree),
     Url("github.com", Repo(<<"r", ".git">>) \o Tree),
     Url("github.com", Repo(<<"r", "r">>) \o Tree),
     Url("github.com", Repo(<<"tree">>) \o Tree),
     Url("github.com", Repo(<<"r">>)),
     Url("github.com", Tree),
     <<"o", "/", "r">>}
=============================================================================

------------------------ MODULE MC_PromptEvolutionPage ------------------------
EXTENDS PromptEvolutionPage, TLC

\* Pack ids are interchangeable.
MCSymmetry == Permutations(Packs)
=============================================================================

--------------------------- MODULE MCArticleVoting ---------------------------
EXTENDS ArticleVoting, TLC

CONSTANTS a1, a2, w1, w2

\* Wallets are interchangeable, and so are the article ids.
Symmetry == Permutations({w1, w2}) \cup Permutations({a1, a2})
=============================================================================

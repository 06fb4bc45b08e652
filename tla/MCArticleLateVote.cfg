\* Two article ids, two wallets, a window of two ticks on a clock of four.
\* When the clock has stopped and every wallet has voted, nothing is left
\* to do: not a deadlock of the service.
CONSTANTS
    a1 = a1
    a2 = a2
    w1 = w1
    w2 = w2
    NoArticle = NoArticle
    Articles = {a1, a2}
    Wallets = {w1, w2}
    Window = 2
    MaxTime = 4
SPECIFICATION Spec
INVARIANT NoVoteAfterClose
SYMMETRY Symmetry
CHECK_DEADLOCK FALSE

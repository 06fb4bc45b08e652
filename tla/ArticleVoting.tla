---------------------------- MODULE ArticleVoting ----------------------------
(***************************************************************************)
(* Article voting of press_articles (src/rust/press_articles/src/main.rs). *)
(* One SQLite connection behind a tokio Mutex serialises the handlers:     *)
(*                                                                         *)
(*   submit  a fresh article in state "voting", ends_at = now + 72h;       *)
(*   vote    refuse a second vote of the wallet on the article; else       *)
(*           INSERT the vote, then read ends_at (0 if no such article) and *)
(*           state ("voting" if none): at or after ends_at a "voting"      *)
(*           article becomes "approved".                                   *)
(*                                                                         *)
(* Whether a wallet has voted on an article is kept; directions, roles    *)
(* and fees are left out (no property tells them apart).                  *)
(***************************************************************************)
EXTENDS Naturals

CONSTANTS
    Articles,   \* article ids submit may draw (UUIDs; others are unknown ids)
    Wallets,    \* voter wallets
    Window,     \* 72 * 3600 seconds, in clock ticks
    MaxTime,    \* the clock stops here
    NoArticle   \* no row in `articles`

VARIABLES
    now,       \* now_unix()
    articles,  \* articles[a]: [state, ends] of its row, or NoArticle
    votes,     \* votes[a][w]: 1 when wallet w has a vote row on a
    late       \* ghost: articles that got a vote counted that its handler took
               \* (now_unix(), stored as created_at) at or after their ends_at

vars == <<now, articles, votes, late>>

States == {"voting", "approved"}

TypeOK ==
    /\ now \in 0..MaxTime
    /\ articles \in [Articles -> [state : States, ends : Nat] \cup {NoArticle}]
    /\ votes \in [Articles -> [Wallets -> 0..1]]
    /\ late \subseteq Articles

Init ==
    /\ now = 0
    /\ articles = [a \in Articles |-> NoArticle]
    /\ votes = [a \in Articles |-> [w \in Wallets |-> 0]]
    /\ late = {}

Tick ==
    /\ now < MaxTime
    /\ now' = now + 1
    /\ UNCHANGED <<articles, votes, late>>

\* submit: a new UUID, its row in "voting" until now + 72h.
Submit(a) ==
    /\ articles[a] = NoArticle
    /\ articles' = [articles EXCEPT ![a] = [state |-> "voting", ends |-> now + Window]]
    /\ UNCHANGED <<now, votes, late>>

\* vote: now_unix() is read (t), then the lock is awaited; under it, the
\* double-vote check, the INSERT and the auto-close, which compares the t
\* read before the wait.  The UPDATE of an unknown article changes no row.
Vote(a, w) ==
    \E t \in 0..now :
        LET row   == articles[a]
            ends  == IF row = NoArticle THEN 0 ELSE row.ends
            state == IF row = NoArticle THEN "voting" ELSE row.state
        IN
        IF votes[a][w] > 0
        THEN UNCHANGED vars
        ELSE /\ votes' = [votes EXCEPT ![a][w] = 1]
             /\ articles' = IF t >= ends /\ state = "voting" /\ row # NoArticle
                            THEN [articles EXCEPT ![a].state = "approved"]
                            ELSE articles
             /\ late' = IF row # NoArticle /\ t >= ends THEN late \cup {a} ELSE late
             /\ UNCHANGED now

Next ==
    \/ Tick
    \/ \E a \in Articles : Submit(a)
    \/ \E a \in Articles, w \in Wallets : Vote(a, w)

Spec == Init /\ [][Next]_vars

-----------------------------------------------------------------------------
(* Properties.                                                             *)

\* "Auto-close after ends_at": no vote is counted whose handler read the
\* clock at or after the end of the article's voting window.
NoVoteAfterClose == late = {}

=============================================================================

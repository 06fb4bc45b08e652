--------------------------- MODULE ExchangeIngest ---------------------------
(***************************************************************************)
(* The exchange-listing pipeline (src/rust/indexer/src/main.rs,           *)
(* exchange_registry_ingest_loop and its three handlers): the loop of     *)
(* IngestLoop, and the exchange_listings table keyed by outlet.            *)
(*                                                                         *)
(*   ListingRequested      INSERT OR REPLACE the whole row: tier, fee,     *)
(*                         domain "", test_passed 0, listed_at "";         *)
(*   TestTransactionPassed UPDATE test_passed = 1 WHERE outlet;            *)
(*   ListingFinalized      UPDATE domain, tier, listed_at WHERE outlet.    *)
(*                                                                         *)
(* A handler whose topic count is short returns Ok, one whose data does    *)
(* not decode returns Err: both write nothing (Decodable is FALSE).        *)
(***************************************************************************)
EXTENDS IngestLoop

CONSTANTS
    Event,      \* Event[i]: what log i carries
    Outlets,    \* outlet addresses
    Tiers,      \* bytes32 tiers
    Fees,       \* fee amounts
    Domains,    \* domain strings
    NoDomain,   \* the "" written by the request handler
    NoRow,      \* no row for the outlet
    DbFailures, \* whether a statement can fail (its error is dropped)
    PgStore     \* whether the store rejects INSERT OR REPLACE (Postgres)

Kinds == {"requested", "test", "finalized"}

ASSUME ExchangeEventAssumption ==
    /\ Event \in [Positions -> [kind : Kinds, outlet : Outlets, tier : Tiers,
                                fee : Fees, domain : Domains]]
    /\ NoDomain \notin Domains
    /\ DbFailures \in BOOLEAN /\ PgStore \in BOOLEAN

VARIABLE listings  \* listings[o]: the exchange_listings row of outlet o

vars == <<loopVars, listings>>

Rows == [tier : Tiers, fee : Fees, domain : Domains \cup {NoDomain},
         test : BOOLEAN, listed : BOOLEAN]

TypeOK ==
    /\ LoopTypeOK
    /\ listings \in [Outlets -> Rows \cup {NoRow}]

\* The outcomes of one statement, and of the SQLite-only INSERT OR REPLACE.
DbOutcome == IF DbFailures THEN BOOLEAN ELSE {TRUE}
ReplaceOutcome == IF PgStore THEN {FALSE} ELSE DbOutcome

Init ==
    /\ LoopInit
    /\ listings = [o \in Outlets |-> NoRow]

\* The row INSERT OR REPLACE leaves, whatever was there.
RequestedRow(row, e) ==
    [tier |-> e.tier, fee |-> e.fee, domain |-> NoDomain, test |-> FALSE,
     listed |-> FALSE]

HandleListingRequested(i) ==
    LET e == Event[i] IN
    /\ HandleNext(i)
    /\ e.kind = "requested" /\ Decodable[i]
    /\ \E ok \in ReplaceOutcome :
          listings' = IF ok THEN [listings EXCEPT ![e.outlet] = RequestedRow(@, e)]
                      ELSE listings

\* UPDATE ... WHERE outlet: no row, nothing updated.
HandleTestPassed(i) ==
    LET e == Event[i] IN
    /\ HandleNext(i)
    /\ e.kind = "test" /\ Decodable[i]
    /\ \E ok \in DbOutcome :
          listings' = IF ok /\ listings[e.outlet] # NoRow
                      THEN [listings EXCEPT ![e.outlet].test = TRUE]
                      ELSE listings

HandleListingFinalized(i) ==
    LET e == Event[i] IN
    /\ HandleNext(i)
    /\ e.kind = "finalized" /\ Decodable[i]
    /\ \E ok \in DbOutcome :
          listings' = IF ok /\ listings[e.outlet] # NoRow
                      THEN [listings EXCEPT ![e.outlet].domain = e.domain,
                                            ![e.outlet].tier = e.tier,
                                            ![e.outlet].listed = TRUE]
                      ELSE listings

\* Short topics (Ok) or an ABI decode error (Err): dropped by `let _ =`.
HandleUndecodable(i) ==
    /\ HandleNext(i)
    /\ ~Decodable[i]
    /\ UNCHANGED listings

HandleLog(i) ==
    \/ HandleListingRequested(i)
    \/ HandleTestPassed(i)
    \/ HandleListingFinalized(i)
    \/ HandleUndecodable(i)

LoopStep ==
    \/ /\ \/ StartNoAddress \/ StartFromFile \/ ColdStart \/ GetHead
          \/ GetLogsOk \/ Advance
       /\ UNCHANGED listings
    \/ \E i \in Positions : HandleLog(i)

Environment == (NewBlock \/ DeployAddress \/ Crash) /\ UNCHANGED listings

Next ==
    \/ LoopStep
    \/ GetLogsFail /\ UNCHANGED listings
    \/ Idle /\ UNCHANGED listings
    \/ Environment

\* The task loops forever, and the RPC node does not fail every get_logs
\* call from some point on.
Fairness ==
    /\ WF_vars(LoopStep)
    /\ SF_vars(GetLogsOk /\ UNCHANGED listings)

Spec == Init /\ [][Next]_vars /\ Fairness

-----------------------------------------------------------------------------
(* Properties.                                                             *)

\* Outlet o's request, test and finalization are on chain in that order,
\* decodable, at or after the last genuine cold start and below the head.
Lifecycle(o) ==
    \E r, t, f \in Positions :
        /\ r < t /\ t < f
        /\ Event[r].kind = "requested" /\ Event[t].kind = "test"
        /\ Event[f].kind = "finalized"
        /\ \A k \in {r, t, f} : Event[k].outlet = o /\ Decodable[k]
        /\ seed <= BlockOf[r] /\ BlockOf[f] < head

Complete(row) ==
    row # NoRow /\ row.test /\ row.listed /\ row.domain # NoDomain

\* Spec 6: the three events of an outlet converge to one row with every
\* field populated and test_passed = true, whatever restarts intervene
\* (exchange_registry_ingest_loop replaying from its cursor file).
ListingConverges == <>[](\A o \in Outlets : Lifecycle(o) => Complete(listings[o]))

\* Spec 4.4: a merge-upsert; no step clears the test flag or the listing
\* that another event set (handle_listing_requested replaces the row).
ListingNoClobber ==
    [][\A o \in Outlets :
          listings[o] # NoRow =>
             /\ listings'[o] # NoRow
             /\ listings[o].test => listings'[o].test
             /\ listings[o].listed => listings'[o].listed]_vars

=============================================================================

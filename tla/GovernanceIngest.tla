--------------------------- MODULE GovernanceIngest ---------------------------
(***************************************************************************)
(* The governance pipeline of the indexer (src/rust/indexer/src/main.rs):  *)
(* the loop of IngestLoop with the handlers of ProposalCreated and         *)
(* ProposalFinalized, the governance tables they write, and the monthly    *)
(* release batches derived from created proposals whose config key is in  *)
(* the release-batch preset list.                                          *)
(*                                                                         *)
(* Tables:                                                                 *)
(*   proposals  governance_proposals, keyed by proposal_id (INSERT OR      *)
(*              REPLACE);                                                  *)
(*   approved   approved_updates, plain INSERT: a sequence of rows;        *)
(*   batches    release_batches, plain INSERT: a sequence of batch ids;    *)
(*   items      release_batch_items, UNIQUE (batch_id, proposal_id) with   *)
(*              INSERT OR IGNORE: a set of rows.                           *)
(* Every statement's error is either returned by the handler (with `?`)    *)
(* or discarded (`let _ =`); the loop discards what the handler returns.   *)
(***************************************************************************)
EXTENDS IngestLoop, Sequences

CONSTANTS
    Event,        \* Event[i]: decoded content of log i
    ProposalIds,  \* proposal ids (uint256 topic 1)
    Keys,         \* config keys (bytes32)
    Values,       \* config values (int256)
    BatchKeys,    \* keys whose keccak is listed under release_batch_variables
    MaxMonth,     \* the wall clock runs through months 1..MaxMonth
    DbFailures,   \* whether a database statement can fail
    PgStore,      \* the store is the Postgres pool main opens
    BatchesTitled,\* release_batches has the title/window columns
    NoRow         \* a SELECT that found nothing

Kinds == {"created", "finalized"}

EventRecords ==
    [kind: Kinds, id: ProposalIds, key: Keys, value: Values,
     passed: BOOLEAN, auto: BOOLEAN]

ASSUME EventAssumption == Event \in [Positions -> EventRecords]
ASSUME KeysAssumption == BatchKeys \subseteq Keys
ASSUME MonthAssumption == MaxMonth \in Nat \ {0}
ASSUME DbFailuresAssumption == DbFailures \in BOOLEAN /\ PgStore \in BOOLEAN /\ BatchesTitled \in BOOLEAN
ASSUME NoRowAssumption == NoRow \notin [key: Keys, value: Values]
\* A proposal is created once on chain.
ASSUME UniqueCreation ==
    \A i, j \in Positions :
        Event[i].kind = "created" /\ Event[j].kind = "created" /\ Event[i].id = Event[j].id
            => i = j

VARIABLES
    proposals,  \* governance_proposals
    approved,   \* approved_updates
    batches,    \* release_batches
    items,      \* release_batch_items
    month       \* the calendar month chrono::Utc::now() is in

tableVars == <<proposals, approved, batches, items, month>>
vars == <<loopVars, tableVars>>

Months == 1..MaxMonth
ProposalRows == [key: Keys, value: Values]
ApprovedRows == [id: ProposalIds, cfg: ProposalRows \cup {NoRow}, passed: BOOLEAN, auto: BOOLEAN]
ItemRows == [batch: Months, id: ProposalIds, key: Keys, value: Values]

TypeOK ==
    /\ LoopTypeOK
    /\ proposals \in [ProposalIds -> ProposalRows \cup {NoRow}]
    /\ approved \in Seq(ApprovedRows)
    /\ batches \in Seq(Months)
    /\ items \subseteq ItemRows
    /\ month \in Months

\* The outcomes of one database statement.
DbOutcome == IF DbFailures THEN BOOLEAN ELSE {TRUE}

\* The outcomes of an INSERT OR REPLACE / INSERT OR IGNORE: SQLite syntax,
\* which Postgres rejects outright.
OrInsertOutcome == IF PgStore THEN {FALSE} ELSE DbOutcome

\* The outcomes of ensure_release_batch's INSERT: it names title and window
\* columns, which the first CREATE TABLE release_batches (the one IF NOT
\* EXISTS keeps) does not have.
BatchInsertOutcome == IF BatchesTitled THEN DbOutcome ELSE {FALSE}

Init ==
    /\ LoopInit
    /\ proposals = [p \in ProposalIds |-> NoRow]
    /\ approved = <<>>
    /\ batches = <<>>
    /\ items = {}
    /\ month \in Months

(***************************************************************************)
(* Derived state (DerivedStateEngine).                                     *)
(***************************************************************************)

\* key_in_list(presets, "release_batch_variables", config_key)
IsBatchKey(k) == k \in BatchKeys

\* ensure_release_batch: a plain INSERT, one more row per call.
EnsureReleaseBatch(b) == Append(batches, b)

\* add_batch_item: INSERT OR IGNORE under UNIQUE (batch_id, proposal_id).
AddBatchItem(b, id, k, v) ==
    IF \E r \in items : r.batch = b /\ r.id = id
    THEN items
    ELSE items \cup {[batch |-> b, id |-> id, key |-> k, value |-> v]}

(***************************************************************************)
(* Handlers.  A log that cannot be decoded, or whose first statement       *)
(* fails, is consumed with nothing written (HandleFailed).                 *)
(***************************************************************************)

\* handle_proposal_created.  The release-batch block after the upsert tests
\* `passed && !auto_applied`, names this function never binds (they are the
\* fields of ProposalFinalized): their values are a free choice here.  Each
\* of its two statements may fail on its own, the error discarded.
HandleProposalCreated(i) ==
    LET e == Event[i] IN
    /\ HandleNext(i)
    /\ e.kind = "created"
    /\ Decodable[i]
    /\ TRUE \in OrInsertOutcome
    /\ proposals' = [proposals EXCEPT ![e.id] = [key |-> e.key, value |-> e.value]]
    /\ \E passed, autoApplied \in BOOLEAN, batchOk \in BatchInsertOutcome, itemOk \in OrInsertOutcome :
          IF passed /\ ~autoApplied /\ IsBatchKey(e.key)
          THEN /\ batches' = IF batchOk THEN EnsureReleaseBatch(month) ELSE batches
               /\ items' = IF itemOk THEN AddBatchItem(month, e.id, e.key, e.value) ELSE items
          ELSE UNCHANGED <<batches, items>>
    /\ UNCHANGED <<approved, month>>

\* handle_proposal_finalized: look the proposal's config up (("0x", "0")
\* when it is not there) and append an approved_updates row.
HandleProposalFinalized(i) ==
    LET e == Event[i] IN
    /\ HandleNext(i)
    /\ e.kind = "finalized"
    /\ Decodable[i]
    /\ approved' = Append(approved, [id |-> e.id, cfg |-> proposals[e.id],
                                     passed |-> e.passed, auto |-> e.auto])
    /\ UNCHANGED <<proposals, batches, items, month>>

\* The outcomes of the first statement of log i's handler: the upsert of
\* ProposalCreated, the SELECT of ProposalFinalized.
FirstStatementOutcome(i) ==
    IF Event[i].kind = "created" THEN OrInsertOutcome ELSE DbOutcome

\* A decode error (or too few topics), or a failed first statement: the
\* handler returns its error with `?` and nothing is written.
HandleFailed(i) ==
    /\ HandleNext(i)
    /\ ~Decodable[i] \/ FALSE \in FirstStatementOutcome(i)
    /\ UNCHANGED tableVars

HandleLog(i) ==
    \/ HandleProposalCreated(i)
    \/ HandleProposalFinalized(i)
    \/ HandleFailed(i)

(***************************************************************************)
(* The specification.                                                      *)
(***************************************************************************)

NextMonth ==
    /\ month < MaxMonth
    /\ month' = month + 1
    /\ UNCHANGED <<loopVars, proposals, approved, batches, items>>

LoopStep ==
    \/ StartNoAddress /\ UNCHANGED tableVars
    \/ StartFromFile /\ UNCHANGED tableVars
    \/ ColdStart /\ UNCHANGED tableVars
    \/ GetHead /\ UNCHANGED tableVars
    \/ GetLogsOk /\ UNCHANGED tableVars
    \/ \E i \in Positions : HandleLog(i)
    \/ Advance /\ UNCHANGED tableVars

Environment ==
    \/ NewBlock /\ UNCHANGED tableVars
    \/ DeployAddress /\ UNCHANGED tableVars
    \/ Crash /\ UNCHANGED tableVars
    \/ NextMonth

Next ==
    \/ LoopStep
    \/ GetLogsFail /\ UNCHANGED tableVars
    \/ Idle /\ UNCHANGED tableVars
    \/ Environment

\* The task loops forever, and the RPC node does not fail every get_logs
\* call from some point on.
Fairness ==
    /\ WF_vars(LoopStep)
    /\ SF_vars(GetLogsOk /\ UNCHANGED tableVars)

Spec == Init /\ [][Next]_vars /\ Fairness

(***************************************************************************)
(* Properties.                                                             *)
(***************************************************************************)

\* Log i is reflected in the tables.
Applied(i) ==
    LET e == Event[i] IN
    IF e.kind = "created"
    THEN proposals[e.id] = [key |-> e.key, value |-> e.value]
    ELSE \E k \in 1..Len(approved) : approved[k].id = e.id /\ approved[k].passed = e.passed

\* Logs the pipeline promises to index: decodable, and not older than the
\* block the first start seeded the cursor to.
Indexable(i) == Decodable[i] /\ BlockOf[i] >= seed

SoundBelow(c) == \A i \in Positions : Indexable(i) /\ BlockOf[i] < c => Applied(i)

\* Safe cursor advance (spec 3, 8): neither the in-memory from_block of a
\* running task nor the cursor file on disk is ever past a log that has not
\* been projected, whatever the crashes, RPC failures and failed cursor
\* writes in between.
CursorSound ==
    /\ cursorFile \in Nat => SoundBelow(cursorFile)
    /\ pc \in {"head", "logs", "handle"} => SoundBelow(fromBlock)

\* Progress (spec 7): when the address file is there as the process starts,
\* every indexable log of a block below the head ends up projected, whatever
\* crashes and failing RPC calls come first.
EventuallyIndexed ==
    addr => <>[](\A i \in Positions : Indexable(i) /\ BlockOf[i] < head => Applied(i))

\* The refinement mapping onto the promise of a cursor-resumable indexer:
\* the cursor file is its cursor, the logs whose rows are in the tables are
\* its store.
Cursor == INSTANCE IndexedCursor
    WITH Logs <- Positions, cursor <- cursorFile,
         indexed <- {i \in Positions : Applied(i)}

\* Refinement (spec 3, 8): the pipeline implements IndexedCursor: projected
\* logs stay projected, the cursor file only moves forward, and every write
\* of it is covered by the logs already in the tables.
CursorSpec == Cursor!Spec

\* Idempotent replay (spec 3, 4.4, 8): handling a log again after a restart
\* adds nothing: no proposal gets a second approved_updates row, and none is
\* queued in two monthly release batches.
ReplayIdempotent ==
    /\ \A j, k \in 1..Len(approved) : approved[j].id = approved[k].id => j = k
    /\ \A r, s \in items : r.id = s.id => r.batch = s.batch

=============================================================================

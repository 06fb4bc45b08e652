------------------------- MODULE GovernanceRefinement -------------------------
(***************************************************************************)
(* The governance pipeline implements IndexedCursor under the mapping of  *)
(* GovernanceIngest (CursorSpec), for every chain, head bound, lookback   *)
(* and crash bound, when every cursor write is whole, no database         *)
(* statement fails and the store accepts the handlers' SQL.               *)
(*                                                                         *)
(* Step by step: a handled log is an Index step (AppliedStable: nothing   *)
(* projected is lost), a cold start with no cursor file a Reseed, the     *)
(* cursor write after a batch a Commit, and everything else a stutter.    *)
(* Commit needs two facts: the new cursor is covered (CursorSound of the  *)
(* state after the write, from the inductive invariant of                 *)
(* GovernanceIngestProofs), and it is not below the old one, which takes  *)
(* one more invariant, Ahead: a running task's from_block is never behind *)
(* the cursor file, and a fetched batch never ends before it starts.      *)
(***************************************************************************)
EXTENDS GovernanceIngestProofs

Ahead ==
    /\ pc \in {"head", "logs", "handle"} /\ cursorFile \in Nat => cursorFile <= fromBlock
    /\ pc \in {"logs", "handle"} => fromBlock <= toBlock

RInv == IInv /\ Ahead

\* The logs the tables reflect: the store of IndexedCursor.
Indexed == {i \in Positions : Applied(i)}

-----------------------------------------------------------------------------

LEMMA AheadStep ==
    ASSUME ~TornWrites, IInv, Ahead, [Next]_vars
    PROVE  Ahead'
<1>1. CASE Advance
    <2>1. cursorFile' \in {toBlock + 1, cursorFile}
        BY <1>1, WholeWrites DEF Advance, IInv, TypeOK, LoopTypeOK
    <2>. QED
        BY <1>1, <2>1 DEF Advance, Ahead, IInv, TypeOK, LoopTypeOK
<1>2. CASE StartFromFile /\ UNCHANGED tableVars
    BY <1>2 DEF StartFromFile, Ahead, IInv, TypeOK, LoopTypeOK
<1>3. CASE ColdStart /\ UNCHANGED tableVars
    BY <1>3, FileMarkersAssumption DEF ColdStart, Ahead
<1>4. CASE GetHead /\ UNCHANGED tableVars
    BY <1>4 DEF GetHead, Ahead, IInv, TypeOK, LoopTypeOK
<1>5. CASE GetLogsOk /\ UNCHANGED tableVars
    BY <1>5 DEF GetLogsOk, Ahead
<1>6. CASE GetLogsFail /\ UNCHANGED tableVars
    BY <1>6 DEF GetLogsFail, Ahead
<1>7. ASSUME NEW j \in Positions, HandleLog(j) PROVE Ahead'
    <2>1. UNCHANGED <<cursorFile, pc, fromBlock, toBlock>>
        BY <1>7 DEF HandleLog, HandleProposalCreated, HandleProposalFinalized, HandleFailed,
                    HandleNext
    <2>. QED
        BY <2>1 DEF Ahead
<1>8. CASE Crash /\ UNCHANGED tableVars
    BY <1>8 DEF Crash, Ahead
<1>10. CASE StartNoAddress /\ UNCHANGED tableVars
    BY <1>10 DEF StartNoAddress, Ahead
<1>9. CASE \/ Idle /\ UNCHANGED tableVars
           \/ NewBlock /\ UNCHANGED tableVars
           \/ DeployAddress /\ UNCHANGED tableVars
           \/ NextMonth
           \/ UNCHANGED vars
    <2>1. UNCHANGED <<cursorFile, pc, fromBlock, toBlock>>
        BY <1>9 DEF Idle, NewBlock, DeployAddress, NextMonth, vars, loopVars
    <2>. QED
        BY <2>1 DEF Ahead
<1>. QED
    BY <1>1, <1>2, <1>3, <1>4, <1>5, <1>6, <1>7, <1>8, <1>9, <1>10 DEF Next, LoopStep, Environment

LEMMA RInvInvariant ==
    ASSUME ~TornWrites, ~DbFailures, ~PgStore
    PROVE  Spec => []RInv
<1>1. Init => RInv
    BY IInvInit DEF Init, LoopInit, RInv, Ahead
<1>2. RInv /\ [Next]_vars => RInv'
    BY IInvStep, AheadStep DEF RInv
<1>. QED
    BY <1>1, <1>2, PTL DEF Spec

-----------------------------------------------------------------------------

LEMMA InitRefines == Init => Cursor!Init
<1>. SUFFICES ASSUME Init PROVE Cursor!Init
    OBVIOUS
<1>1. \A i \in Positions : ~Applied(i)
    BY EventAssumption, NoRowAssumption DEF Init, Applied, EventRecords
<1>. QED
    BY <1>1 DEF Init, LoopInit, Cursor!Init

\* A step that leaves the cursor file, the seed and the tables alone is a
\* stutter of IndexedCursor.
LEMMA Stutter ==
    ASSUME UNCHANGED <<cursorFile, seed, proposals, approved>>
    PROVE  UNCHANGED Cursor!cursorVars
BY DEF Cursor!cursorVars, Applied

LEMMA StepRefines ==
    ASSUME ~TornWrites, ~DbFailures, ~PgStore, RInv, RInv', [Next]_vars
    PROVE  [Cursor!Next]_Cursor!cursorVars
<1>. USE DEF RInv
<1>1. Indexed \subseteq Indexed'
    BY AppliedStable DEF Indexed, IInv
<1>2. CASE \E j \in Positions : HandleLog(j)
    <2>1. UNCHANGED <<cursorFile, seed>>
        BY <1>2 DEF HandleLog, HandleProposalCreated, HandleProposalFinalized, HandleFailed,
                    HandleNext
    <2>. QED
        BY <1>1, <2>1 DEF Cursor!Next, Cursor!Index, Indexed
<1>3. CASE ColdStart /\ UNCHANGED tableVars
    <2>1. cursorFile = Absent /\ UNCHANGED cursorFile
        BY <1>3 DEF ColdStart, IInv
    <2>2. seed' \in Nat
        BY DEF IInv, TypeOK, LoopTypeOK
    <2>. QED
        BY <1>3, <2>1, <2>2 DEF Cursor!Next, Cursor!Reseed, Applied, tableVars
<1>4. CASE Advance /\ UNCHANGED tableVars
    <2>1. cursorFile' \in {toBlock + 1, cursorFile} /\ UNCHANGED seed
        BY <1>4, WholeWrites DEF Advance, IInv, TypeOK, LoopTypeOK
    <2>2. CASE cursorFile' = cursorFile
        BY <1>4, <2>1, <2>2, Stutter DEF tableVars
    <2>3. CASE cursorFile' = toBlock + 1
        <3>1. cursorFile' \in Nat
            BY <2>3 DEF IInv, TypeOK, LoopTypeOK
        <3>2. cursorFile \in Nat => cursorFile <= cursorFile'
            BY <1>4, <2>3 DEF Advance, Ahead, IInv, TypeOK, LoopTypeOK
        <3>3. CursorSound'
            BY DEF IInv
        <3>4. \A i \in Positions : Applied(i)' = Applied(i)
            BY <1>4 DEF Applied, tableVars
        <3>5. Cursor!Covered(cursorFile')
            BY <2>1, <3>1, <3>3, <3>4 DEF CursorSound, SoundBelow, Indexable, Cursor!Covered
        <3>. QED
            BY <1>4, <2>1, <3>1, <3>2, <3>4, <3>5 DEF Cursor!Next, Cursor!Commit, tableVars
    <2>. QED
        BY <2>1, <2>2, <2>3
<1>5. CASE /\ ~\E j \in Positions : HandleLog(j)
           /\ ~(ColdStart /\ UNCHANGED tableVars)
           /\ ~(Advance /\ UNCHANGED tableVars)
    <2>1. UNCHANGED <<cursorFile, seed, proposals, approved>>
        BY <1>5 DEF Next, LoopStep, Environment, vars, loopVars, tableVars,
                    StartNoAddress, StartFromFile, GetHead, GetLogsOk, GetLogsFail, Idle,
                    NewBlock, DeployAddress, Crash, NextMonth
    <2>. QED
        BY <2>1, Stutter
<1>. QED
    BY <1>2, <1>3, <1>4, <1>5

\* Refinement: under whole cursor writes, a database that does not fail and
\* a store that accepts the handlers' SQL, governance_ingest_loop behaves as
\* a cursor-resumable indexer should: rows once written stay, the cursor file
\* never moves backwards, and each write of it is covered by the rows of
\* every indexable log below it.
THEOREM GovernanceRefinesCursor ==
    ASSUME ~TornWrites, ~DbFailures, ~PgStore
    PROVE  Spec => CursorSpec
<1>1. Spec => []RInv
    BY RInvInvariant
<1>2. RInv /\ RInv' /\ [Next]_vars => [Cursor!Next]_Cursor!cursorVars
    BY StepRefines
<1>. QED
    BY <1>1, <1>2, InitRefines, PTL DEF Spec, CursorSpec, Cursor!Spec

=============================================================================

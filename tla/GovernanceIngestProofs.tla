------------------------ MODULE GovernanceIngestProofs ------------------------
(***************************************************************************)
(* Proofs about the governance pipeline, for every chain, every bound and *)
(* every number of crashes.                                                *)
(*                                                                         *)
(*   TypeCorrect   Spec => []TypeOK                                        *)
(*   CursorSafety  with whole cursor writes, a database that does not fail *)
(*                 and accepts the SQL, Spec => []CursorSound              *)
(*                                                                         *)
(* CursorSound is not inductive: a handled log must stay handled (the     *)
(* tables only grow, and a proposal is created once), and while a batch   *)
(* is being handled the logs of [fromBlock, toBlock] already taken out of *)
(* pending must be projected.  IInv adds exactly that.                     *)
(***************************************************************************)
EXTENDS GovernanceIngest, TLAPS

\* The logs of the current batch that have been handled are projected.
BatchSound ==
    pc = "handle" =>
        \A i \in Positions :
            Indexable(i) /\ fromBlock <= BlockOf[i] /\ BlockOf[i] <= toBlock /\ i \notin pending
                => Applied(i)

IInv ==
    /\ TypeOK
    /\ cursorFile # Empty
    /\ CursorSound
    /\ BatchSound

USE NumLogsAssumption, BlockOfAssumption, DecodableAssumption, BoundsAssumption,
    FlagsAssumption, FileMarkersAssumption, EventAssumption, KeysAssumption,
    MonthAssumption, DbFailuresAssumption, NoRowAssumption

-----------------------------------------------------------------------------
(* Lemmas on the operators the steps are built from.                       *)

\* A cursor write leaves the file with a number or one of the two markers.
LEMMA WriteOutcomesType ==
    ASSUME NEW n \in Nat, cursorFile \in FileValues
    PROVE  WriteOutcomes(n) \subseteq FileValues
BY DEF WriteOutcomes, FileValues

\* Without torn writes the file gets the new value or keeps the old one.
LEMMA WholeWrites ==
    ASSUME NEW n \in Nat, ~TornWrites
    PROVE  WriteOutcomes(n) = {n, cursorFile}
BY DEF WriteOutcomes

\* The batch-item upsert keeps the table a set of item rows.
LEMMA AddBatchItemType ==
    ASSUME items \subseteq ItemRows,
           NEW b \in Months, NEW id \in ProposalIds, NEW k \in Keys, NEW v \in Values
    PROVE  AddBatchItem(b, id, k, v) \subseteq ItemRows
BY DEF AddBatchItem, ItemRows

-----------------------------------------------------------------------------
(* Type correctness.                                                       *)

LEMMA TypeInit == Init => TypeOK
BY DEF Init, LoopInit, TypeOK, LoopTypeOK, FileValues, PCs

LEMMA TypeStep == TypeOK /\ [Next]_vars => TypeOK'
<1> SUFFICES ASSUME TypeOK, [Next]_vars PROVE TypeOK'
    OBVIOUS
<1>. USE DEF TypeOK, LoopTypeOK, PCs, tableVars
<1>1. CASE StartNoAddress /\ UNCHANGED tableVars
    BY <1>1 DEF StartNoAddress
<1>2. CASE StartFromFile /\ UNCHANGED tableVars
    BY <1>2 DEF StartFromFile, FileValues
<1>3. CASE ColdStart /\ UNCHANGED tableVars
    BY <1>3 DEF ColdStart, SaturatingSub
<1>4. CASE GetHead /\ UNCHANGED tableVars
    BY <1>4 DEF GetHead
<1>5. CASE GetLogsOk /\ UNCHANGED tableVars
    BY <1>5 DEF GetLogsOk
<1>6. CASE GetLogsFail /\ UNCHANGED tableVars
    BY <1>6 DEF GetLogsFail
<1>7. CASE Idle /\ UNCHANGED tableVars
    BY <1>7 DEF Idle, loopVars
<1>8. CASE Advance /\ UNCHANGED tableVars
    <2>1. cursorFile' \in FileValues
        BY <1>8, WriteOutcomesType DEF Advance
    <2>. QED
        BY <1>8, <2>1 DEF Advance
<1>9. ASSUME NEW i \in Positions, HandleProposalCreated(i) PROVE TypeOK'
    <2>. DEFINE e == Event[i]
    <2>1. e \in EventRecords
        OBVIOUS
    <2>2. PICK passed, autoApplied \in BOOLEAN, batchOk \in BatchInsertOutcome,
               itemOk \in OrInsertOutcome :
              IF passed /\ ~autoApplied /\ IsBatchKey(e.key)
              THEN /\ batches' = IF batchOk THEN EnsureReleaseBatch(month) ELSE batches
                   /\ items' = IF itemOk THEN AddBatchItem(month, e.id, e.key, e.value) ELSE items
              ELSE UNCHANGED <<batches, items>>
        BY <1>9 DEF HandleProposalCreated
    <2>3. batches' \in Seq(Months)
        <3>1. Append(batches, month) \in Seq(Months)
            OBVIOUS
        <3>. QED
            BY <2>2, <3>1 DEF EnsureReleaseBatch
    <2>4. items' \subseteq ItemRows
        BY <2>1, <2>2, AddBatchItemType DEF EventRecords
    <2>5. proposals' \in [ProposalIds -> ProposalRows \cup {NoRow}]
        BY <1>9, <2>1 DEF HandleProposalCreated, EventRecords, ProposalRows
    <2>. QED
        BY <1>9, <2>3, <2>4, <2>5 DEF HandleProposalCreated, HandleNext
<1>10. ASSUME NEW i \in Positions, HandleProposalFinalized(i) PROVE TypeOK'
    <2>. DEFINE e == Event[i]
    <2>1. e \in EventRecords
        OBVIOUS
    <2>2. [id |-> e.id, cfg |-> proposals[e.id], passed |-> e.passed, auto |-> e.auto]
            \in ApprovedRows
        BY <2>1 DEF EventRecords, ApprovedRows
    <2>. QED
        BY <1>10, <2>2 DEF HandleProposalFinalized, HandleNext
<1>11. ASSUME NEW i \in Positions, HandleFailed(i) PROVE TypeOK'
    BY <1>11 DEF HandleFailed, HandleNext
<1>12. CASE NewBlock /\ UNCHANGED tableVars
    BY <1>12 DEF NewBlock
<1>13. CASE DeployAddress /\ UNCHANGED tableVars
    BY <1>13 DEF DeployAddress
<1>14. CASE Crash /\ UNCHANGED tableVars
    BY <1>14 DEF Crash
<1>15. CASE NextMonth
    BY <1>15 DEF NextMonth, Months, loopVars
<1>16. CASE UNCHANGED vars
    BY <1>16 DEF vars, loopVars
<1>. QED
    BY <1>1, <1>2, <1>3, <1>4, <1>5, <1>6, <1>7, <1>8, <1>9, <1>10, <1>11,
       <1>12, <1>13, <1>14, <1>15, <1>16
    DEF Next, LoopStep, Environment, HandleLog
\* Type correctness: every state of every behaviour is well typed.
THEOREM TypeCorrect == Spec => []TypeOK
BY TypeInit, TypeStep, PTL DEF Spec

-----------------------------------------------------------------------------
(* Cursor safety.                                                          *)

\* A projected log stays projected: the proposals row of a created proposal
\* is only ever replaced by its own ProposalCreated log (a proposal is created
\* once), and approved_updates only grows.
LEMMA AppliedStable ==
    ASSUME TypeOK, [Next]_vars, NEW i \in Positions, Applied(i)
    PROVE  Applied(i)'
<1>. DEFINE e == Event[i]
<1>1. e \in EventRecords
    OBVIOUS
<1>2. CASE UNCHANGED <<proposals, approved>>
    BY <1>2 DEF Applied
<1>3. ASSUME NEW j \in Positions, HandleProposalCreated(j) PROVE Applied(i)'
    <2>1. CASE e.kind = "created"
        <3>1. CASE Event[j].id = e.id
            <4>1. j = i
                BY <1>3, <2>1, <3>1, UniqueCreation DEF HandleProposalCreated
            <4>. QED
                BY <1>3, <1>1, <2>1, <4>1 DEF HandleProposalCreated, Applied, TypeOK, EventRecords
        <3>2. CASE Event[j].id # e.id
            BY <1>3, <1>1, <2>1, <3>2 DEF HandleProposalCreated, Applied, TypeOK, EventRecords
        <3>. QED
            BY <3>1, <3>2
    <2>2. CASE e.kind # "created"
        BY <1>3, <2>2 DEF HandleProposalCreated, Applied
    <2>. QED
        BY <2>1, <2>2
<1>4. ASSUME NEW j \in Positions, HandleProposalFinalized(j) PROVE Applied(i)'
    <2>1. CASE e.kind = "created"
        BY <1>4, <2>1 DEF HandleProposalFinalized, Applied
    <2>2. CASE e.kind # "created"
        <3>1. PICK k \in 1..Len(approved) : approved[k].id = e.id /\ approved[k].passed = e.passed
            BY <2>2 DEF Applied
        <3>2. /\ k \in 1..Len(approved')
              /\ approved'[k] = approved[k]
            BY <1>4, <3>1 DEF HandleProposalFinalized, TypeOK
        <3>. QED
            BY <2>2, <3>1, <3>2 DEF Applied
    <2>. QED
        BY <2>1, <2>2
<1>. QED
    BY <1>2, <1>3, <1>4
    DEF Next, LoopStep, Environment, HandleLog, HandleFailed, NextMonth, tableVars, vars

\* Handling a log under whole writes and a reliable database projects it,
\* or the log was never indexable.
LEMMA HandleProjects ==
    ASSUME TypeOK, ~DbFailures, ~PgStore, NEW j \in Positions, HandleLog(j), Indexable(j)
    PROVE  Applied(j)'
<1>. DEFINE e == Event[j]
<1>1. e \in EventRecords
    OBVIOUS
<1>2. CASE HandleProposalCreated(j)
    BY <1>1, <1>2 DEF HandleProposalCreated, Applied, TypeOK, EventRecords
<1>3. CASE HandleProposalFinalized(j)
    <2>1. /\ Len(approved') = Len(approved) + 1
          /\ approved'[Len(approved')].id = e.id
          /\ approved'[Len(approved')].passed = e.passed
        BY <1>3 DEF HandleProposalFinalized, TypeOK
    <2>2. e.kind # "created"
        BY <1>3 DEF HandleProposalFinalized
    <2>3. Len(approved') \in 1..Len(approved')
        BY <2>1 DEF TypeOK
    <2>. QED
        BY <2>1, <2>2, <2>3 DEF Applied
<1>4. CASE HandleFailed(j)
    BY <1>4 DEF HandleFailed, FirstStatementOutcome, OrInsertOutcome, DbOutcome, Indexable
<1>. QED
    BY <1>2, <1>3, <1>4 DEF HandleLog

LEMMA IInvInit == Init => IInv
BY TypeInit DEF Init, LoopInit, IInv, CursorSound, BatchSound

LEMMA IInvStep ==
    ASSUME ~TornWrites, ~DbFailures, ~PgStore
    PROVE  IInv /\ [Next]_vars => IInv'
<1> SUFFICES ASSUME IInv, [Next]_vars PROVE IInv'
    OBVIOUS
<1>1. TypeOK'
    BY TypeStep DEF IInv
<1>2. \A i \in Positions : Applied(i) => Applied(i)'
    BY AppliedStable DEF IInv
<1>. USE <1>1, <1>2
<1>3. CASE StartNoAddress /\ UNCHANGED tableVars
    BY <1>3 DEF StartNoAddress, IInv, CursorSound, BatchSound, SoundBelow, Indexable
<1>4. CASE StartFromFile /\ UNCHANGED tableVars
    BY <1>4 DEF StartFromFile, IInv, CursorSound, BatchSound, SoundBelow, Indexable
<1>5. CASE ColdStart /\ UNCHANGED tableVars
    <2>1. cursorFile = Absent /\ seed' = fromBlock'
        BY <1>5 DEF ColdStart, IInv
    <2>2. pc' = "head" /\ cursorFile' = Absent
        BY <1>5, <2>1 DEF ColdStart
    <2>3. SoundBelow(fromBlock)'
        BY <2>1, <1>1 DEF SoundBelow, Indexable, TypeOK, LoopTypeOK
    <2>. QED
        BY <2>2, <2>3, FileMarkersAssumption DEF IInv, CursorSound, BatchSound
<1>6. CASE GetHead /\ UNCHANGED tableVars
    BY <1>6 DEF GetHead, IInv, CursorSound, BatchSound, SoundBelow, Indexable
<1>7. CASE GetLogsOk /\ UNCHANGED tableVars
    BY <1>7 DEF GetLogsOk, IInv, CursorSound, BatchSound, SoundBelow, Indexable
<1>8. CASE GetLogsFail /\ UNCHANGED tableVars
    BY <1>8 DEF GetLogsFail, IInv, CursorSound, BatchSound, SoundBelow, Indexable
<1>9. CASE Idle /\ UNCHANGED tableVars
    BY <1>9 DEF Idle, loopVars, IInv, CursorSound, BatchSound, SoundBelow, Indexable
<1>10. CASE Advance /\ UNCHANGED tableVars
    <2>1. cursorFile' \in {toBlock + 1, cursorFile}
        BY <1>10, WholeWrites DEF Advance, IInv, TypeOK, LoopTypeOK
    <2>2. ASSUME NEW i \in Positions, Indexable(i), BlockOf[i] < toBlock + 1
          PROVE  Applied(i)
        <3>1. CASE BlockOf[i] < fromBlock
            BY <1>10, <2>2, <3>1 DEF Advance, IInv, CursorSound, SoundBelow
        <3>2. CASE fromBlock <= BlockOf[i]
            BY <1>10, <2>2, <3>2 DEF Advance, IInv, BatchSound, TypeOK, LoopTypeOK
        <3>. QED
            BY <3>1, <3>2 DEF IInv, TypeOK, LoopTypeOK
    <2>3. \A i \in Positions : Applied(i)' = Applied(i)
        BY <1>10 DEF Applied, tableVars
    <2>. QED
        BY <1>10, <2>1, <2>2, <2>3
        DEF Advance, IInv, TypeOK, LoopTypeOK, CursorSound, BatchSound, SoundBelow, Indexable
<1>11. ASSUME NEW j \in Positions, HandleLog(j) PROVE IInv'
    <2>1. /\ pc = "handle" /\ j \in pending
          /\ pending' = pending \ {j}
          /\ UNCHANGED <<cursorFile, pc, fromBlock, toBlock, seed>>
        BY <1>11 DEF HandleLog, HandleProposalCreated, HandleProposalFinalized, HandleFailed,
                     HandleNext
    <2>2. Indexable(j) => Applied(j)'
        BY <1>11, HandleProjects DEF IInv
    <2>. QED
        BY <2>1, <2>2 DEF IInv, CursorSound, BatchSound, SoundBelow, Indexable
<1>12. CASE NewBlock /\ UNCHANGED tableVars
    BY <1>12 DEF NewBlock, IInv, CursorSound, BatchSound, SoundBelow, Indexable
<1>13. CASE DeployAddress /\ UNCHANGED tableVars
    BY <1>13 DEF DeployAddress, IInv, CursorSound, BatchSound, SoundBelow, Indexable
<1>14. CASE Crash /\ UNCHANGED tableVars
    BY <1>14 DEF Crash, IInv, CursorSound, BatchSound, SoundBelow, Indexable
<1>15. CASE NextMonth
    BY <1>15 DEF NextMonth, loopVars, IInv, CursorSound, BatchSound, SoundBelow, Indexable
<1>16. CASE UNCHANGED vars
    BY <1>16 DEF vars, loopVars, IInv, CursorSound, BatchSound, SoundBelow, Indexable
<1>. QED
    BY <1>3, <1>4, <1>5, <1>6, <1>7, <1>8, <1>9, <1>10, <1>11, <1>12, <1>13, <1>14,
       <1>15, <1>16
    DEF Next, LoopStep, Environment

\* Safe cursor advance: when every cursor write is whole, no database
\* statement fails and the store accepts the handlers' SQL, neither the running task's from_block nor the cursor
\* file of governance_ingest_loop ever passes an unprojected indexable log.
THEOREM CursorSafety ==
    ASSUME ~TornWrites, ~DbFailures, ~PgStore
    PROVE  Spec => []CursorSound
<1>1. IInv => CursorSound
    BY DEF IInv
<1>. QED
    BY IInvInit, IInvStep, <1>1, PTL DEF Spec


=============================================================================

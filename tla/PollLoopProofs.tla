--------------------------- MODULE PollLoopProofs ---------------------------
(***************************************************************************)
(* Proofs about poll_loop, for every chain, lookback, word size and        *)
(* number of restarts.                                                     *)
(*                                                                         *)
(*   PollTypeCorrect     PollSpec => []PollTypeOK                          *)
(*   PollCursorSafety    with statements that do not fail,                 *)
(*                       PollSpec => []PollCursorSound                     *)
(*   PollCursorMonotonicity  with statements that do not fail,             *)
(*                       PollSpec => PollCursorMonotonic                   *)
(*                                                                         *)
(* PollCursorSound is not inductive: write_last_block(bn) is sound only    *)
(* because every log of the batch below bn was handled before it.  Two     *)
(* facts about the batch in hand say so: the logs of the batch no longer   *)
(* pending, and every log outside the batch at or above the seed of the    *)
(* scan and not above a pending log, are inserted (HandledSound); and the  *)
(* pending logs are what remains of a block interval once its first logs   *)
(* are handled (PendingInterval).                                          *)
(***************************************************************************)
EXTENDS PollLoop, TLAPS

\* Every log at or above the seed that is no longer pending and not above
\* a pending log has its row.
HandledSound ==
    pc = "handle" =>
        \A i \in pending, j \in Logs \ pending :
            Decodable[j] /\ seed <= BlockOf[j] /\ BlockOf[j] <= BlockOf[i] => rows[j] >= 1

\* A log whose block lies above one pending log and not above another is
\* pending too.
PendingInterval ==
    pc = "handle" =>
        \A i, k \in pending, j \in Logs :
            BlockOf[i] < BlockOf[j] /\ BlockOf[j] <= BlockOf[k] => j \in pending

PollIInv == PollTypeOK /\ PollCursorSound /\ HandledSound /\ PendingInterval

\* Inside a batch the cursor is still the value read at the top of the
\* loop, or the block of a handled log, not above any pending one.
CursorBelowPending ==
    pc = "handle" => meta = last \/ \A j \in pending : meta <= BlockOf[j]

USE PollConstantsAssumption, LogOrderAssumption

-----------------------------------------------------------------------------
(* Type correctness.                                                       *)

LEMMA PollTypeStep == PollTypeOK /\ [PollNext]_pollVars => PollTypeOK'
<1> SUFFICES ASSUME PollTypeOK, [PollNext]_pollVars PROVE PollTypeOK'
    OBVIOUS
<1>1. CASE Begin
    <2>1. PICK readOk \in StatementOutcome, headOk \in BOOLEAN :
            LET l      == IF readOk THEN meta ELSE 0
                latest == IF headOk THEN head ELSE 0
                from   == HexBlock(FromBlock(l, latest))
            IN  /\ pending' = {i \in Logs : from <= BlockOf[i] /\ BlockOf[i] <= latest}
                /\ seed' = IF l = 0 THEN FromBlock(l, latest) ELSE seed
                /\ last' = l
        BY <1>1 DEF Begin
    <2> QED
        BY <1>1, <2>1 DEF Begin, PollTypeOK, FromBlock, StatementOutcome
<1>2. ASSUME NEW i \in Logs, HandleLog(i) PROVE PollTypeOK'
    BY <1>2 DEF HandleLog, PollTypeOK, StatementOutcome
<1>3. CASE EndBatch
    BY <1>3 DEF EndBatch, PollTypeOK
<1>4. CASE Skip \/ UNCHANGED pollVars
    BY <1>4 DEF Skip, pollVars, PollTypeOK
<1>5. CASE PollNewBlock
    BY <1>5 DEF PollNewBlock, PollTypeOK
<1>6. CASE WriteDeployJson
    BY <1>6 DEF WriteDeployJson, PollTypeOK
<1>7. CASE PollCrash
    BY <1>7 DEF PollCrash, PollTypeOK
<1> QED
    BY <1>1, <1>2, <1>3, <1>4, <1>5, <1>6, <1>7 DEF PollNext, PollStep

\* Every reachable state of poll_loop is well typed: in particular the
\* cursor stays a block number and the seed is at least -Lookback.
THEOREM PollTypeCorrect == PollSpec => []PollTypeOK
<1>1. PollInit => PollTypeOK
    BY DEF PollInit, PollTypeOK
<1> QED
    BY <1>1, PollTypeStep, PTL DEF PollSpec

-----------------------------------------------------------------------------
(* The inductive invariant, with statements that do not fail.              *)

LEMMA PollIInvInit == PollInit => PollIInv
BY DEF PollInit, PollIInv, PollTypeOK, PollCursorSound, HandledSound, PendingInterval

\* The top of the loop: with last_block read as it is, the batch starts at
\* the cursor, or at the seed of a cold start; a log below the batch is
\* below the cursor, and one of a cold start's scan is in the batch.
LEMMA BeginStep ==
    ASSUME PollIInv, ~DbFailures, Begin
    PROVE  PollCursorSound' /\ HandledSound' /\ PendingInterval'
<1>1. PICK readOk \in StatementOutcome, headOk \in BOOLEAN :
        LET l      == IF readOk THEN meta ELSE 0
            latest == IF headOk THEN head ELSE 0
            from   == HexBlock(FromBlock(l, latest))
        IN  /\ pending' = {i \in Logs : from <= BlockOf[i] /\ BlockOf[i] <= latest}
            /\ seed' = IF l = 0 THEN FromBlock(l, latest) ELSE seed
            /\ last' = l
    BY DEF Begin
<1> DEFINE latest == IF headOk THEN head ELSE 0
           from   == HexBlock(FromBlock(meta, latest))
<1>2. /\ readOk /\ latest \in 0..MaxHead
      /\ pending' = {i \in Logs : from <= BlockOf[i] /\ BlockOf[i] <= latest}
      /\ seed' = IF meta = 0 THEN latest - Lookback ELSE seed
    BY <1>1 DEF StatementOutcome, PollIInv, PollTypeOK, FromBlock
<1>3. pc' = "handle" /\ UNCHANGED <<meta, rows>>
    BY DEF Begin
<1>7. from \in Int /\ latest - Lookback \in Int
    BY <1>2 DEF HexBlock, FromBlock, PollIInv, PollTypeOK
<1>4. PendingInterval'
    BY <1>2, <1>3, <1>7 DEF PendingInterval
<1>5. PollCursorSound'
    <2>1. CASE meta = 0
        BY <1>3, <2>1 DEF PollCursorSound, PollIInv, PollTypeOK
    <2>2. CASE meta # 0
        BY <1>2, <1>3, <2>2 DEF PollCursorSound, PollIInv
    <2> QED
        BY <2>1, <2>2
<1>6. HandledSound'
    <2> SUFFICES ASSUME NEW i \in pending', NEW j \in Logs \ pending',
                        Decodable[j], seed' <= BlockOf[j], BlockOf[j] <= BlockOf[i]
                 PROVE  rows'[j] >= 1
        BY <1>3 DEF HandledSound
    <2>1. i \in Logs /\ from <= BlockOf[i] /\ BlockOf[i] <= latest
          /\ ~(from <= BlockOf[j] /\ BlockOf[j] <= latest)
        BY <1>2
    <2>2. BlockOf[i] \in 0..MaxHead /\ BlockOf[j] \in 0..MaxHead
        BY <2>1
    <2>3. CASE meta = 0 /\ latest - Lookback >= 0
        BY <1>2, <2>1, <2>2, <2>3 DEF HexBlock, FromBlock
    <2>4. CASE meta = 0 /\ latest - Lookback < 0
        BY <1>2, <2>1, <2>2, <2>4 DEF HexBlock, FromBlock
    <2>5. CASE meta # 0
        <3>1. BlockOf[j] < meta /\ seed <= BlockOf[j]
            BY <1>2, <2>1, <2>2, <2>5 DEF HexBlock, FromBlock, PollIInv, PollTypeOK
        <3> QED
            BY <1>3, <3>1 DEF PollIInv, PollCursorSound
    <2> QED
        BY <1>7, <2>3, <2>4, <2>5
<1> QED
    BY <1>4, <1>5, <1>6

\* One log: its row is inserted, so a cursor moved to its block passes
\* only handled logs (the logs come in block order), and what is still
\* pending stays a block interval.
LEMMA HandleStep ==
    ASSUME PollIInv, ~DbFailures, NEW i \in Logs, HandleLog(i)
    PROVE  PollCursorSound' /\ HandledSound' /\ PendingInterval'
<1>1. /\ rows' = IF Decodable[i] THEN [rows EXCEPT ![i] = IF @ < 2 THEN @ + 1 ELSE 2]
                                ELSE rows
      /\ meta' = IF BlockOf[i] > last THEN BlockOf[i] ELSE meta
    BY DEF HandleLog, StatementOutcome
<1>2. /\ pc = "handle" /\ pc' = "handle"
      /\ i \in pending /\ \A j \in pending : i <= j
      /\ pending' = pending \ {i}
      /\ seed' = seed
    BY DEF HandleLog
<1>3. \A j \in Logs : rows'[j] >= rows[j] /\ rows[j] \in 0..2 /\ rows'[j] \in 0..2
    BY <1>1 DEF PollIInv, PollTypeOK
<1>4. Decodable[i] => rows'[i] >= 1
    BY <1>1 DEF PollIInv, PollTypeOK
\* A pending log is not below the one handled.
<1>5. \A j \in pending : BlockOf[i] <= BlockOf[j]
    BY <1>2 DEF PollIInv, PollTypeOK
<1>6. PollCursorSound'
    <2> SUFFICES ASSUME NEW j \in Logs, Decodable[j], seed <= BlockOf[j], BlockOf[j] < meta'
                 PROVE  rows'[j] >= 1
        BY <1>2 DEF PollCursorSound
    <2>1. CASE BlockOf[i] > last
        <3>1. BlockOf[j] < BlockOf[i]
            BY <1>1, <2>1
        <3>2. j \notin pending
            BY <1>5, <3>1
        <3>3. rows[j] >= 1
            BY <1>2, <3>1, <3>2 DEF PollIInv, HandledSound
        <3> QED
            BY <1>3, <3>3
    <2>2. CASE ~(BlockOf[i] > last)
        BY <1>1, <1>3, <2>2 DEF PollIInv, PollCursorSound
    <2> QED
        BY <2>1, <2>2
<1>7. HandledSound'
    <2> SUFFICES ASSUME NEW i2 \in pending', NEW j \in Logs \ pending',
                        Decodable[j], seed <= BlockOf[j], BlockOf[j] <= BlockOf[i2]
                 PROVE  rows'[j] >= 1
        BY <1>2 DEF HandledSound
    <2>1. CASE j = i
        BY <1>4, <2>1
    <2>2. CASE j # i /\ BlockOf[j] <= BlockOf[i]
        <3>1. j \notin pending
            BY <1>2, <2>2
        <3>2. rows[j] >= 1
            BY <1>2, <2>2, <3>1 DEF PollIInv, HandledSound
        <3> QED
            BY <1>3, <3>2
    <2>3. CASE j # i /\ ~(BlockOf[j] <= BlockOf[i])
        <3>1. BlockOf[i] < BlockOf[j] /\ i2 \in pending
            BY <1>2, <2>3
        <3>2. j \in pending
            BY <1>2, <3>1 DEF PollIInv, PendingInterval
        <3> QED
            BY <1>2, <2>3, <3>2
    <2> QED
        BY <2>1, <2>2, <2>3
<1>8. PendingInterval'
    <2> SUFFICES ASSUME NEW i1 \in pending', NEW k \in pending', NEW j \in Logs,
                        BlockOf[i1] < BlockOf[j], BlockOf[j] <= BlockOf[k]
                 PROVE  j \in pending'
        BY <1>2 DEF PendingInterval
    <2>1. j \in pending
        BY <1>2 DEF PollIInv, PendingInterval
    <2>2. j # i
        BY <1>2, <1>5 DEF PollIInv, PollTypeOK
    <2> QED
        BY <1>2, <2>1, <2>2
<1> QED
    BY <1>6, <1>7, <1>8

LEMMA PollIInvStep ==
    ASSUME ~DbFailures
    PROVE  PollIInv /\ [PollNext]_pollVars => PollIInv'
<1> SUFFICES ASSUME PollIInv, [PollNext]_pollVars PROVE PollIInv'
    OBVIOUS
<1>0. PollTypeOK'
    BY PollTypeStep DEF PollIInv
<1>1. CASE Begin
    BY <1>0, <1>1, BeginStep DEF PollIInv
<1>2. ASSUME NEW i \in Logs, HandleLog(i) PROVE PollIInv'
    BY <1>0, <1>2, HandleStep DEF PollIInv
<1>3. CASE EndBatch
    BY <1>0, <1>3 DEF EndBatch, PollIInv, PollCursorSound, HandledSound, PendingInterval
<1>4. CASE Skip \/ UNCHANGED pollVars
    BY <1>0, <1>4 DEF Skip, pollVars, PollIInv, PollCursorSound, HandledSound, PendingInterval
<1>5. CASE PollNewBlock
    BY <1>0, <1>5 DEF PollNewBlock, PollIInv, PollCursorSound, HandledSound, PendingInterval
<1>6. CASE WriteDeployJson
    BY <1>0, <1>6 DEF WriteDeployJson, PollIInv, PollCursorSound, HandledSound, PendingInterval
<1>7. CASE PollCrash
    BY <1>0, <1>7 DEF PollCrash, PollIInv, PollCursorSound, HandledSound, PendingInterval
<1> QED
    BY <1>1, <1>2, <1>3, <1>4, <1>5, <1>6, <1>7 DEF PollNext, PollStep

\* poll_loop's cursor: when its INSERTs and the meta UPDATE do not fail,
\* write_last_block never records a block that passes a log of the window
\* the loop last started from that has no row, across restarts and rescans.
THEOREM PollCursorSafety == ~DbFailures => (PollSpec => []PollCursorSound)
<1> SUFFICES ASSUME ~DbFailures PROVE PollSpec => []PollCursorSound
    OBVIOUS
<1>1. PollIInv => PollCursorSound
    BY DEF PollIInv
<1>2. PollIInv /\ [PollNext]_pollVars => PollIInv'
    BY PollIInvStep
<1> QED
    BY PollIInvInit, <1>1, <1>2, PTL DEF PollSpec

-----------------------------------------------------------------------------
(* The monotonic cursor.                                                   *)

LEMMA MonoInit == PollInit => CursorBelowPending
BY DEF PollInit, CursorBelowPending

\* Each step keeps CursorBelowPending and does not lower the cursor.
LEMMA MonoStep ==
    ASSUME ~DbFailures, PollTypeOK, CursorBelowPending, [PollNext]_pollVars
    PROVE  CursorBelowPending' /\ meta' >= meta
<1>1. CASE Begin
    <2>1. PICK readOk \in StatementOutcome, headOk \in BOOLEAN :
            last' = IF readOk THEN meta ELSE 0
        BY <1>1 DEF Begin
    <2>2. last' = meta /\ UNCHANGED meta
        BY <1>1, <2>1 DEF Begin, StatementOutcome
    <2> QED
        BY <2>2 DEF CursorBelowPending, PollTypeOK
<1>2. ASSUME NEW i \in Logs, HandleLog(i) PROVE CursorBelowPending' /\ meta' >= meta
    <2>1. /\ meta' = IF BlockOf[i] > last THEN BlockOf[i] ELSE meta
          /\ pc = "handle" /\ pc' = "handle" /\ last' = last
          /\ i \in pending /\ \A j \in pending : i <= j
          /\ pending' = pending \ {i}
        BY <1>2 DEF HandleLog, StatementOutcome
    <2>2. \A j \in pending : BlockOf[i] <= BlockOf[j]
        BY <2>1 DEF PollTypeOK
    <2>3. CASE BlockOf[i] > last
        <3>1. meta <= BlockOf[i]
            BY <2>1, <2>3 DEF CursorBelowPending, PollTypeOK
        <3> QED
            BY <2>1, <2>2, <2>3, <3>1 DEF CursorBelowPending, PollTypeOK
    <2>4. CASE ~(BlockOf[i] > last)
        BY <2>1, <2>4 DEF CursorBelowPending, PollTypeOK
    <2> QED
        BY <2>3, <2>4
<1>3. CASE EndBatch \/ Skip \/ UNCHANGED pollVars \/ PollNewBlock \/ WriteDeployJson \/ PollCrash
    BY <1>3 DEF EndBatch, Skip, pollVars, PollNewBlock, WriteDeployJson, PollCrash,
                CursorBelowPending, PollTypeOK
<1> QED
    BY <1>1, <1>2, <1>3 DEF PollNext, PollStep

\* poll_loop never moves meta.last_block backwards when its statements do
\* not fail: it writes a block only above the `last` it read, and the
\* logs of a batch come in block order.
THEOREM PollCursorMonotonicity == ~DbFailures => (PollSpec => PollCursorMonotonic)
<1> SUFFICES ASSUME ~DbFailures PROVE PollSpec => PollCursorMonotonic
    OBVIOUS
<1>1. PollTypeOK /\ CursorBelowPending /\ [PollNext]_pollVars
          => (PollTypeOK /\ CursorBelowPending)' /\ [meta' >= meta]_pollVars
    BY MonoStep, PollTypeStep
<1>2. PollInit => PollTypeOK /\ CursorBelowPending
    BY MonoInit DEF PollInit, PollTypeOK
<1> QED
    BY <1>1, <1>2, PTL DEF PollSpec, PollCursorMonotonic

=============================================================================

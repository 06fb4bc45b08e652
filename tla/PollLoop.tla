------------------------------ MODULE PollLoop ------------------------------
(***************************************************************************)
(* The indexer's raw JSON-RPC poll_loop (src/rust/indexer/src/main.rs).    *)
(* Its cursor is the `meta` row last_block (i64, '0' when never written):  *)
(*                                                                         *)
(*   loop: last = read_last_block; latest = eth_blockNumber (0 on error);  *)
(*         from = last == 0 ? latest - 3000 : last;  to = latest;          *)
(*         skip unless /state/deploy.json names an address;                *)
(*         eth_getLogs(hex(from), hex(to)); for each log: plain INSERT,    *)
(*         then write_last_block(bn) if bn > last.                         *)
(*                                                                         *)
(* The i64 `from` is formatted with {:x}: a negative value goes out as its *)
(* 64-bit two's complement, a block number above any head.  The rows of a  *)
(* log are counted up to 2 (none, one, duplicated).                        *)
(***************************************************************************)
EXTENDS Integers

CONSTANTS
    NumLogs,      \* logs the watched registries emit in the model
    BlockOf,      \* BlockOf[i]: block of log i
    Decodable,    \* Decodable[i]: its topic count passes the handler's check
    MaxHead,      \* the chain head never exceeds this block
    HeadAtBoot,   \* possible heads when the indexer boots
    Lookback,     \* 3000 blocks scanned behind the head while last_block = 0
    WordModulus,  \* 2^64: {:x} of a negative i64 is WordModulus + from
    MaxCrashes,   \* bound on process restarts
    DbFailures    \* whether an INSERT or the meta UPDATE can fail

Logs == 1..NumLogs

ASSUME PollConstantsAssumption ==
    /\ NumLogs \in Nat
    /\ BlockOf \in [Logs -> 0..MaxHead]
    /\ Decodable \in [Logs -> BOOLEAN]
    /\ MaxHead \in Nat /\ HeadAtBoot \subseteq 0..MaxHead /\ HeadAtBoot # {}
    /\ Lookback \in Nat /\ MaxCrashes \in Nat /\ DbFailures \in BOOLEAN
    /\ WordModulus \in Nat /\ WordModulus > MaxHead + Lookback

\* eth_getLogs returns the logs of a range in block order.
ASSUME LogOrderAssumption ==
    \A i, j \in Logs : i <= j => BlockOf[i] <= BlockOf[j]

VARIABLES
    head,      \* chain head
    deployed,  \* /state/deploy.json names at least one registry address
    meta,      \* meta.last_block
    pc,        \* "begin" (top of the loop) or "handle" (inside the for loop)
    last,      \* `last`, read at the top of the iteration
    pending,   \* logs of this eth_getLogs result not yet handled
    rows,      \* rows[i]: rows inserted for log i, counted 0, 1, 2 (= many)
    seed,      \* ghost: `from` of the last scan that started with last = 0
    crashes

pollVars == <<head, deployed, meta, pc, last, pending, rows, seed, crashes>>

PollTypeOK ==
    /\ head \in 0..MaxHead
    /\ deployed \in BOOLEAN
    /\ meta \in Nat
    /\ pc \in {"begin", "handle"}
    /\ last \in Nat
    /\ pending \subseteq Logs
    /\ rows \in [Logs -> 0..2]
    /\ seed \in -Lookback..MaxHead
    /\ crashes \in 0..MaxCrashes

\* The outcomes of one statement whose error is discarded.
StatementOutcome == IF DbFailures THEN BOOLEAN ELSE {TRUE}

\* format!("0x{:x}", n) for an i64 n, read back by the node as a block.
HexBlock(n) == IF n >= 0 THEN n ELSE WordModulus + n

\* Mutant: resume after the last handled block instead of rescanning it.
FromBlockNext(l, latest) == IF l = 0 THEN latest - Lookback ELSE l + 1

\* from: latest.saturating_sub(3000) on an i64 (it never saturates here),
\* or the last handled block, scanned again.
FromBlock(l, latest) == IF l = 0 THEN latest - Lookback ELSE l

PollInit ==
    /\ head \in HeadAtBoot
    /\ deployed \in BOOLEAN
    /\ meta = 0
    /\ pc = "begin"
    /\ last = 0
    /\ pending = {}
    /\ rows = [i \in Logs |-> 0]
    /\ seed = 0
    /\ crashes = 0

\* The top of the loop, up to a successful eth_getLogs: the logs of
\* [hex(from), to] become the batch.  A failing read_last_block yields 0,
\* and so does a failing eth_blockNumber.
Begin ==
    /\ pc = "begin"
    /\ deployed
    /\ \E readOk \in StatementOutcome, headOk \in BOOLEAN :
          LET l      == IF readOk THEN meta ELSE 0
              latest == IF headOk THEN head ELSE 0
              from   == HexBlock(FromBlock(l, latest))
              batch  == {i \in Logs : from <= BlockOf[i] /\ BlockOf[i] <= latest}
          IN  /\ pending' = batch
              /\ seed' = IF l = 0 THEN FromBlock(l, latest) ELSE seed
              /\ last' = l
    /\ pc' = "handle"
    /\ UNCHANGED <<head, deployed, meta, rows, crashes>>

\* deploy.json missing or empty, or eth_getLogs failing: sleep and loop.
Skip ==
    /\ pc = "begin"
    /\ UNCHANGED pollVars

\* Mutant: the cursor records the block after the log's.
HandleLogNextBlock(i) ==
    /\ pc = "handle"
    /\ i \in pending
    /\ \A j \in pending : i <= j
    /\ pending' = pending \ {i}
    /\ \E insertOk, writeOk \in StatementOutcome :
          /\ rows' = IF Decodable[i] /\ insertOk
                     THEN [rows EXCEPT ![i] = IF @ < 2 THEN @ + 1 ELSE 2]
                     ELSE rows
          /\ meta' = IF BlockOf[i] > last /\ writeOk THEN BlockOf[i] + 1 ELSE meta
    /\ UNCHANGED <<head, deployed, pc, last, seed, crashes>>

\* Mutant: the logs of a batch handled last to first.
HandleLogReversed(i) ==
    /\ pc = "handle"
    /\ i \in pending
    /\ \A j \in pending : i >= j
    /\ pending' = pending \ {i}
    /\ \E insertOk, writeOk \in StatementOutcome :
          /\ rows' = IF Decodable[i] /\ insertOk
                     THEN [rows EXCEPT ![i] = IF @ < 2 THEN @ + 1 ELSE 2]
                     ELSE rows
          /\ meta' = IF BlockOf[i] > last /\ writeOk THEN BlockOf[i] ELSE meta
    /\ UNCHANGED <<head, deployed, pc, last, seed, crashes>>

\* One log, in the order eth_getLogs returned them: the plain INSERT of its
\* kind (when the topic count matches), then the cursor if bn > last.
HandleLog(i) ==
    /\ pc = "handle"
    /\ i \in pending
    /\ \A j \in pending : i <= j
    /\ pending' = pending \ {i}
    /\ \E insertOk, writeOk \in StatementOutcome :
          /\ rows' = IF Decodable[i] /\ insertOk
                     THEN [rows EXCEPT ![i] = IF @ < 2 THEN @ + 1 ELSE 2]
                     ELSE rows
          /\ meta' = IF BlockOf[i] > last /\ writeOk THEN BlockOf[i] ELSE meta
    /\ UNCHANGED <<head, deployed, pc, last, seed, crashes>>

\* The for loop is over; sleep, back to the top.
EndBatch ==
    /\ pc = "handle"
    /\ pending = {}
    /\ pc' = "begin"
    /\ UNCHANGED <<head, deployed, meta, last, pending, rows, seed, crashes>>

PollNewBlock ==
    /\ head < MaxHead
    /\ head' = head + 1
    /\ UNCHANGED <<deployed, meta, pc, last, pending, rows, seed, crashes>>

\* The deployer writes /state/deploy.json; it is re-read every iteration.
WriteDeployJson ==
    /\ ~deployed
    /\ deployed' = TRUE
    /\ UNCHANGED <<head, meta, pc, last, pending, rows, seed, crashes>>

\* The process restarts; only the database survives.
PollCrash ==
    /\ crashes < MaxCrashes
    /\ crashes' = crashes + 1
    /\ pc' = "begin"
    /\ pending' = {}
    /\ UNCHANGED <<head, deployed, meta, last, rows, seed>>

PollStep == Begin \/ (\E i \in Logs : HandleLog(i)) \/ EndBatch

PollNext ==
    \/ PollStep
    \/ Skip
    \/ PollNewBlock \/ WriteDeployJson \/ PollCrash

\* The task loops forever; the node answers both calls infinitely often;
\* the deployer eventually writes deploy.json.
PollFairness ==
    /\ WF_pollVars(WriteDeployJson)
    /\ WF_pollVars(\E i \in Logs : HandleLog(i))
    /\ WF_pollVars(EndBatch)
    /\ SF_pollVars(Begin /\ pending' # {})

PollSpec == PollInit /\ [][PollNext]_pollVars /\ PollFairness

-----------------------------------------------------------------------------
(* Properties.                                                             *)

\* Safe cursor (spec 3, 8): last_block never passes a log at or after the
\* window the loop last started from that was not inserted, whatever the
\* restarts.
PollCursorSound ==
    \A i \in Logs :
        Decodable[i] /\ seed <= BlockOf[i] /\ BlockOf[i] < meta => rows[i] >= 1

\* Monotonic cursor (spec 8): no step moves meta.last_block backwards;
\* write_last_block(bn) runs only for bn > last, and the logs come in
\* block order.
PollCursorMonotonic == [][meta' >= meta]_pollVars

\* Progress (spec 4.1, 7): every log of the last Lookback blocks below the
\* head ends up in its table; on a chain younger than Lookback that is
\* every log (the spec's cold start is max(0, head - LOOKBACK)).
PollEventuallyIndexed ==
    <>[](\A i \in Logs :
            Decodable[i] /\ head - Lookback <= BlockOf[i] /\ BlockOf[i] < head
                => rows[i] >= 1)

=============================================================================

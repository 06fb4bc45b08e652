----------------------------- MODULE IngestLoop -----------------------------
(***************************************************************************)
(* The cursor-resumable log-polling loop of the indexer's ethers-based     *)
(* pipelines (src/rust/indexer/src/main.rs: governance_ingest_loop, and    *)
(* the identical upgrade_queue_ingest_loop and                            *)
(* exchange_registry_ingest_loop).  One task per pipeline:                 *)
(*                                                                         *)
(*   start : read the contract address file (return if missing), read the *)
(*           cursor file, or seed the cursor at head - LOOKBACK;           *)
(*   loop  : head = eth_blockNumber; skip unless head > from_block;        *)
(*           logs = eth_getLogs(from_block, head); handle every log;       *)
(*           from_block = head + 1; fs::write(cursor file, from_block).    *)
(*                                                                         *)
(* The chain is a fixed sequence of logs, log i sitting in block           *)
(* BlockOf[i], in the order eth_getLogs returns them.  What a handler does *)
(* with a log belongs to the pipeline: the module extending this one       *)
(* conjoins its table updates with HandleNext(i).                          *)
(*                                                                         *)
(* The environment: the head grows, the deployer may write the address    *)
(* file, and the process may crash and restart at any point (the tokio     *)
(* task is respawned by main with from_block = 0).                         *)
(***************************************************************************)
EXTENDS Naturals

CONSTANTS
    NumLogs,     \* number of logs the watched contract emits in the model
    BlockOf,     \* BlockOf[i]: block number of log i
    Decodable,   \* Decodable[i]: the handler's topic count and ABI decode succeed
    MaxHead,     \* the chain head never exceeds this block
    HeadAtBoot,  \* possible chain heads when the indexer first boots
    Lookback,    \* blocks scanned behind the head on a cold start (2000)
    MaxCrashes,  \* bound on process crashes/restarts
    AddrAtBoot,  \* possible values of "address file exists" at first boot
    TornWrites,  \* whether fs::write of the cursor file can leave it cut short
    Absent,      \* the cursor file does not exist
    Empty        \* the cursor file exists and is empty

Positions == 1..NumLogs

ASSUME NumLogsAssumption == NumLogs \in Nat
ASSUME BlockOfAssumption == BlockOf \in [Positions -> 0..MaxHead]
ASSUME DecodableAssumption == Decodable \in [Positions -> BOOLEAN]
ASSUME BoundsAssumption ==
    /\ MaxHead \in Nat
    /\ HeadAtBoot \subseteq 0..MaxHead /\ HeadAtBoot # {}
    /\ Lookback \in Nat
    /\ MaxCrashes \in Nat
ASSUME FlagsAssumption ==
    /\ AddrAtBoot \subseteq BOOLEAN /\ AddrAtBoot # {}
    /\ TornWrites \in BOOLEAN
ASSUME FileMarkersAssumption == Absent \notin Nat /\ Empty \notin Nat /\ Absent # Empty

VARIABLES
    head,        \* current chain head (eth_blockNumber)
    addr,        \* the contract address file exists
    cursorFile,  \* content of /state/indexer_<pipeline>_lastblock.txt
    pc,          \* where the task is: "start", "head", "logs", "handle", "stopped"
    fromBlock,   \* from_block, the task's in-memory cursor
    toBlock,     \* to_block of the current iteration
    pending,     \* logs of the current eth_getLogs result not yet handled
    seed,        \* ghost: the block the last genuine cold start seeded the cursor to
    crashes      \* number of crashes so far

loopVars == <<head, addr, cursorFile, pc, fromBlock, toBlock, pending, seed, crashes>>

FileValues == Nat \cup {Absent, Empty}
PCs == {"start", "head", "logs", "handle", "stopped"}

LoopTypeOK ==
    /\ head \in 0..MaxHead
    /\ addr \in BOOLEAN
    /\ cursorFile \in FileValues
    /\ pc \in PCs
    /\ fromBlock \in Nat
    /\ toBlock \in Nat
    /\ pending \subseteq Positions
    /\ seed \in Nat
    /\ crashes \in 0..MaxCrashes

\* Mutant: a plain subtraction in place of saturating_sub.
UnsaturatedSub(a, b) == a - b

\* head.saturating_sub(U64::from(2000u64))
SaturatingSub(a, b) == IF a >= b THEN a - b ELSE 0

\* p is what remains of the decimal text of n when a write of it is cut
\* short after at least one digit: n with its last k digits dropped.
IsDecimalPrefix(p, n) == \E k \in 1..n : n \div (10^k) = p

\* The cursor file after std::fs::write(last_path, n): the new value; the old
\* one if File::create fails; and, when the write is cut short by a crash or
\* a failing write_all after the truncating create, an empty file or a
\* proper prefix of the digits.
WriteOutcomes(n) ==
    {n, cursorFile} \cup
    (IF TornWrites THEN {Empty} \cup {p \in 1..n : p < n /\ IsDecimalPrefix(p, n)}
                   ELSE {})

LoopInit ==
    /\ head \in HeadAtBoot
    /\ addr \in AddrAtBoot
    /\ cursorFile = Absent
    /\ pc = "start"
    /\ fromBlock = 0
    /\ toBlock = 0
    /\ pending = {}
    /\ seed = 0
    /\ crashes = 0

(***************************************************************************)
(* Task start-up.                                                          *)
(***************************************************************************)

\* read_state_string(address file) is None: print and return; the task is
\* over until the process restarts.
StartNoAddress ==
    /\ pc = "start"
    /\ ~addr
    /\ pc' = "stopped"
    /\ UNCHANGED <<head, addr, cursorFile, fromBlock, toBlock, pending, seed, crashes>>

\* The cursor file holds a number: resume from it.
StartFromFile ==
    /\ pc = "start"
    /\ addr
    /\ cursorFile \in Nat
    /\ fromBlock' = cursorFile
    /\ pc' = "head"
    /\ UNCHANGED <<head, addr, cursorFile, toBlock, pending, seed, crashes>>

\* read_state_string filters out a missing and an empty file alike: seed the
\* cursor LOOKBACK blocks behind the head, or leave it at 0 when
\* get_block_number fails.  Only a missing file is a genuine first start.
ColdStart ==
    /\ pc = "start"
    /\ addr
    /\ cursorFile \in {Absent, Empty}
    /\ \E headOk \in BOOLEAN :
          fromBlock' = IF headOk THEN SaturatingSub(head, Lookback) ELSE 0
    /\ seed' = IF cursorFile = Absent THEN fromBlock' ELSE seed
    /\ pc' = "head"
    /\ UNCHANGED <<head, addr, cursorFile, toBlock, pending, crashes>>

(***************************************************************************)
(* One iteration of the loop.  A failing get_block_number, and a head not  *)
(* beyond from_block, sleep and continue with nothing changed: Idle.       *)
(***************************************************************************)

GetHead ==
    /\ pc = "head"
    /\ head > fromBlock
    /\ toBlock' = head
    /\ pc' = "logs"
    /\ UNCHANGED <<head, addr, cursorFile, fromBlock, pending, seed, crashes>>

Idle ==
    /\ pc = "head"
    /\ head <= fromBlock
    /\ UNCHANGED loopVars

\* Mutant: a filter that leaves out the to_block end of the range.
GetLogsOkExclusive ==
    /\ pc = "logs"
    /\ pending' = {i \in Positions : fromBlock <= BlockOf[i] /\ BlockOf[i] < toBlock}
    /\ pc' = "handle"
    /\ UNCHANGED <<head, addr, cursorFile, fromBlock, toBlock, seed, crashes>>

\* eth_getLogs over [from_block, to_block]: every log of those blocks.
GetLogsOk ==
    /\ pc = "logs"
    /\ pending' = {i \in Positions : fromBlock <= BlockOf[i] /\ BlockOf[i] <= toBlock}
    /\ pc' = "handle"
    /\ UNCHANGED <<head, addr, cursorFile, fromBlock, toBlock, seed, crashes>>

\* Mutant: a get_logs error that moves past the range it failed on.
GetLogsFailSkip ==
    /\ pc = "logs"
    /\ pc' = "head"
    /\ fromBlock' = toBlock + 1
    /\ UNCHANGED <<head, addr, cursorFile, toBlock, pending, seed, crashes>>

\* get_logs error: sleep and continue with the same from_block.
GetLogsFail ==
    /\ pc = "logs"
    /\ pc' = "head"
    /\ UNCHANGED <<head, addr, cursorFile, fromBlock, toBlock, pending, seed, crashes>>

\* Mutant: the logs handled last to first.
HandleNextReversed(i) ==
    /\ pc = "handle"
    /\ i \in pending
    /\ \A j \in pending : i >= j
    /\ pending' = pending \ {i}
    /\ UNCHANGED <<head, addr, cursorFile, pc, fromBlock, toBlock, seed, crashes>>

\* The loop variables' part of handling log i: the logs are handled in the
\* order eth_getLogs returned them.
HandleNext(i) ==
    /\ pc = "handle"
    /\ i \in pending
    /\ \A j \in pending : i <= j
    /\ pending' = pending \ {i}
    /\ UNCHANGED <<head, addr, cursorFile, pc, fromBlock, toBlock, seed, crashes>>

\* Mutant: the cursor written from a head read after the logs were fetched.
AdvanceToHead ==
    /\ pc = "handle"
    /\ pending = {}
    /\ fromBlock' = toBlock + 1
    /\ cursorFile' \in WriteOutcomes(head + 1)
    /\ pc' = "head"
    /\ UNCHANGED <<head, addr, toBlock, pending, seed, crashes>>

\* After the for loop, whatever the handlers returned: from_block = to + 1
\* and the cursor file is rewritten, its error ignored.
Advance ==
    /\ pc = "handle"
    /\ pending = {}
    /\ fromBlock' = toBlock + 1
    /\ cursorFile' \in WriteOutcomes(toBlock + 1)
    /\ pc' = "head"
    /\ UNCHANGED <<head, addr, toBlock, pending, seed, crashes>>

(***************************************************************************)
(* Environment.                                                            *)
(***************************************************************************)

NewBlock ==
    /\ head < MaxHead
    /\ head' = head + 1
    /\ UNCHANGED <<addr, cursorFile, pc, fromBlock, toBlock, pending, seed, crashes>>

DeployAddress ==
    /\ ~addr
    /\ addr' = TRUE
    /\ UNCHANGED <<head, cursorFile, pc, fromBlock, toBlock, pending, seed, crashes>>

\* The process dies; main respawns the task, whose from_block starts at 0.
Crash ==
    /\ crashes < MaxCrashes
    /\ crashes' = crashes + 1
    /\ pc' = "start"
    /\ fromBlock' = 0
    /\ toBlock' = 0
    /\ pending' = {}
    /\ UNCHANGED <<head, addr, cursorFile, seed>>

=============================================================================

---------------------------- MODULE IndexedCursor ----------------------------
(***************************************************************************)
(* What a cursor-resumable indexer promises (spec 3, 8), with no RPC,      *)
(* crash or handler in sight: the store only gains projected logs, the     *)
(* persisted cursor only moves forward, and it is only ever set to a block *)
(* below which every indexable log is already projected.  Until a cursor   *)
(* is persisted the pipeline may (re)choose the block it starts from.      *)
(*                                                                         *)
(* GovernanceIngest refines this module (CursorSpec there): cursor is the  *)
(* cursor file, indexed the logs whose rows are in the tables, seed the    *)
(* block of the last genuine cold start.                                   *)
(***************************************************************************)
EXTENDS Naturals

CONSTANTS
    Logs,       \* the contract's logs
    BlockOf,    \* BlockOf[i]: block of log i
    Decodable,  \* Decodable[i]: log i can be decoded
    Absent      \* no cursor persisted yet

VARIABLES
    cursor,     \* the persisted cursor: Absent or the next block to scan
    indexed,    \* the logs whose effect is in the store
    seed        \* the first block the pipeline promises to cover

cursorVars == <<cursor, indexed, seed>>

\* Every indexable log of a block below c is in the store.
Covered(c) ==
    \A i \in Logs : Decodable[i] /\ seed <= BlockOf[i] /\ BlockOf[i] < c => i \in indexed

Init ==
    /\ cursor = Absent
    /\ indexed = {}
    /\ seed = 0

\* Logs are projected, in any number; nothing is ever taken out.
Index ==
    /\ indexed \subseteq indexed'
    /\ indexed' \subseteq Logs
    /\ UNCHANGED <<cursor, seed>>

\* The cursor is persisted anew: forward only, and past covered blocks only.
Commit ==
    /\ cursor' \in Nat
    /\ cursor \in Nat => cursor <= cursor'
    /\ Covered(cursor')
    /\ UNCHANGED <<indexed, seed>>

\* With no cursor persisted, the pipeline picks the block it starts from.
Reseed ==
    /\ cursor = Absent
    /\ seed' \in Nat
    /\ UNCHANGED <<cursor, indexed>>

Next == Index \/ Commit \/ Reseed

Spec == Init /\ [][Next]_cursorVars

=============================================================================

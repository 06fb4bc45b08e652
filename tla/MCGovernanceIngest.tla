------------------------- MODULE MCGovernanceIngest -------------------------
(***************************************************************************)
(* A small chain for the governance pipeline: two proposals, one with a   *)
(* release-batch key, each created and then finalized over blocks 0..2,   *)
(* the last log undecodable.                                               *)
(***************************************************************************)
EXTENDS GovernanceIngest

CONSTANTS p1, p2, k1, k2, v1

\* block of each log, in eth_getLogs order
MCBlockOf == <<0, 1, 2, 2>>

MCDecodable == <<TRUE, TRUE, TRUE, FALSE>>

MCEvent ==
    << [kind |-> "created",   id |-> p1, key |-> k1, value |-> v1, passed |-> FALSE, auto |-> FALSE],
       [kind |-> "created",   id |-> p2, key |-> k2, value |-> v1, passed |-> FALSE, auto |-> FALSE],
       [kind |-> "finalized", id |-> p1, key |-> k1, value |-> v1, passed |-> TRUE,  auto |-> FALSE],
       [kind |-> "finalized", id |-> p2, key |-> k2, value |-> v1, passed |-> FALSE, auto |-> FALSE] >>

=============================================================================

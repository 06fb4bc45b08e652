----------------------------- MODULE MCPollLoop -----------------------------
(* poll_loop on four logs: blocks 1, 2, 2, 3, the last one with a topic    *)
(* count its handler rejects.                                              *)
EXTENDS PollLoop

MCBlockOf == <<1, 2, 2, 3>>
MCDecodable == <<TRUE, TRUE, TRUE, FALSE>>
=============================================================================

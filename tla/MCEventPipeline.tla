-------------------------- MODULE MCEventPipeline --------------------------
(* Instances of EventPipeline: the chain of the conversion programs, cut   *)
(* down to a few stages, blocks and threads.                               *)
EXTENDS EventPipeline, TLC

CONSTANTS g1, g2, g3, w1

MCPools == {"global", "single"}
MCCrew == ("global" :> {g1, g2, g3}) @@ ("single" :> {w1})
MCJobs == Stage \X Block

============================================================================

-------------------------- MODULE MCSlashPipeline --------------------------
(* Instances of SlashPipeline for TLC: what each is for is in its .cfg.    *)
EXTENDS SlashPipeline

(* The two ends of the schedule: 1% and, at the cap, 10%. *)
MCPenalty == [OUTLIER_SUBMISSION |-> 100, CONSECUTIVE_MISSES |-> 1000]
=============================================================================

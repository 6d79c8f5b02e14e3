---------------------------- MODULE MCPagedLive ----------------------------
(***************************************************************************)
(* PagedScheduler for the liveness check, in both of its configurations:   *)
(* --recompute-recovery is fixed when the server starts, so it is a        *)
(* variable here that is chosen once.  Each configuration has the requests *)
(* that make it hard: two prompt lengths that compete for the pool without *)
(* recovery, budgets that outgrow the pool together with it.               *)
(***************************************************************************)
EXTENDS Naturals

CONSTANTS Requests, NumPages, PageSize, PrefillBudget

VARIABLES recovery,     \* engine.recompute_recovery
          free, refcount,
          asked, status, numInput, numOutput, maxNew, kv, stream,
          waiting, running, runningFlag, totalFinished, totalGenerated,
          pc, toPrefill, packedTokens, evictionsLeft, batch, stillRunning,
          arrivals, failures

Wait == INSTANCE PagedScheduler WITH
            RecomputeRecovery <- FALSE, MaxRunning <- 2,
            PromptLens <- {1, 3}, MaxNews <- {1, 4},
            ScratchPages <- 0, MaxFailures <- 0

Recover == INSTANCE PagedScheduler WITH
            RecomputeRecovery <- TRUE, MaxRunning <- 3,
            PromptLens <- {1}, MaxNews <- {2, 3, 4},
            ScratchPages <- 0, MaxFailures <- 0

allVars == <<recovery, Wait!vars>>

Init == \/ recovery = FALSE /\ Wait!Init
        \/ recovery = TRUE /\ Recover!Init

Next == /\ \/ ~ recovery /\ Wait!Next
           \/ recovery /\ Recover!Next
        /\ UNCHANGED recovery

SchedulerStep == \/ ~ recovery /\ Wait!SchedulerStep
                 \/ recovery /\ Recover!SchedulerStep

\* The fairness of PagedScheduler, in whichever configuration runs.
FairSpec == /\ Init /\ [][Next]_allVars
            /\ WF_allVars(Wait!Start /\ UNCHANGED recovery)
            /\ WF_allVars(SchedulerStep /\ UNCHANGED recovery)

\* Every request that is added gets its end mark, unless the server is stopped,
\* with recovery and without: nothing starves it (PagedScheduler).
EveryRequestFinishes == Wait!EveryRequestFinishes

=============================================================================

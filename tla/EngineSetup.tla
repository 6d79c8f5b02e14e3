---------------------------- MODULE EngineSetup ----------------------------
(***************************************************************************)
(* From a bucket ladder to a serving engine.  The ladder of BucketGrid is  *)
(* passed on with --cuda-graph-batch-sizes; Engine.__init__ fills the      *)
(* rotary tables (miniengine/engine.py, RotaryEmbedding of model.py) and   *)
(* has CudaGraphRunner capture, which binds the tables it finds for good;  *)
(* then forward passes with larger and larger positions arrive, eager ones *)
(* and replays, which the runner counts by bucket.                         *)
(*                                                                         *)
(* The device is a CUDA device: an index past the end of a table is a      *)
(* device-side assertion, after which nothing works any more.              *)
(***************************************************************************)
EXTENDS BucketGrid

CONSTANTS
    RopeCaps,       \* values of --rope-cache-cap, 0 = dynamic growth
    ModelLimits,    \* values of the model's max_position_embeddings
    RunnerCap,      \* rope_cache_cap of CudaGraphRunner, DEFAULT_ROPE_CAP
    FirstTable,     \* the least length of a table that grows on demand, 256
    MaxPosition,    \* the last position that a request of a client reaches
    MaxReplays      \* bound on the replays

ASSUME SetupAssumption ==
    /\ RopeCaps \subseteq Nat /\ ModelLimits \subseteq Nat \ {0}
    /\ RunnerCap \in Nat \ {0} /\ FirstTable \in Nat \ {0}
    /\ MaxPosition \in Nat /\ MaxReplays \in Nat

VARIABLES
    stage,          \* "ladder", "prepopulated", "serving", "failed" at start-up, "broken"
    ropeCap, modelLimit, cudaGraph,     \* the command line and the model
    cachedLen,      \* _cached_len, the length of the tables _cos and _sin
    staticCap,      \* _static_cap
    bound,          \* the length of the tables static_forward is bound to, 0: not patched
    replayCount, replayLiveSum,         \* _replay_count, _replay_live_sum
    brokenBy        \* the forward pass that broke the device

flags == <<ropeCap, modelLimit, cudaGraph>>
rotaryVars == <<cachedLen, staticCap, bound>>
statVars == <<replayCount, replayLiveSum>>
setupVars == <<vars, stage, flags, rotaryVars, statVars, brokenBy>>

NoForward == [kind |-> "none", position |-> 0]

SetupInit ==
    /\ Init
    /\ stage = "ladder"
    /\ ropeCap = 0 /\ modelLimit = 0 /\ cudaGraph = FALSE
    /\ cachedLen = 0 /\ staticCap = 0 /\ bound = 0
    /\ replayCount = [b \in Buckets |-> 0] /\ replayLiveSum = replayCount
    /\ brokenBy = NoForward

AtMost(n, high) == IF n > high THEN high ELSE n

----------------------------------------------------------------------------
\* The ladder is computed beforehand.

ComputeLadder == /\ Next
                 /\ UNCHANGED <<stage, flags, rotaryVars, statVars, brokenBy>>

\* prepopulate: grow to the length, or keep a longer table; growth is locked.
Prepopulate(length) ==
    /\ cachedLen' = AtLeast(cachedLen, length)
    /\ staticCap' = IF length <= cachedLen THEN AtLeast(staticCap, length) ELSE length
    /\ UNCHANGED bound

\* Slip: the model's own limit is not applied.
Unclipped(cap, limit) == cap

Clipped(cap, limit) == AtMost(cap, limit)

\* Engine.__init__ up to the runner.
Start(cap, limit, graph) ==
    /\ stage = "ladder" /\ returned
    /\ ropeCap' = cap /\ modelLimit' = limit /\ cudaGraph' = graph
    /\ IF cap > 0 THEN Prepopulate(Clipped(cap, limit)) ELSE UNCHANGED rotaryVars
    /\ replayCount' = [b \in Buckets |-> 0] /\ replayLiveSum' = replayCount'
    /\ stage' = IF graph THEN "prepopulated" ELSE "serving"
    /\ UNCHANGED <<vars, brokenBy>>

----------------------------------------------------------------------------
\* RotaryEmbedding.forward.

\* The length of the tables when a forward pass with this highest position indexes
\* them: static_forward and a static cap leave them as they are.
TableFor(position) ==
    IF bound > 0 THEN bound
    ELSE IF staticCap > 0 \/ position < cachedLen THEN cachedLen
    ELSE AtLeast(AtLeast(position + 1, 2 * cachedLen), FirstTable)

InTable(position) == position < TableFor(position)

\* _prepare_rotary_for_capture: one forward pass at the last position the graphs may
\* use, then forward is replaced by an indexing of the tables there are.
Capture ==
    /\ stage = "prepopulated"
    /\ IF InTable(RunnerCap - 1)
       THEN /\ cachedLen' = TableFor(RunnerCap - 1)
            /\ bound' = cachedLen'
            /\ stage' = "serving"
       ELSE /\ stage' = "failed"
            /\ UNCHANGED <<cachedLen, bound>>
    /\ UNCHANGED <<vars, flags, staticCap, statVars, brokenBy>>

\* The model runs with these positions, or the device is broken for good.
Run(kind, position) ==
    IF InTable(position)
    THEN /\ cachedLen' = IF bound > 0 THEN cachedLen ELSE TableFor(position)
         /\ UNCHANGED <<stage, brokenBy>>
    ELSE /\ stage' = "broken"
         /\ brokenBy' = [kind |-> kind, position |-> position]
         /\ UNCHANGED cachedLen

----------------------------------------------------------------------------
\* Serving.

\* Slip: the cap itself is let through.
CoversCapItself(live, position) == bound > 0 /\ live <= maxB /\ position <= RunnerCap

Covers(live, position) == bound > 0 /\ live <= maxB /\ position < RunnerCap

\* A prefill, a decode without graphs, or one that they do not cover.
EagerForward(position) ==
    /\ stage = "serving"
    /\ Run("eager", position)
    /\ UNCHANGED <<vars, flags, staticCap, bound, statVars>>

\* Slip: the live rows of the replay are not added up.
CountReplay(b, live) == replayCount' = [replayCount EXCEPT ![b] = @ + 1] /\ UNCHANGED replayLiveSum

Count(b, live) == /\ replayCount' = [replayCount EXCEPT ![b] = @ + 1]
                  /\ replayLiveSum' = [replayLiveSum EXCEPT ![b] = @ + live]

Replays == LET total[S \in SUBSET Buckets] ==
                 IF S = {} THEN 0 ELSE LET b == CHOOSE b \in S : TRUE
                                       IN  replayCount[b] + total[S \ {b}]
           IN  total[Buckets]

Replay(live, position) ==
    /\ stage = "serving" /\ Covers(live, position)
    /\ Replays < MaxReplays
    /\ Run("replay", position)
    /\ Count(BucketFor(live, Buckets), live)
    /\ UNCHANGED <<vars, flags, staticCap, bound>>

SetupNext ==
    \/ ComputeLadder
    \/ \E cap \in RopeCaps, limit \in ModelLimits, graph \in BOOLEAN : Start(cap, limit, graph)
    \/ Capture
    \/ \E position \in 0 .. MaxPosition : \/ EagerForward(position)
                                          \/ \E live \in 1 .. maxB : Replay(live, position)

SetupSpec == SetupInit /\ [][SetupNext]_setupVars

----------------------------------------------------------------------------
\* The length below which the flags promise that positions work, if there is one:
\* the clipped cap, or what the capture reserved.
Promised == IF ropeCap > 0 THEN AtMost(ropeCap, modelLimit) ELSE RunnerCap

Limited == ropeCap > 0 \/ cudaGraph

\* The rotary tables break a forward pass only past the promised length, never where
\* they grow on demand, and never in a replay, since covers() and the capture agree
\* on one cap (model.py, "callers must guarantee positions stay below length"); the
\* start-up fails only where the promised length is below the runner's cap.
TablesReachPromise ==
    /\ stage = "broken" => /\ Limited /\ brokenBy.position >= Promised
                           /\ brokenBy.kind = "eager"
    /\ stage = "failed" => cudaGraph /\ Promised < RunnerCap

\* The dummy rows in the replays of a bucket, (1 - fill) of padding_stats.
DummyRows(b) == replayCount[b] * b - replayLiveSum[b]

\* What padding_stats reports fits the ladder.  A replay is counted for the bucket it
\* filled: live rows are no more than the bucket's rows, nor fewer than what a bucket of
\* the ladder tolerates.  Nothing is promised of the first bucket of a ladder that
\* starts above one, where smaller batches go, but a live row in each replay.
MeasuredWasteBounded ==
    \A b \in DOMAIN replayCount :
        /\ replayLiveSum[b] <= replayCount[b] * b
        /\ replayCount[b] <= replayLiveSum[b]
        /\ b > minB \/ minB = 1 =>
              DummyRows(b) * 100 <= maxWaste * replayCount[b] * b

\* With --rope-cache-cap 0 the tables keep growing with the positions (__main__.py on
\* the option, "0 = keep dynamic growth"): no position breaks the engine.
ZeroKeepsGrowth == ropeCap = 0 => stage # "broken"

=============================================================================

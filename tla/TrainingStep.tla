---------------------------- MODULE TrainingStep ----------------------------
(***************************************************************************)
(* RayPPOTrainer.fit (verl/trainer/ppo/ray_trainer.py), one worker call    *)
(* after the other: the batch of TrainingBatch on its way through the      *)
(* methods of Workers.  The rollout is a number of generate_sequences      *)
(* calls with any batch of rows as its result (Rollout models it), saving  *)
(* is what it does to the workers (Checkpoint models the rest).            *)
(***************************************************************************)
EXTENDS Workers, TrainingBatch

CONSTANTS
    Batches,            \* the batches of rows a rollout may return
    NumPrompts,         \* prompts of one generate_sequences call
    MaxTurns,           \* ... and such calls in one rollout
    SimilarityModes,    \* values of algorithm.gigpo.enable_similarity
    UseCritic,
    CriticWarmup, TestFreq, SaveFreq, TotalSteps  \* of the trainer

ASSUME TrainerAssumption ==
    /\ {NumPrompts, MaxTurns, TotalSteps} \subseteq Nat \ {0}
    /\ {CriticWarmup, TestFreq, SaveFreq} \subseteq Int

(* What gather_rollout_data returns: at least one row, and the rows of a
   trajectory in the order of its turns, which their steps count. *)
ASSUME BatchesAssumption ==
    \A b \in Batches :
        /\ b # <<>> /\ b \in Seq(ToSet(b))
        /\ \A i \in DOMAIN b :
               /\ DOMAIN b[i] = {"traj", "step", "uid", "obs", "reward", "valid", "len"}
               /\ b[i].reward \in Int /\ b[i].len \in Nat \ {0}
               /\ b[i].step = Cardinality({ j \in 1 .. i : b[j].traj = b[i].traj })
(* rearrange_micro_batches asserts that no row exceeds a micro batch. *)
ASSUME SequencesFitAssumption ==
    UseDynamicBsz => \A b \in Batches : \A i \in DOMAIN b : b[i].len <= MaxTokenLen

VARIABLES
    pc,             \* the line of fit
    global_steps,
    turn,           \* of the rollout
    answers,        \* of the last generate_sequences call
    collected,      \* the rows as they came from the rollout
    batch,          \* the rows that are trained on
    future,         \* of compute_reward_async
    entropys,       \* returned by the last compute_log_prob
    trained         \* the batches of the last update, on every rank

driverVars == <<pc, global_steps, turn, answers, collected, batch, future, entropys, trained>>
vars == <<workerVars, driverVars>>

NoFuture == [done |-> FALSE, scores |-> <<>>]
NothingTrained == [r \in Ranks |-> <<>>]

Init ==
    /\ WorkersInit
    /\ pc \in {"load_actor", "validate", "next"}    \* with a checkpoint, or without
    /\ global_steps = 0
    /\ turn = 1
    /\ answers = <<>>
    /\ collected = <<>>
    /\ batch = <<>>
    /\ future = NoFuture
    /\ entropys = <<>>
    /\ trained = NothingTrained

-----------------------------------------------------------------------------
(* The lines of fit.  Those of an iteration come after "next". *)
Lines == <<"load_actor", "load_critic", "validate", "next",
           "rollout", "prepare", "compute_log_prob", "compute_ref_log_prob",
           "compute_values", "advantage", "update_critic", "update_actor",
           "test", "save_actor", "save_critic", "next">>
CriticLines == {"load_critic", "compute_values", "update_critic", "save_critic"}

IsPastLastStep == global_steps > TotalSteps                    \* mutant
IsLastStep == global_steps >= TotalSteps
Due(freq) == freq > 0 /\ (IsLastStep \/ global_steps % freq = 0)
Needed(line) ==
    /\ line \in CriticLines => UseCritic
    /\ line = "compute_ref_log_prob" => UseKl
    /\ line = "update_actor" => CriticWarmup <= global_steps
    /\ line = "test" => Due(TestFreq)
    /\ line \in {"save_actor", "save_critic"} => Due(SaveFreq)

NextLine ==
    LET here == CHOOSE i \in DOMAIN Lines : Lines[i] = pc
        later == { i \in DOMAIN Lines : i > here /\ Needed(Lines[i]) }
    IN  Lines[CHOOSE i \in later : \A j \in later : i <= j]

(* Whether to validate before the training (val_before_train), and whether to do
   no more than that (val_only), is up to the config. *)
Following ==
    {NextLine} \cup (IF NextLine = "validate" THEN {"next"} ELSE {})
               \cup (IF pc = "validate" THEN {"done"} ELSE {})

MethodAt(line) == IF line \in {"validate", "rollout", "test"} THEN "generate_sequences" ELSE line

(* A call of the worker group: the workers get ready, compute, clear up. *)
Call ==
    /\ MethodAt(pc) \in Methods
    /\ Begin(MethodAt(pc))
    /\ UNCHANGED driverVars

Generate ==
    /\ MethodAt(pc) = "generate_sequences"
    /\ Run("generate_sequences")
    /\ answers' = Answers([i \in 1 .. NumPrompts |-> i], engine.weights)
    /\ UNCHANGED <<pc, global_steps, turn, collected, batch, future, entropys, trained>>

ComputeLogProb ==
    /\ pc = "compute_log_prob"
    /\ Run(pc)
    /\ batch' = WithColumn(batch, "old_log_probs", Forward(batch, LogProbMicro, updates["actor"]))
    /\ entropys' = Entropies(batch, LogProbMicro, updates["actor"])
    /\ UNCHANGED <<pc, global_steps, turn, answers, collected, future, trained>>

ComputeRefLogProb ==
    /\ pc = "compute_ref_log_prob"
    /\ Run(pc)
    /\ batch' = WithColumn(batch, "ref_log_prob", Forward(batch, RefMicro, 0))
    /\ UNCHANGED <<pc, global_steps, turn, answers, collected, future, entropys, trained>>

ComputeValues ==
    /\ pc = "compute_values"
    /\ Run(pc)
    /\ batch' = WithColumn(batch, "values", Forward(batch, CriticMicro, updates["critic"]))
    /\ UNCHANGED <<pc, global_steps, turn, answers, collected, future, entropys, trained>>

Update ==
    /\ pc \in UpdateMethods
    /\ Run(pc)
    /\ trained' = MiniBatches(batch, IF pc = "update_actor" THEN ActorMicro ELSE CriticMicro)
    /\ UNCHANGED <<pc, global_steps, turn, answers, collected, batch, future, entropys>>

LoadOrSave ==
    /\ pc \in LoadMethods \cup {"save_actor", "save_critic"}
    /\ Run(pc)
    /\ UNCHANGED driverVars

(* The workers are done: on to the next line, or to the next turn, for which
   the environments have new prompts. *)
Return ==
    /\ MethodAt(pc) \in Methods
    /\ End(MethodAt(pc))
    /\ \/ /\ pc' \in Following
          /\ IF pc = "rollout"
             THEN \E b \in Batches : collected' =
                      WithColumn(b, "generated_by", [i \in DOMAIN b |-> answers[1].weights])
             ELSE UNCHANGED collected
          /\ turn' = 1
       \/ /\ pc = "rollout"
          /\ turn < MaxTurns
          /\ turn' = turn + 1
          /\ UNCHANGED <<pc, collected>>
    /\ UNCHANGED <<global_steps, answers, batch, future, entropys, trained>>

-----------------------------------------------------------------------------
(* Between the rollout and the first worker call: returns, adjust_batch,
   _balance_batch, and the start of compute_reward_async. *)
EpisodeReward(row) ==
    LET sum[i \in 0 .. Len(collected)] ==
            IF i = 0 THEN 0
            ELSE IF collected[i].traj = row.traj THEN sum[i - 1] + collected[i].reward
            ELSE sum[i - 1]
    IN  sum[Len(collected)]
Scores(rows) ==
    [i \in DOMAIN rows |-> [of |-> Name(rows[i]), value |-> EpisodeReward(rows[i])]]

Prepare ==
    /\ pc = "prepare"
    /\ ToAdd(Len(collected)) <= Len(collected)
    /\ \E dup_indices \in DistinctChoices(Len(collected), ToAdd(Len(collected))) :
           LET rows == Prepared(collected, dup_indices)
           IN  batch' = IF BalanceBatch THEN Balanced(rows) ELSE rows
    /\ future' = [done |-> FALSE, scores |-> Scores(batch')]
    /\ pc' = NextLine
    /\ UNCHANGED <<workerVars, global_steps, turn, answers, collected, entropys, trained>>

(* More copies are needed than there are rows: choice(replace=False) raises. *)
PrepareFails ==
    /\ pc = "prepare"
    /\ ToAdd(Len(collected)) > Len(collected)
    /\ pc' = "failed"
    /\ UNCHANGED <<workerVars, global_steps, turn, answers, collected, batch, future,
                   entropys, trained>>

RewardDone ==
    /\ future # NoFuture
    /\ ~future.done
    /\ future' = [future EXCEPT !.done = TRUE]
    /\ UNCHANGED <<workerVars, pc, global_steps, turn, answers, collected, batch,
                   entropys, trained>>

(* ray.get(future_reward), the penalty, the groups of compute_advantage. *)
Advantage ==
    /\ pc = "advantage"
    /\ future.done
    /\ \E enable_similarity \in SimilarityModes :
           LET scored == WithColumn(batch, "token_level_scores", [i \in DOMAIN batch |->
                             [future.scores[i] EXCEPT !.value = @ - Penalty(batch[i])]])
               penalised == WithColumn(scored, "step_rewards", [i \in DOMAIN batch |->
                                batch[i].step_rewards - Penalty(batch[i])])
               grouped == WithColumn(penalised, "step_group",
                                     StepGroups(batch, enable_similarity))
           IN  batch' = WithColumn(grouped, "by_similarity",
                                   [i \in DOMAIN batch |-> enable_similarity])
    /\ future' = NoFuture
    /\ pc' = NextLine
    /\ UNCHANGED <<workerVars, global_steps, turn, answers, collected, entropys, trained>>

(* Also the line before the first iteration. *)
NextIteration ==
    /\ pc = "next"
    /\ pc' = IF IsLastStep THEN "done" ELSE "rollout"
    /\ global_steps' = IF IsLastStep THEN global_steps ELSE global_steps + 1
    /\ collected' = <<>>
    /\ batch' = <<>>
    /\ entropys' = <<>>
    /\ trained' = NothingTrained
    /\ UNCHANGED <<workerVars, turn, answers, future>>

Stopped == pc \in {"done", "failed"} /\ UNCHANGED vars

Next ==
    \/ Call \/ Generate \/ ComputeLogProb \/ ComputeRefLogProb \/ ComputeValues
    \/ Update \/ LoadOrSave \/ Return
    \/ Prepare \/ PrepareFails \/ RewardDone \/ Advantage
    \/ NextIteration \/ Stopped

Spec == Init /\ [][Next]_vars

-----------------------------------------------------------------------------
TypeOK ==
    /\ WorkersTypeOK
    /\ pc \in ToSet(Lines) \cup {"done", "failed"}
    /\ method # "none" => method = MethodAt(pc)
    /\ global_steps \in 0 .. TotalSteps
    /\ turn \in 1 .. MaxTurns
    /\ future.done \in BOOLEAN

Has(column) == batch # <<>> /\ column \in DOMAIN batch[1]

(* However often rows were padded, chunked, gathered, sorted into micro
   batches and put back, what is computed from a row comes back to it. *)
ColumnsAlign ==
    /\ \A i \in DOMAIN answers : answers[i].to = i
    /\ \A column \in {"old_log_probs", "ref_log_prob", "values", "token_level_scores"} :
           Has(column) => \A i \in DOMAIN batch : batch[i][column].of = Name(batch[i])

(* The return of a step is that of its own trajectory as it was played, less
   the penalty, once, although the batch has copies and another order. *)
PlayedReturn(rows, row) ==
    LET steps == { i \in DOMAIN rows : rows[i].traj = row.traj }
        ret[s \in 1 .. Cardinality(steps) + 1] ==
            IF s > Cardinality(steps) THEN 0
            ELSE rows[CHOOSE i \in steps : rows[i].step = s].reward + Gamma * ret[s + 1]
    IN  ret[row.step]
ReturnsFitTheirRows ==
    \A i \in DOMAIN batch :
        batch[i].step_rewards =
            PlayedReturn(collected, batch[i]) - (IF Has("step_group") THEN Penalty(batch[i]) ELSE 0)

(* Every turn that was played is trained on, at most once more as a copy. *)
TimesIn(rows, name) == Cardinality({ i \in DOMAIN rows : Name(rows[i]) = name })
TrainedRows ==
    Collected([r \in Ranks |-> FlattenSeq([m \in DOMAIN trained[r] |-> FlattenSeq(trained[r][m])])],
              WorldSize)
EveryRowIsTrained ==
    trained # NothingTrained =>
        \A i \in DOMAIN collected :
            LET times == TimesIn(TrainedRows, Name(collected[i]))
            IN  times \in {1, 2} /\ times = TimesIn(batch, Name(collected[i]))

(* Every forward and backward pass is collective: a rank with more micro
   batches than the others would wait for them without end. *)
RanksInStep ==
    \A q, r \in Ranks :
        /\ Len(trained[q]) = Len(trained[r])
        /\ \A m \in DOMAIN trained[q] :
               /\ Len(trained[q][m]) = Len(trained[r][m])
               /\ \A b \in DOMAIN trained[q][m] : trained[q][m][b] # <<>>

(* The differencing method leaves micro batches that differ by no more than
   one row, so that none holds more than MaxTokenLen and one row. *)
MicroBatchesAreLight ==
    (pc = "compute_log_prob" /\ UseDynamicBsz) =>
        LET chunks == Chunks(batch, WorldSize)
            micros == MicroBatches(chunks, LogProbMicro)
        IN  \A r \in Ranks :
                LET rows == chunks[r]
                    micro == micros[r]
                IN  \A b \in DOMAIN micro :
                        LET tokens == Total(LensOf(Reordered(rows, micro[b])))
                        IN  \E i \in DOMAIN rows : tokens <= MaxTokenLen + rows[i].len

(* A group of steps compares rows of one prompt that are similar to its first
   row.  Rows of a prompt with the same observation, a row and its copies among
   them, are in the same group in whatever order copying and balancing left
   them, and no two groups of a prompt have first rows that should have been
   together. *)
GroupsOfOnePrompt ==
    Has("step_group") =>
        \A i \in DOMAIN batch :
            LET first == batch[batch[i].step_group]
                Alike(a, b) == IF batch[i].by_similarity THEN AreSimilar(a, b) ELSE a = b
            IN  /\ first.uid = batch[i].uid
                /\ Alike(batch[i].obs, first.obs)
                /\ \A j \in DOMAIN batch :
                       /\ (batch[i].uid = batch[j].uid /\ batch[i].obs = batch[j].obs) =>
                              batch[i].step_group = batch[j].step_group
                       /\ (batch[i].step_group = i /\ batch[j].step_group = j /\ j < i
                            /\ batch[i].uid = batch[j].uid) => ~Alike(batch[i].obs, batch[j].obs)

(* The log probabilities that the updates start from are those of the very
   weights that generated the responses. *)
OnPolicy ==
    Has("old_log_probs") =>
        \A i \in DOMAIN batch : batch[i].old_log_probs.weights = batch[i].generated_by
=============================================================================

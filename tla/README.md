# A specification of verl-agent

TLA+ models of the parts of verl-agent whose correctness depends on the order in which
things happen, the TLC configurations that check them on small instances, and TLAPS proofs
of what matters most for instances of any size. Paths below are relative to `src/`.

verl-agent trains language model agents by reinforcement learning. A driver process
(`RayPPOTrainer.fit`) lets the policy play episodes in many environments at once, turns the
episodes into a batch, computes advantages and updates actor and critic on groups of Ray
workers; every few steps it saves a checkpoint.

## 1. Inventory

Each entry gives the state a component keeps, its operations, whom it works with, what is
hard about it, and what makes it correct.

**Multi-turn rollout loop** (`agent_system/multi_turn_rollout/rollout_loop.py`,
`agent_system/environments/base.py`). State: `is_done`, `active_masks`, the totals per
environment, `total_batch_list`. Operations: one turn of `vanilla_multi_turn_loop` (generate
for all, step all, collect), `gather_rollout_data`, `success_evaluator`. It calls the
actor's worker group and the environment manager, which fans out to one Ray actor per
environment. Hard: the batch goes on until the slowest episode ends, and the environments
that are over are stepped along; what they answer must be masked everywhere. Correct if
every episode comes out as though it had been played alone.

**Dynamic sampling** (`dynamic_multi_turn_loop`, `utils.py:filter_group_data`). State: the
trajectories collected so far, a try counter, the success arrays. Hard: several parallel
arrays are filtered and joined across tries, the last try follows other rules, the loop runs
the same `gen_batch` again. Correct if the batch comes back full, made of whole groups, with
the success of just these trajectories.

**Checkpointing and resumption** (`verl/trainer/ppo/ray_trainer.py`,
`verl/utils/checkpoint/`). State on disk: shards per role and rank, `data.pt`, the tracker
file. State in memory: step, epoch, data position, `previous_saved_paths`. Operations:
`_save_checkpoint`, rotation, `_load_checkpoint`. Hard: a death between any two steps.
Correct if the tracker always names something complete, and if weights, step and data agree
after any history of restarts.

**Tool rollout** (`verl/workers/rollout/sglang_rollout/sglang_rollout.py`, `schemas.py`).
State: a request per coroutine with its dialogue, its tool instances and lengths; the
sampling parameters that all of them share. Operations: create, call the engine, execute the
tools, reward, release, finalize. Hard: many coroutines in one event loop, concurrent tool
calls, limits of turns and tokens reached anywhere. Correct if tools live exactly as long as
their request, the dialogue is in order, and every request ends acceptably.

**Training batch** (`utils.py:adjust_batch`, `_balance_batch` and
`apply_invalid_action_penalty` of `ray_trainer.py`). Rows are copied until the batch divides
evenly, permuted so that the ranks have equal work, cut into mini and micro batches, and
penalised. Hard: what later steps assume about order and groups; results that come back in
the order of the micro batches. Correct if every row keeps its group, return and penalty,
and what is computed from a row comes back to it.

**GiGPO** (`gigpo/core_gigpo.py`). Discounted returns of trajectories, groups of steps with
equal or similar observations. Hard: results that depend on the order of rows; trajectories
that appear twice; a similarity that is not transitive. Correct if the return of a row is
that of its trajectory as played and a group only joins rows of one prompt.

**The steps of fit** (`ray_trainer.py:RayPPOTrainer.fit`). State: the step, the batch with
the columns it has got so far, the future of the rewards. Operations: load, validate, and
for every iteration rollout, log probabilities, reference, values, advantages, updates,
test, save. Hard: which of them happen in which step, and a reward that is computed
meanwhile. Correct if the columns fit together and the updates start from the policy that
played.

**Workers and sharding manager** (`verl/workers/fsdp_workers.py`, `actor/dp_actor.py`,
`critic/dp_critic.py`, `sharding_manager/fsdp_vllm.py`). State: where parameters and
optimizers are, the weights of the engine, whether it is awake, random states. Hard: engine
and models share a device's memory, the ranks of a tensor parallel group must sample the
same numbers and must not disturb those of training. Correct if each method has what it
needs and leaves the memory to the next, with the newest weights in the engine.

**Memory and environment managers** (`agent_system/memory/memory.py`,
`agent_system/environments/env_manager.py`). State: the task, last observation and history
of each parallel environment. Operations: `reset`, `step`, `store`, `fetch`,
`build_text_obs`. Hard: off-by-one between observation and action, what `reset` forgets,
histories that are cut. Correct if every prompt shows the last steps of its own environment
and episode, in order.

**Tools and the global rate limiter** (`verl/tools/search_tool.py`,
`sandbox_fusion_tools.py`). A named Ray actor with a semaphore, which the first tool
creates; a pool of threads per tool. Hard: acquire and release by different callers,
failures in between, one actor thread that blocks in acquire. Correct if never more than the
limit are in flight, every token comes back and no call waits for ever.

**Single controller** (`verl/single_controller/`). Splits a batch over ranks, with padding,
and joins what comes back. Correct if collecting what was dispatched gives back the batch.

**Sequence length balancing** (`verl/utils/seqlen_balancing.py`). Karmarkar-Karp and the
micro batches. Correct if the parts partition the sequences, no rank waits for another, and
no part is much heavier than it may be.

**Chat scheduler and asynchronous servers** (`verl/workers/rollout/async_server.py`,
`chat_scheduler.py`). A heap of servers with counts, an LRU cache of sessions, callbacks.
The agent trainer does not use it: its calls are commented out (`ray_trainer.py:1074`).

**Without a model**: advantage estimators and losses, the Megatron workers, reward
functions, the recipes, the exploration experiments (`exp/`), the SFT trainer, utilities.
Section 7 gives the reasons. `DataProto`, the reward manager of the agents and the
environments appear in the models of those who use them.

How they interact: `fit` calls `multi_turn_loop`, which calls the worker group
(`generate_sequences`) and the environment manager; with SGLang in multi-turn mode one call
of `generate_sequences` runs a whole tool rollout instead, whose tools ask the rate limiter.
The batch goes through `adjust_batch` and balancing to the workers by way of dispatch, then
to the advantages, then to the updates. Checkpoints are taken between two iterations.
`Checkpoint` therefore treats everything from rollout to update as one step, `TrainingStep`
resolves this step into its worker calls and treats a rollout as a batch of any shape, and
`Rollout`, `DynamicSampling`, `AsyncRollout` and `EnvironmentManager` look inside that.

## 2. Plan

The most important behaviour first: what the agents played, then what survives a death, then
what is concurrent, then what the batch goes through.

| order | module | what | state |
|---|---|---|---|
| 1 | `Episodes`, `Rollout`, `RolloutProofs` | the rollout loop and the abstract episodes it implements | model and proofs |
| 2 | `Checkpoint`, `CheckpointProofs` | saving, rotation, death, resumption | model and proofs |
| 3 | `AsyncRollout`, `AsyncRolloutProofs` | coroutines, tools, lengths, shared parameters | model and proofs |
| 4 | `DynamicSampling`, `DynamicSamplingProofs` | several rollouts, filtered and joined | model and proofs |
| 5 | `Balance`, `Dispatch`, `TrainingBatch` | what happens to a batch, as operators | model; proofs in `TrainingStepProofs` |
| 6 | `Workers`, `TrainingStep`, `TrainingStepProofs` | the workers, and an iteration of `fit` with batch and workers | model and proofs |
| 7 | `TokenBucket`, `RateLimit`, `RateLimitProofs` | the rate limiter and the abstract bucket it implements | model and proofs |
| 8 | `EnvironmentManager`, `EnvironmentManagerProofs` | memories and prompts of all the managers | model and proofs |

Composition: `TrainingStep` extends `Workers` and `TrainingBatch`, which stand on `Dispatch`
and `Balance`; it begins where `Gather` of `Rollout` ends, with any rows a rollout may
return. `DynamicSampling` takes a rollout as one action. `Rollout` implements `Episodes`,
and `RateLimit` implements `TokenBucket`, by `INSTANCE ... WITH`. `DataLemmas`, which four
of the proof modules extend, is about sequences, folds and recursive functions alone.

Every invariant and action property of the runs that pass is a theorem. What would come
next is more of the model: the SGLang sharding manager and the tensor parallel broadcast of
the tool rollout, the token masks of a request, and the chat scheduler.

## 3. Modules and their correspondence to the code

`PROJECT.json` maps each definition to its lines. The main lines of it:

### Episodes, Rollout

`Episodes` is the promise: independent episodes that earn rewards while they run, end at
most once and are frozen then. `Rollout` is the code. `Generate` is the head of a turn up to
the call of `envs.step`; `WorkerStep(e)` is one environment's Ray actor, in any order, with
any answer of `Outcomes`, also when `e` is done; `CollectStep` is the rest of the turn, with
the three masked additions, the new row, the accumulated `is_done` and the break; `Evaluate`
is `success_evaluator`, which looks for the last active row; `Gather` is
`gather_rollout_data`. The mask is a variable of its own because it is computed before the
step and used after it. Observations, tokens and texts are left out; an answer is a reward,
the done flag, `won` and a number of tool calls.

### Checkpoint

The job is one process with ranks inside the saves. `StartFromScratch`, `Resume` and
`ResumeFails` are the three outcomes of `_load_checkpoint`; `TrainStep` is one iteration of
`fit` up to the save, `EndEpoch` the end of the inner loop. `Rotate`, `BeginShard` and
`EndShard` are the three stages of a rank in `FSDPCheckpointManager.save_checkpoint`,
`RoleSaved` the barrier behind them, and `BeginData` to `EndTracker` the rest of
`_save_checkpoint`. Every write of a file is two steps, since `open(path, "w")` and
`torch.save` leave an incomplete file when the process dies. `Crash` clears the memory and
leaves the disk. A shard records which run wrote it and after how many updates, so that a
mixture of two saves can be told from a checkpoint. `resume_path`, HDFS (which
`_load_checkpoint` refuses at `ray_trainer.py:949`, whatever `config.rst` says of
`default_hdfs_dir`) and the Megatron manager are left out. Rotation forgets the checkpoints
of earlier runs because `previous_saved_paths` starts empty (`checkpoint_manager.py:55`):
after a restart more than `max_ckpt_to_keep` stay on disk, and the bound that does hold is
`RotationBound`, for the run's own.

### AsyncRollout

One record per coroutine: `pc` is the await it stands at, `tools` the stage of each tool
instance. `Start` and `Create` are `_handle_pending_state`; `Run` and the tail of
`ToolsAnswered` enter `_handle_engine_call` (`CallEngine`); `AnswerLength`, `AnswerPlain`
and `AnswerCalls` are what the engine may answer, with the code that follows up to the next
await; `Execute` and `ExecuteRaises` are the concurrent tool calls; `Reward`, `Release` and
`Finalize` the end. Of the sampling parameters only those are kept that validation and
greedy decoding set. An exception ends the batch, as `gather` without `return_exceptions`
does: a tool raises, a call names a tool the request does not have, the engine refuses a
prompt without room for a reply, it gives a request up (`AnswerAborted`), or the reply does
not fit what the ids end with (`AnswerUnfitting`).

Of the tokens only their number is kept, in the two counts that the code has. `len` is the
length of `input_ids`, which grow piece by piece: a reply, with the mark that opens it
unless it is there already (`Opening`), and the responses. `prompt` is the length of
`get_generation_prompt`, which the chat template makes anew from all the messages, and from
which the room for a reply is computed (`sglang_rollout.py:754-755`); the check behind the
tools (`:662`) is on `len`. They differ in three ways: the prompt ends with the mark that
opens the next reply (`OpeningLen`), it may count a turn's messages differently by up to
`Drift` tokens, and a prompt of the data longer than `PromptLen` is cut in the ids only
(`cut`; `:969-978`). `Prompts` are the lengths the data may have, with what their ids end
with once cut: the opening mark, the mark that closes a message, or anything else (`Ends`).

Token masks, padding, the broadcast to the other tensor parallel ranks, and the older
batch-level loop are left out. A remark without a run: the comment at
`sglang_rollout.py:227` calls `max_turns` the "max number of tool calls"; the code counts
answers of the engine, each of which may hold several calls.

### DynamicSampling

`Sample` is one turn of the `while` loop: a rollout with any rewards and any assignment of
tasks to groups, the filter, and the joining. `ResetFails` is a second `reset` without
`env_kwargs`; `Concatenate` is everything behind the loop. A success array is represented by
the trajectories it has values for.

The `KeyError` of arrays that later tries lack (`rollout_loop.py:478`) is `pc = "failed"` in
`Concatenate`: the filter drops an array without a value for every environment, so a first
try that reports more keys than a later one ends the rollout.

### Balance, Dispatch, TrainingBatch

Operators only, with recursion in recursive functions, so that they can be proved about.
`Balance` is `seqlen_balancing.py`: the states of the heap in `karmarkar_karp` are sequences
of parts in decreasing order, `Popped` is what `heappop` gives, `Merged` joins the largest
part of one with the smallest of the other; `Sorted` puts each element after as many as come
before it. `Dispatch` is chunking, padding and collecting, and in `Answers` also the
gathering of prompts over a tensor parallel group and the return of each rank's own part.
`TrainingBatch` has the rest in the order of `fit`: `WithReturns`
(`compute_step_discounted_returns`), `WithCopies` (`adjust_batch`), `Balanced`,
`MicroBatches` with the number of them that the ranks agree on, `Forward` with `Reverted`
(and `Entropies` without, as in the code), `MiniBatches`, `StepGroups`, `Penalty`. A row
names its trajectory and step; a column (`WithColumn`, which is `DataProto.union`) adds a
field, and whatever the workers compute is a record that names the row and the weights, so
that a value at the wrong row can be seen. Lengths and rewards stay numbers, since the order
of the rows depends on them. Rewards and `Gamma` are integers where the code has floats: a
return is a polynomial in them, and which rows it is summed over is what can go wrong.

### Workers, TrainingStep

A method of a worker group is three steps on all the ranks, since the driver waits for it:
`Begin` (load to the device; for generation `__enter__` of the sharding manager), `Run`,
`End` (offload; `__exit__`). Of the models only the place of parameters and optimizers and
the number of updates are kept, of a random state its stream and how many times it was drawn
from. `TrainingStep` is `fit`: `pc` is its line, `Call` and `Return` surround each worker
call, `Generate` to `LoadOrSave` are what the calls compute, and `Prepare`, `RewardDone`,
`Advantage` and `NextIteration` are the lines of the driver between them. The reward of
`compute_reward_async` may be ready at any time after it was asked for; `Advantage` waits
for it. `PrepareFails` is `numpy`'s refusal to draw more copies than there are rows.
Whether `fit` validates before it trains, and whether it does no more than that
(`val_before_train`, `val_only`), is open in the model (`Following`). `MiniBatches` is one
pass over the batch for the actor and the critic alike, which cut it in the same way; with
`ppo_epochs` above 1 the pass is repeated (`dp_actor.py:342`) and every row is trained as
many times more. That no row is longer than `max_token_len`, which
`rearrange_micro_batches` asserts (`seqlen_balancing.py:247`), is `SequencesFitAssumption`.

### TokenBucket, RateLimit

`TokenBucket` is the promise: one limit, at most so many calls inside, first come first
served. `RateLimit` is the code: `CreateTool` (`get_if_exists`: the first limit stays),
`Submit` up to the await, `Begin` on a thread of the pool, `Acquire` by the actor, `Execute`
with its `ExitStack`, `Release` whenever the actor gets to it, `Answer`. `acquire` blocks
the actor's one thread of its concurrency group, so the requests form a queue; `release` has
a group of its own (`search_tool.py:47-64`). A token is held from `Acquire` and on its way
back from `Execute` on.

### EnvironmentManager

The managers that `make_envs` builds, that of Sokoban in both of its modes, with
`SimpleMemory` and `SearchMemory`. A text is modelled by its origin: the observation that
environment `i` makes after `n` steps of episode `e` is `<<i, e, n>>`, and so is the action
that answers it. `Reset` and `Step` are the methods of that name with every memory call they
make; `build_text_obs` chooses among the managers, and the fields of a prompt are the places
of its template. `cut` is how much of a history is lost to the limit on characters (all of
it in Webshop, its beginning in AppWorld). That no other text is ever in a prompt is then a
statement about these triples.

## 4. Runs

| run | instance | question |
|---|---|---|
| `rollout` | 2 environments, 3 turns, 4 kinds of answer | do the episodes come out as if played alone, does the loop end, does it refine `Episodes` |
| `checkpoint` | actor and critic on 2 ranks, 5 steps, save every 2, keep 2, epochs of 3, 3 starts | is what the tracker names always complete and consistent, does the job end |
| `checkpoint_torn` | keep 2 | expected violation: an empty tracker |
| `checkpoint_rotation` | keep 1 | expected violation: the only checkpoint removed too early |
| `async_rollout` | 2 requests with different tools, 2 calls per answer, 2 turns, 4 prompts, contexts that fill up, 2 batches | life of the tools, order of responses, ends of a request, prompts without room, termination |
| `async_sampling_params` | 2 requests, no tools, a validation and a training batch | expected violation: parameters left behind |
| `dynamic_sampling` | 2 groups of 2, 3 tries, any rewards, 2 tasks | is the batch full, whole, informative and correctly reported |
| `dynamic_env_kwargs` | the same | expected violation: the second try stops with an exception |
| `training_step` | 2 ranks in one tensor parallel group, 3 iterations, batches of 1, 3 and 5 rows, from a checkpoint or not | do rows, columns, weights, memory and random numbers stay where they belong |
| `training_entropies` | the same | expected violation: entropies at other rows |
| `rate_limit` | 2 tools with limits 1 and 2, one without, 5 calls | does the limiter refine a bucket, does every call end |
| `environment_manager` | all the managers, 4 lengths of the history, 2 environments, 4 steps, 2 episodes | does every prompt tell the story of its episode |

Why the bounds suffice. Two environments are a finished and a running one, or two that end
in different turns; three turns leave two after an early end, so that the last row, the last
active row and the row of the end all differ. One answer pays and claims success without
reporting the end, the one that would leak. In `checkpoint`, 5 steps with saves after 2, 4
and 5 give two multiples, a save at the end that is none, and a rotation; two ranks give
every order at the barriers; three starts let a resumed run die and resume, and let a
finished job be started again; epochs of 3 put a save on either side of an epoch's end. In
`async_rollout` the context holds 16 tokens, and 3 open a reply. Responses of 1 and 9, one
of them or two, then fill it, by the first of two or by both; or they leave room for the
check but not for the next reply, ending at 13 or 14 or, behind a prompt that was cut, at 9;
or they leave room. Another prompt was cut within a text, and one is too long for the engine
from the start. The template counts as the pieces do there (`Drift` is 0), since with two
requests there are too many states otherwise; the theorem is for any drift. Two requests are
what it takes to leave two `with` blocks in the wrong order. With three tries of dynamic
sampling there is a first, a middle and a last one.

In `training_step` the micro batches of 1 and 2 rows on 2 ranks make batches divisible by 4.
Three rows need one copy, any of them; five rows need three; one row needs three and has not
so many. A mini batch of 3 leaves a rest of one row in a chunk of 4, and lengths of 1 and 3
with at most 3 tokens per micro batch give ranks that want different numbers of micro
batches, and partitions that are not in the order of the rows. Observation `b` is similar to
`a` and `c`, which are not similar to each other. Three iterations with `CriticWarmup`,
`TestFreq` and `SaveFreq` of 2 have each of these lines skipped in the first, taken in the
second, and taken in the third, the last, for another reason. In `rate_limit` four calls
compete for one or two tokens, according to which tool is created first, three of them for
two threads. In `environment_manager` a history of 1 and of 2 is shorter than an episode of
4 steps and one of 5 is longer; the second episode meets what the first has left, with a
smaller batch or a larger one where the manager allows it.

Findings of the runs that expect a violation: `PROJECT.json` quotes the statement that each
contradicts. In short: the tracker file is not written atomically; keeping one checkpoint
means keeping none for a while; a validation batch with two requests can leave its sampling
parameters to the training batches that follow; dynamic sampling cannot try again with
environments that need `env_kwargs`; and the entropies of `compute_log_prob` are not put
back in order under `use_dynamic_bsz` (`dp_actor.py:312`), so that the aggregated entropy
uses one row's entropies with another row's mask.

## 5. Fairness

`Rollout`: weak fairness of the driver, a plain loop, and of each worker: a Ray actor runs
the method it was sent. `Checkpoint`: weak fairness of the job's progress and of nothing
else; deaths are bounded by `MaxRuns`, and never forced. Termination there includes
`failed`. `AsyncRollout`: weak fairness of each request, which says that the event loop
serves every coroutine and that engine and tools answer in the end (their own timeouts see
to that), and of going on to the next batch. No strong fairness is used. `RateLimit`: weak
fairness of the actor's thread for `acquire`, of the thread for `release`, and of each call,
whose function has a timeout. It says nothing of the order in which threads take calls.
`DynamicSampling`, `TrainingStep` and `EnvironmentManager` have no liveness property: they
are sequential, their loops are counted, and deadlock is checked in the first two.

## 6. Proofs

**RolloutProofs**, for any number of environments, turns and any set of answers. The
inductive invariant `RolloutInv` adds `LoopState` to the properties: all environments have
equally many rows, the mask equals the negation of `is_done` while answers come in, an
episode that is not over has been active in each turn, one that is over in at least one.
Without the second the masked additions say nothing of `is_done`; without the third, cutting
an episode short could not be excluded. From it follow `TypeOK`, `ActivePrefix`,
`StoppedOnlyWhenOver`, `SuccessOfLastTurn` and `BatchIsTheEpisodes`, and, with
`CollectIsTurn`, that `Rollout` implements `Episodes`: only `CollectStep` changes what
`Episodes` sees, and it is a `Turn`. Assumptions: at least one environment and one turn, and
answers of the right type.

**AsyncRolloutProofs**, for any requests, tools, turns, lengths and batches, in two
invariants. `AsyncInv` says of every request in which stages its tools can be at each await
(`Stage`), and that a request at its end has a finish reason `finalize` accepts. A step
moves one request only (`OneMoves`), so it is shown action by action for that request. It
gives `ToolsAreThere`, `AllReleased` and `FinishIsAccepted`. `DialogueInv` is about what was
said: the messages of a dialogue are replies, each followed by the responses to its calls in
their order (`Follows`), no call of a turn is answered twice (`Distinct`), and at each await
there is what the code after it relies on (`Poised`): a request that generates has had every
call answered (`AllAnswered`) and has room, one that waits for tools ends in a reply with
calls. `Accounted`, a part of it, says how far the two counts of tokens can be apart: before
the first reply by what was cut, then also by an opening mark and the drift of each turn so
far. `Poised` holds only while no exception has ended the rollout, since the coroutines then
stop where they are; what is known of a request that was refused is `NearTheLimit`, which
follows from `Accounted`, from the check of the length, and from `PromptLen + ResponseLen <=
MaxModelLen`. The one hard step is `ToolsAnswered`, which appends the responses in the order
of the calls whatever order they came in (`ResponsesFollow`), and lengthens the request by a
fold over their sizes. It gives `TypeOK`, `ResponsesFollowTheCalls` and
`RefusedOnlyNearTheLimit`.

**DynamicSamplingProofs**, for any batch size, group size, number of tries, tasks and
rewards. `SamplingInv` reads what was collected as a sequence of at most
`2 * BatchSize - 1` blocks of `GroupN` rows: each is a whole group of one try, in the order
of its environments, and its rewards are equal only if that try is the last (`Collectible`).
The success arrays, joined, name the same trajectories in the same order. That
`filter_group_data` keeps or drops whole groups is `KeepLoop`, by induction on the groups,
and `KeptGroups`. The five properties of the run follow; without the bound on the blocks
`SurplusIsBounded` would not be inductive, and without the clause on flat groups nothing
would be known of the tries before.

**CheckpointProofs**, for any ranks, steps, save frequency, epochs and number of deaths,
assuming that no start uses `disable` and that `MaxKeep # 1`. Both assumptions are needed:
`checkpoint_rotation` shows what happens without the second, and a job that starts from
scratch in an old directory writes into the folder the tracker names. `CheckpointInv`
consists of: steps only go up, so the folder being written lies beyond the tracker's
(`LoopInv`); each start adds at most one step (`TrackerBound`); the paths saved by a run
ascend and end at the tracker's, so what rotation removes is older (`PathsInv`, used in
`RotatedIsOld`); the save in progress has written what its program counters say (`SaveInv`);
and the data position fits the updates (`DataInv`, whose arithmetic needs the lemmas on
remainders). It gives `TrackerIsComplete`, `ResumeIsConsistent`, `FailsOnlyOnTornTracker`,
`CommittedUntouched` and `OvershootBounded`.

`CheckpointDone` adds `DoneMeansSaved` by a further invariant (`DoneInv`): a job whose
counter has come to the last step has saved it, if `SaveFreq > 0` and if the epochs have
room for all the steps (`TotalSteps <= Epochs * EpochLen`). Without the second a job ends
with its epochs before the step that is always saved.

`CheckpointRotation` proves `RotationBound` from `RotationInv`, which stands apart since it
needs neither assumption: it holds with any resume mode and any `MaxKeep`. The folders with
shards of the running job's own are among those its list names, or, between the rotation of
a save and its end, among those that rotation keeps and the one being written (`ListsInv`);
so there are no more than the list is long. No shard is of a later run (`NoneFromLater`),
and so a start finds none of its own.

**RateLimitProofs**, for any tools, limits, pools and calls. `LimiterInv` says that the
semaphore and the calls with a token add up to the limit, that each call has at most one
token, and that those who wait in `acquire` have none. With it each step of `RateLimit` is a
step of `TokenBucket` or changes nothing it sees (`LimiterIsABucket`): `CreateTool` sets the
limit at most once, `Begin` asks, `Acquire` enters at the head of the queue, `Release`
leaves.

**TrainingStepProofs** has four parts, for any number of ranks, size of tensor parallel
groups, micro and mini batches, sets of offloaded models, and batches of a rollout.

First the operators. Karmarkar-Karp shares out all positions, once each, with no part
heavier than another by more than the longest sequence, and with no part empty if there are
positions enough (`BalancedShares`): every state of the heap is such a sharing of its own
positions, and merging two keeps that, since the largest part of one joins the smallest of
the other. A forward pass in micro batches over all the ranks gives every row what was
computed from it (`ForwardIs`): the ranks have equally many micro batches, which are a
sharing of the chunk, and `Reverted` undoes it. The mini batches of an update hold the rows
of the batch, as often as they are there, in equally many steps on every rank
(`MiniBatchesAre`). `generate_sequences` answers every prompt with its own answer, whatever
the padding, the chunks and the tensor parallel groups (`AnswersAre`). A step group joins
rows to a first row of their prompt and similar observation (`StepGroupsAre`). The return
that is computed backwards over the whole batch is the one of the trajectory as it was
played (`ReturnIsPlayed`).

Second the workers alone, whatever methods the driver calls in whatever order
(`TrainingWorkers`): in `WorkersInv`, `Placed` says where parameters and optimizer of each
model are at each stage of each method, also when a loaded checkpoint has brought the
optimizer back, and `Streams` which random states are in use and which are kept.
`TrainingMemory` and `TrainingRandom` follow. Third the lines of `fit` (`DriverInv`), for
`TrainingTypeOK`.

Fourth the batch. `BatchInv` says what exists at which line (`LinesInv`); that its rows are
those of the rollout, then copies of them, with the right value in each column they have
(`RowsInv`: `MadeOf`, `Aligned`, `Returned`, `OnPolicyRows`, `Grouped`); that each answer is
to its prompt (`AnswersInv`); that the engine that generates, and the rows it has generated,
have the weights the actor has until the update (`WeightsInv`); that a reward still being
computed is of the rows as they will stand (`ScoresInv`); and that the last update had all
the rows (`UpdateInv`). An action either leaves the batch alone, or is one of the operators
above. From it follow `ColumnsAlign`, `ReturnsFitTheirRows`, `GroupsOfOnePrompt`,
`OnPolicy`, `EveryRowIsTrained` and `RanksInStep`; `MicroBatchesAreLight` needs of it
only that the batch divides evenly and its lengths are positive.

Assumptions: `BatchSizesAssumption`, `TrainerAssumption` and `WorldAssumption` are about
sizes, `SequencesFitAssumption` is the assertion of `rearrange_micro_batches`, and
`BatchesAssumption` says what `gather_rollout_data` returns: at least one row,
and the rows of a trajectory in the order of its turns. `Rollout` has that order in
`Gather`; that a rollout has a row at all is because every environment is active in the
first turn.

**DataLemmas**. The induction of the library's `NaturalsInduction` is about an operator;
here it is stated of a set of numbers (`NatSetInduction`, from the well-foundedness of `<`),
to which a property is turned by a set comprehension. On it rest the existence of recursive
functions and what folds compute (`RecursionUpTo`, `FoldExists`, `SumOfNaturals`), and from
there sequences in blocks, rearranged, flattened and sorted, and the weight of a sequence's
elements under a permutation.

**EnvironmentManagerProofs**, for any number of environments, steps, episodes and lengths of
the history. `Story` says that the memory of environment `i` holds exactly the steps of the
running episode, in order, and `Prompts` that the prompts tell it. That a slice of the story
is its end (`FetchIsTheEnd`, `StoryIsFetched`), and a cut of that again (`CutIsTheEnd`),
carries the argument to each template (`TextTells`).

**Model-checked only.** Liveness (`Terminates`, `Finishes`, `EveryCallEnds`): the prover
does not do `ENABLED` and fairness. Every invariant and action property that a passing run
checks, and both refinements, are theorems as well. The runs that expect a violation have
no counterpart: they are counterexamples.

## 7. Not modelled

Left out of components that are modelled:

- Rollout: tokenisation of prompts, images, the texts of observations (`EnvironmentManager`
  has their origin), projections of answers to actions, available actions and scores in a
  prompt.
- `fit`: the REMAX baseline, a synchronous reward, the reward model worker, the KL penalty
  in the reward, metrics; `adjust_batch` in the mode `delete`, which the trainer does not
  use.
- Advantages: the normalisation itself, floating point arithmetic.
- Workers: LoRA, the forward and backward passes, the vLLM versions before 0.7 and the
  sharding managers of SGLang and Megatron; the automatic padding of `decorator.py`, which
  the agent trainer does not ask for; `ppo_epochs` above 1 (`dp_actor.py:342`), and mini and
  micro batches of multi-modal inputs, which are cut by number (`dp_actor.py:334-349`).
- Tool rollout: token masks and `truncate_output_ids` (`schemas.py:235`), which cuts the
  response of all the turns to the length of one; the broadcast to the tensor parallel
  ranks; the loop at batch level.
- Checkpoints: `resume_path`, copies to a remote file system, the Megatron manager; the
  model in Hugging Face's format (`fsdp_checkpoint_manager.py:208-250`), from which no job
  is resumed; a job that only validates (`ray_trainer.py:1038`), which saves nothing.
  Removing an old checkpoint (`Rotate`) is one step: `rmtree` may stop half way or, with
  `ignore_errors=True` (`checkpoint_manager.py:85`), leave files, but of a folder that
  the list has given up.
- Rate limiter: the gauge `current_count`, which nobody reads.

Components without a model: advantage estimators and losses (`core_algos.py`) and the
Megatron models are tensor code; reward functions parse and grade texts; the chat scheduler
and the asynchronous servers are not reached from the agent trainer; the recipes are
variants of the same trainer for other algorithms; `exp/` is a separate trainer of
experiments; the SFT trainer is a plain loop that does not resume; the environments are
largely third-party games, which may answer anything in these models; the utilities are I/O.

Remarks from reading, which no run is about or which the properties state as they are:

- With `history_length` 0 the prompts of AppWorld show the whole history, since `[-0:]` is
  the whole list (`memory.py:84`); those of AlfWorld no longer show the task after the first
  step. A Webshop text of more than 13000 characters drops its history altogether.
  `PromptsTellTheEpisode` says so.
- A micro batch may exceed `max_token_len` by up to one row, although the argument is called
  the maximum (`seqlen_balancing.py:235`). `MicroBatchesAreLight` states the bound that
  holds.
- A batch with fewer rows than the copies it needs ends the training (`utils.py:123`):
  `PrepareFails`.
- With similarity clustering an observation joins the first group whose first row it
  resembles (`core_gigpo.py:302-308`), and resemblance is not transitive: which of the
  merely similar rows share a group depends on the order in which `adjust_batch` and
  balancing have left them. `GroupsOfOnePrompt` states what holds in any order.
- The length that is checked behind the tools (`sglang_rollout.py:662`) is not the length
  of the prompt the engine gets (`:754`), so a rollout may end with a prompt that has no
  room for a reply; and a prompt of the data that was cut may be refused, or not be
  continued (`schemas.py:149`), before any tool has answered. `RefusedOnlyNearTheLimit`
  states where.

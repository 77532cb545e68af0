--------------------------- MODULE DynamicSampling ---------------------------
(***************************************************************************)
(* dynamic_multi_turn_loop (agent_system/multi_turn_rollout/               *)
(* rollout_loop.py) with filter_group_data (utils.py): the vanilla loop is *)
(* run again until enough trajectories have been collected; groups whose   *)
(* episodes all have the same reward are thrown away, except on the last   *)
(* try.  One run of the vanilla loop, which Rollout models step by step,   *)
(* is one action here, with any rewards as its result.                     *)
(***************************************************************************)
EXTENDS Integers, Sequences, FiniteSets, SequencesExt

CONSTANTS
    BatchSize,      \* data.train_batch_size
    GroupN,         \* env.rollout.n
    MaxTries,       \* algorithm.filter_groups.max_num_gen_batches
    RewardValues,   \* of an episode
    Tasks,          \* the kinds of task that success is also counted for
    EnvKwargs       \* env_kwargs in gen_batch: "present" for environments
                    \* that are reset with them, "unused" for the others

ASSUME SizesAssumption == {BatchSize, GroupN, MaxTries} \subseteq Nat \ {0}
ASSUME KwargsAssumption == EnvKwargs \subseteq {"present", "unused"}

VARIABLES
    pc,             \* "sampling", "done", "failed"
    try_count,
    env_kwargs,     \* what has become of them
    total,          \* the trajectories collected, in order
    total_success   \* the success arrays of every try, by key

vars == <<pc, try_count, env_kwargs, total, total_success>>

NumEnvs == BatchSize * GroupN
Target == BatchSize * GroupN
Groups == 0 .. BatchSize - 1
GroupIndices(g) == (g * GroupN + 1) .. ((g + 1) * GroupN)
GroupOf(i) == (i - 1) \div GroupN

Init ==
    /\ pc = "sampling"
    /\ try_count = 0
    /\ env_kwargs \in EnvKwargs
    /\ total = <<>>
    /\ total_success = <<>>

-----------------------------------------------------------------------------
(* What the vanilla loop returns: a trajectory for each environment, and an
   array for every key of the success dictionary.  An array is given by the
   trajectories it has a value for; the episodes of a group share a task. *)
Trajectories(rewards) ==
    [i \in 1 .. NumEnvs |->
        [try |-> try_count + 1, env |-> i, reward |-> rewards[i]]]

Success(batch, tasks) ==
    [key \in {"success_rate"} \cup { tasks[g] : g \in Groups } |->
        IF key = "success_rate" THEN batch
        ELSE SelectSeq(batch, LAMBDA x : tasks[GroupOf(x.env)] = key)]

(* Filtering: keep_indices grows by the groups whose rewards differ. *)
KeepDiffering(rewards) ==                                      \* mutant
    SelectSeq([i \in 1 .. NumEnvs |-> i],
              LAMBDA i : rewards[i] # rewards[GroupOf(i) * GroupN + 1])
Differ(rewards, g) == \E i, j \in GroupIndices(g) : rewards[i] # rewards[j]
KeepIndices(rewards) ==
    LET keep[n \in 0 .. BatchSize] ==
            IF n = 0 THEN <<>>
            ELSE IF Differ(rewards, n - 1)
                 THEN keep[n - 1] \o [k \in 1 .. GroupN |-> (n - 1) * GroupN + k]
                 ELSE keep[n - 1]
    IN  keep[BatchSize]

FilterAlways == FALSE                                          \* mutant
StopFilteringEarly == try_count + 2 >= MaxTries                \* mutant
LastTry == try_count + 1 = MaxTries

Filtered(arr, keep) == [k \in DOMAIN keep |-> arr[keep[k]]]

SuccessUnfiltered(success, keep) == success                    \* mutant
(* Only the arrays with a value for every environment can be indexed. *)
FilteredSuccess(success, keep) ==
    [key \in { k \in DOMAIN success : Len(success[k]) = NumEnvs } |->
        Filtered(success[key], keep)]

NotFull == Len(total) <= Target /\ try_count < MaxTries        \* mutant
KeepOn == Len(total) < Target /\ try_count < MaxTries

(* One turn of the while loop.  The kwargs are popped by the first reset. *)
Sample ==
    /\ pc = "sampling"
    /\ KeepOn
    /\ env_kwargs # "popped"
    /\ \E rewards \in [1 .. NumEnvs -> RewardValues], tasks \in [Groups -> Tasks] :
           LET batch == Trajectories(rewards)
               success == Success(batch, tasks)
               keep == KeepIndices(rewards)
           IN  /\ total' = total \o (IF LastTry THEN batch ELSE Filtered(batch, keep))
               /\ total_success' = Append(total_success,
                      IF LastTry THEN success ELSE FilteredSuccess(success, keep))
    /\ try_count' = try_count + 1
    /\ env_kwargs' = IF env_kwargs = "present" THEN "popped" ELSE env_kwargs
    /\ UNCHANGED pc

(* reset(kwargs=None) of an environment that needs them. *)
ResetFails ==
    /\ pc = "sampling"
    /\ KeepOn
    /\ env_kwargs = "popped"
    /\ pc' = "failed"
    /\ UNCHANGED <<try_count, env_kwargs, total, total_success>>

(* The arrays of all the tries are joined, by the keys of the first. *)
Concatenate ==
    /\ pc = "sampling"
    /\ ~KeepOn
    /\ pc' = IF \A i \in DOMAIN total_success :
                    DOMAIN total_success[1] \subseteq DOMAIN total_success[i]
             THEN "done" ELSE "failed"
    /\ UNCHANGED <<try_count, env_kwargs, total, total_success>>

Returned == pc \in {"done", "failed"} /\ UNCHANGED vars

Next == Sample \/ ResetFails \/ Concatenate \/ Returned

Spec == Init /\ [][Next]_vars

-----------------------------------------------------------------------------
Trajectory == [try : 1 .. MaxTries, env : 1 .. NumEnvs, reward : RewardValues]

TypeOK ==
    /\ pc \in {"sampling", "done", "failed"}
    /\ try_count \in 0 .. MaxTries
    /\ env_kwargs \in {"present", "unused", "popped"}
    /\ total \in Seq(Trajectory)
    /\ Len(total_success) = try_count

SuccessRates == FlattenSeq([i \in DOMAIN total_success |-> total_success[i]["success_rate"]])

(* Whatever the rewards were, the batch that comes back is full, although any
   number of groups were thrown away on the way. *)
TargetIsMet == pc = "done" => Len(total) >= Target

(* ... and the surplus is less than one batch. *)
SurplusIsBounded == Len(total) <= 2 * Target - GroupN

(* The advantages compare the episodes of a group with each other: a group is
   collected whole, next to each other and in order, or not at all. *)
GroupsAreWhole ==
    /\ Len(total) % GroupN = 0
    /\ \A b \in 0 .. (Len(total) \div GroupN) - 1 :
           LET first == total[b * GroupN + 1]
           IN  /\ first.env % GroupN = 1 % GroupN
               /\ \A i \in 1 .. GroupN :
                      /\ total[b * GroupN + i].try = first.try
                      /\ total[b * GroupN + i].env = first.env + i - 1

(* A group that teaches nothing is only collected when the tries run out. *)
FlatGroupsOnlyAtTheEnd ==
    \A b \in 0 .. (Len(total) \div GroupN) - 1 :
        (\A i \in 1 .. GroupN :
            total[b * GroupN + i].reward = total[b * GroupN + 1].reward)
            => try_count = MaxTries /\ total[b * GroupN + 1].try = MaxTries

(* The success that is reported is that of the trajectories trained on, one
   value for each and in their order, over all the tries. *)
SuccessMatchesTrajectories == SuccessRates = total
=============================================================================

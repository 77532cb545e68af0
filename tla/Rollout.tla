------------------------------- MODULE Rollout -------------------------------
(***************************************************************************)
(* TrajectoryCollector.vanilla_multi_turn_loop and gather_rollout_data of  *)
(* agent_system/multi_turn_rollout/rollout_loop.py, the environment        *)
(* workers they drive, and EnvironmentManagerBase.success_evaluator.       *)
(*                                                                         *)
(* The driver is sequential, but each turn fans one action out to every    *)
(* environment worker and waits for all of the answers.  Environments      *)
(* whose episode is over are stepped like the others: whatever they then   *)
(* answer must not leak into the episode's totals or into the training     *)
(* batch.                                                                  *)
(***************************************************************************)
EXTENDS Integers, Sequences

CONSTANTS
    NumEnvs,    \* number of environments (the length of gen_batch)
    GroupN,     \* env.rollout.n, the number of episodes of one prompt
    MaxSteps,   \* env.max_steps
    Outcomes,   \* the answers an environment may give to one action
    Pending     \* stands for the future of a worker that has not answered

(* An answer: its reward, its done flag, and from its info dict the 'won'
   flag and the number of tool calls. *)
Outcome == [reward : Int, done : BOOLEAN, won : BOOLEAN, tool : Nat]

ASSUME NumEnvsAssumption == NumEnvs \in Nat \ {0}
ASSUME GroupNAssumption == GroupN \in Int
ASSUME MaxStepsAssumption == MaxSteps \in Nat \ {0}
ASSUME OutcomesAssumption == Outcomes \subseteq Outcome /\ Pending \notin Outcomes

Envs == 0 .. NumEnvs - 1

VARIABLES
    phase,              \* where the driver is
    replies,            \* replies[e]: e's answer to the current action
    active_masks,       \* computed before the turn, used after it
    is_done,
    total_batch_list,   \* total_batch_list[e]: rows of e, with their infos
    episode_rewards, episode_lengths, tool_callings,
    success,            \* what success_evaluator returned
    batch               \* gen_batch_output, as the set of its rows

vars == <<phase, replies, active_masks, is_done, total_batch_list,
          episode_rewards, episode_lengths, tool_callings, success, batch>>

totals == <<episode_rewards, episode_lengths, tool_callings>>

(* uid_batch: one new id every GroupN environments, or one for all. *)
Uid(e) == IF GroupN > 0 THEN e \div GroupN ELSE 0

NumTurns == Len(total_batch_list[0])

-----------------------------------------------------------------------------
(* The environments are reset and the arrays of the loop are allocated. *)
Init ==
    /\ phase = "generate"
    /\ replies = [e \in Envs |-> Pending]
    /\ active_masks = [e \in Envs |-> TRUE]
    /\ is_done = [e \in Envs |-> FALSE]
    /\ total_batch_list = [e \in Envs |-> <<>>]
    /\ episode_rewards = [e \in Envs |-> 0]
    /\ episode_lengths = [e \in Envs |-> 0]
    /\ tool_callings = [e \in Envs |-> 0]
    /\ success = [e \in {} |-> FALSE]
    /\ batch = {}

(* active_masks *)
EveryEnvActive(e) == TRUE                                      \* mutant
Active(e) == ~is_done[e]

(* The head of a turn: the mask is taken, the policy answers for all the
   environments (also those that are done), and every worker gets its
   action. *)
Generate ==
    /\ phase = "generate"
    /\ phase' = "step"
    /\ active_masks' = [e \in Envs |-> Active(e)]
    /\ replies' = [e \in Envs |-> Pending]
    /\ UNCHANGED <<is_done, total_batch_list, totals, success, batch>>

DoneWorkerIgnoresAction(e) ==                                  \* mutant
    /\ phase = "step"
    /\ replies[e] = Pending
    /\ active_masks[e]
    /\ \E o \in Outcomes : replies' = [replies EXCEPT ![e] = o]
    /\ UNCHANGED <<phase, active_masks, is_done, total_batch_list, totals,
                   success, batch>>

(* Worker e executes its action: in its own time, in no fixed order. *)
WorkerStep(e) ==
    /\ phase = "step"
    /\ replies[e] = Pending
    /\ \E o \in Outcomes : replies' = [replies EXCEPT ![e] = o]
    /\ UNCHANGED <<phase, active_masks, is_done, total_batch_list, totals,
                   success, batch>>

(* arr[active_masks] += delta[active_masks] *)
AddActive(arr, delta) ==
    [e \in Envs |-> IF active_masks[e] THEN arr[e] + delta[e] ELSE arr[e]]

(* What one turn appends to total_batch_list[e] and total_infos[e]. *)
Row(e) == [reward |-> replies[e].reward, active |-> active_masks[e],
           won |-> replies[e].won]

(* np.logical_or(is_done, dones) *)
LatestDoneOnly(e) == replies[e].done                           \* mutant
DoneAfter(e) == is_done[e] \/ replies[e].done

(* The break, or the end of range(max_steps). *)
FirstDoneStopsLoop ==                                          \* mutant
    (\E e \in Envs : DoneAfter(e)) \/ NumTurns + 1 = MaxSteps
OneTurnTooMany == (\A e \in Envs : DoneAfter(e)) \/ NumTurns = MaxSteps  \* mutant
LoopOver == (\A e \in Envs : DoneAfter(e)) \/ NumTurns + 1 = MaxSteps

(* ray.get has all the answers: the tail of the turn, up to the break. *)
CollectStep ==
    /\ phase = "step"
    /\ \A e \in Envs : replies[e] # Pending
    /\ tool_callings' = AddActive(tool_callings, [e \in Envs |-> replies[e].tool])
    /\ episode_rewards' =
           AddActive(episode_rewards, [e \in Envs |-> replies[e].reward])
    /\ episode_lengths' = AddActive(episode_lengths, [e \in Envs |-> 1])
    /\ total_batch_list' =
           [e \in Envs |-> Append(total_batch_list[e], Row(e))]
    /\ is_done' = [e \in Envs |-> DoneAfter(e)]
    /\ phase' = IF LoopOver THEN "evaluate" ELSE "generate"
    /\ UNCHANGED <<replies, active_masks, success, batch>>

IsLast(e, k) == k = Len(total_batch_list[e])                    \* mutant

(* The last row of e in which e was active (_process_batch scans from the
   end and stops at the first active row). *)
IsLastActive(e, k) ==
    /\ k \in DOMAIN total_batch_list[e]
    /\ total_batch_list[e][k].active
    /\ \A j \in DOMAIN total_batch_list[e] :
           total_batch_list[e][j].active => j <= k

(* success_evaluator; its assertion demands one value per environment. *)
Evaluate ==
    /\ phase = "evaluate"
    /\ \A e \in Envs : \E k \in DOMAIN total_batch_list[e] : IsLastActive(e, k)
    /\ success' = [e \in Envs |->
           total_batch_list[e]
               [CHOOSE k \in DOMAIN total_batch_list[e] : IsLastActive(e, k)].won]
    /\ phase' = "gather"
    /\ UNCHANGED <<replies, active_masks, is_done, total_batch_list, totals,
                   batch>>

EveryRow(e) == DOMAIN total_batch_list[e]                      \* mutant

(* The rows of e that gather_rollout_data keeps. *)
EffectiveRows(e) ==
    { k \in DOMAIN total_batch_list[e] : total_batch_list[e][k].active }

(* A kept row, stamped with the final totals of its trajectory. *)
GatheredRow(e, k) ==
    [traj_uid |-> e, uid |-> Uid(e), turn |-> k,
     rewards |-> total_batch_list[e][k].reward,
     episode_rewards |-> episode_rewards[e],
     episode_lengths |-> episode_lengths[e],
     tool_callings |-> tool_callings[e]]

Gather ==
    /\ phase = "gather"
    /\ batch' = UNION { { GatheredRow(e, k) : k \in EffectiveRows(e) } : e \in Envs }
    /\ phase' = "finished"
    /\ UNCHANGED <<replies, active_masks, is_done, total_batch_list, totals,
                   success>>

Finished == phase = "finished" /\ UNCHANGED vars

Next ==
    \/ Generate
    \/ \E e \in Envs : WorkerStep(e)
    \/ CollectStep
    \/ Evaluate
    \/ Gather
    \/ Finished

Spec == Init /\ [][Next]_vars

(* The driver is a plain loop and never blocks on anything but its workers;
   a worker's actor always runs the method it was sent. *)
Fairness ==
    /\ WF_vars(Generate \/ CollectStep \/ Evaluate \/ Gather)
    /\ \A e \in Envs : WF_vars(WorkerStep(e))

FairSpec == Spec /\ Fairness

-----------------------------------------------------------------------------
Batch == [traj_uid : Envs, uid : Int, turn : 1 .. MaxSteps, rewards : Int,
          episode_rewards : Int, episode_lengths : Nat, tool_callings : Nat]

TypeOK ==
    /\ phase \in {"generate", "step", "evaluate", "gather", "finished"}
    /\ replies \in [Envs -> Outcomes \cup {Pending}]
    /\ active_masks \in [Envs -> BOOLEAN]
    /\ is_done \in [Envs -> BOOLEAN]
    /\ total_batch_list \in
           [Envs -> Seq([reward : Int, active : BOOLEAN, won : BOOLEAN])]
    /\ episode_rewards \in [Envs -> Int]
    /\ episode_lengths \in [Envs -> Nat]
    /\ tool_callings \in [Envs -> Nat]
    /\ batch \subseteq Batch

(* The rows in which an environment was active are its first ones, and
   episode_lengths counts exactly them, however often the environment was
   stepped after its end and whatever it then answered. *)
ActivePrefix ==
    \A e \in Envs :
        /\ episode_lengths[e] <= Len(total_batch_list[e])
        /\ \A k \in 1 .. Len(total_batch_list[e]) :
               total_batch_list[e][k].active <=> k <= episode_lengths[e]

(* The loop gives up on an episode only when the environment has ended it or
   when the turn limit is used up: no episode is cut short because the others
   are over, and none outlives the limit. *)
StoppedOnlyWhenOver ==
    /\ \A e \in Envs : Len(total_batch_list[e]) = NumTurns /\ NumTurns <= MaxSteps
    /\ phase \in {"evaluate", "gather", "finished"} =>
           \A e \in Envs : is_done[e] \/ episode_lengths[e] = MaxSteps

(* success[e] is the verdict of the turn that was e's last: the turn number
   episode_lengths[e], not the last time the environment was stepped. *)
SuccessOfLastTurn ==
    phase \in {"gather", "finished"} =>
        \A e \in Envs :
            success[e] = total_batch_list[e][episode_lengths[e]].won

(* The training batch holds turns 1 .. episode_lengths of every trajectory,
   each exactly once, and every row of a trajectory carries the same final
   totals: every trajectory is represented. *)
BatchIsTheEpisodes ==
    phase = "finished" =>
        /\ \A e \in Envs :
               { r.turn : r \in { b \in batch : b.traj_uid = e } }
                   = 1 .. episode_lengths[e]
        /\ \A e \in Envs : episode_lengths[e] > 0
        /\ \A a, b \in batch :
               a.traj_uid = b.traj_uid =>
                   /\ a.episode_rewards = b.episode_rewards
                   /\ a.episode_lengths = b.episode_lengths
                   /\ a.turn = b.turn => a = b

(* What makes the properties above inductive: all environments have been
   stepped equally often, the mask still describes is_done when the answers
   come back, the loop runs on only while somebody needs it to, and an
   episode that is not over has been active in every turn. *)
LoopState ==
    /\ \A e \in Envs : Len(total_batch_list[e]) = NumTurns
    /\ phase \in {"generate", "step"} =>
           NumTurns < MaxSteps /\ \E e \in Envs : ~is_done[e]
    /\ phase = "step" => active_masks = [e \in Envs |-> ~is_done[e]]
    /\ phase \in {"evaluate", "gather", "finished"} =>
           NumTurns = MaxSteps \/ \A e \in Envs : is_done[e]
    /\ NumTurns \in 0 .. MaxSteps
    /\ \A e \in Envs : ~is_done[e] => episode_lengths[e] = NumTurns
    /\ \A e \in Envs : is_done[e] => episode_lengths[e] > 0

RolloutInv ==
    TypeOK /\ ActivePrefix /\ LoopState /\ SuccessOfLastTurn /\ BatchIsTheEpisodes

(* Refinement: seen through the totals, the batched loop is a set of
   independent episodes that are frozen once over. *)
EpisodesOf == INSTANCE Episodes WITH
    Rewards <- { o.reward : o \in Outcomes },
    Calls <- { o.tool : o \in Outcomes },
    over <- is_done,
    return <- episode_rewards,
    length <- episode_lengths,
    toolUse <- tool_callings

ImplementsEpisodes == EpisodesOf!Spec

(* Every rollout comes to its end: no set of answers of the environments
   keeps the loop going. *)
Terminates == <>(phase = "finished")
=============================================================================

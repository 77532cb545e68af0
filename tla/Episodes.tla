------------------------------ MODULE Episodes ------------------------------
(***************************************************************************)
(* What the multi-turn rollout promises to the trainer, with none of its   *)
(* machinery: a set of independent episodes.  Every episode earns rewards  *)
(* while it is running, ends at most once, and is frozen from then on.     *)
(* The batched loop of agent_system/multi_turn_rollout/rollout_loop.py     *)
(* (module Rollout) implements this specification although it keeps        *)
(* stepping the environments whose episode is over.                        *)
(***************************************************************************)
EXTENDS Integers

CONSTANTS
    Envs,       \* the parallel environments
    MaxSteps,   \* env.max_steps, the number of turns an episode may take
    Rewards,    \* what one step may pay
    Calls       \* how many tool calls one step may report

VARIABLES
    over,       \* over[e]: the environment has reported the end of e
    return,     \* return[e]: sum of the rewards of e's own turns
    length,     \* length[e]: number of turns e took
    toolUse     \* toolUse[e]: number of tool calls in those turns

evars == <<over, return, length, toolUse>>

Init ==
    /\ over = [e \in Envs |-> FALSE]
    /\ return = [e \in Envs |-> 0]
    /\ length = [e \in Envs |-> 0]
    /\ toolUse = [e \in Envs |-> 0]

(* Episode e is over: no later turn may touch what was recorded of it. *)
Frozen(e) ==
    /\ over[e]
    /\ over'[e]
    /\ return'[e] = return[e]
    /\ length'[e] = length[e]
    /\ toolUse'[e] = toolUse[e]

(* Episode e takes one more turn, which may be its last. *)
Advance(e) ==
    /\ ~over[e]
    /\ length[e] < MaxSteps
    /\ over'[e] \in BOOLEAN
    /\ \E r \in Rewards : return'[e] = return[e] + r
    /\ length'[e] = length[e] + 1
    /\ \E c \in Calls : toolUse'[e] = toolUse[e] + c

(* The policy answers for the whole batch, so all running episodes advance
   together. *)
Turn ==
    /\ DOMAIN over' = Envs
    /\ DOMAIN return' = Envs
    /\ DOMAIN length' = Envs
    /\ DOMAIN toolUse' = Envs
    /\ \E e \in Envs : ~over[e]
    /\ \A e \in Envs : Frozen(e) \/ Advance(e)

Spec == Init /\ [][Turn]_evars
=============================================================================

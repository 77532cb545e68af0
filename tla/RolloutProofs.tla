--------------------------- MODULE RolloutProofs ---------------------------
(***************************************************************************)
(* Rollout for every number of environments, turn limit and set of         *)
(* answers: RolloutInv is inductive, its parts hold in every reachable     *)
(* state, and the batched loop implements Episodes.                        *)
(***************************************************************************)
EXTENDS Rollout, TLAPS

Assumptions == /\ NumEnvs \in Nat \ {0}
               /\ GroupN \in Int
               /\ MaxSteps \in Nat \ {0}
               /\ Outcomes \subseteq Outcome
               /\ Pending \notin Outcomes

LEMMA ConstantsOK == Assumptions
BY NumEnvsAssumption, GroupNAssumption, MaxStepsAssumption, OutcomesAssumption
   DEF Assumptions

LEMMA ZeroIsEnv == 0 \in Envs
BY NumEnvsAssumption DEF Envs

LEMMA UidType == \A e \in Envs : Uid(e) \in Int
BY GroupNAssumption DEF Uid, Envs

LEMMA SeqElement ==
    ASSUME NEW S, NEW s \in Seq(S), NEW k \in 1 .. Len(s) PROVE s[k] \in S
OBVIOUS

(* The locals of the loop start out in the invariant. *)
LEMMA InitInv == Init => RolloutInv
<1> SUFFICES ASSUME Init PROVE RolloutInv
  OBVIOUS
<1> USE ConstantsOK, ZeroIsEnv DEF Assumptions
<1>1. TypeOK
  BY DEF Init, TypeOK
<1>2. ActivePrefix
  BY DEF Init, ActivePrefix
<1>3. LoopState
  BY DEF Init, LoopState, NumTurns
<1>4. SuccessOfLastTurn /\ BatchIsTheEpisodes
  BY DEF Init, SuccessOfLastTurn, BatchIsTheEpisodes
<1> QED
  BY <1>1, <1>2, <1>3, <1>4 DEF RolloutInv

LEMMA GenerateInv == RolloutInv /\ Generate => RolloutInv'
<1> SUFFICES ASSUME RolloutInv, Generate PROVE RolloutInv'
  OBVIOUS
<1> USE ConstantsOK, ZeroIsEnv DEF Assumptions, RolloutInv, Generate, totals
<1>1. TypeOK'
  BY DEF TypeOK, Active
<1>2. ActivePrefix'
  BY DEF ActivePrefix
<1>3. LoopState'
  BY DEF LoopState, NumTurns, Active
<1>4. SuccessOfLastTurn' /\ BatchIsTheEpisodes'
  BY DEF SuccessOfLastTurn, BatchIsTheEpisodes
<1> QED
  BY <1>1, <1>2, <1>3, <1>4

LEMMA WorkerStepInv ==
    ASSUME RolloutInv, NEW e \in Envs, WorkerStep(e) PROVE RolloutInv'
<1> USE ConstantsOK, ZeroIsEnv DEF Assumptions, RolloutInv, WorkerStep, totals
<1>1. TypeOK'
  BY DEF TypeOK
<1>2. ActivePrefix'
  BY DEF ActivePrefix
<1>3. LoopState'
  BY DEF LoopState, NumTurns
<1>4. SuccessOfLastTurn' /\ BatchIsTheEpisodes'
  BY DEF SuccessOfLastTurn, BatchIsTheEpisodes
<1> QED
  BY <1>1, <1>2, <1>3, <1>4

(* What the tail of a turn does to one environment. *)
LEMMA CollectedRow ==
    ASSUME RolloutInv, CollectStep, NEW e \in Envs
    PROVE  /\ replies[e] \in Outcome
           /\ Row(e) \in [reward : Int, active : BOOLEAN, won : BOOLEAN]
           /\ Row(e).active = ~is_done[e]
           /\ total_batch_list'[e] = Append(total_batch_list[e], Row(e))
           /\ episode_lengths'[e] =
                  IF is_done[e] THEN episode_lengths[e] ELSE episode_lengths[e] + 1
           /\ is_done'[e] = (is_done[e] \/ replies[e].done)
           /\ is_done[e] \in BOOLEAN
           /\ total_batch_list[e] \in Seq([reward : Int, active : BOOLEAN, won : BOOLEAN])
<1> USE ConstantsOK DEF Assumptions
<1>1. /\ phase = "step"
      /\ replies[e] # Pending
      /\ replies \in [Envs -> Outcomes \cup {Pending}]
      /\ active_masks = [f \in Envs |-> ~is_done[f]]
      /\ is_done \in [Envs -> BOOLEAN]
  BY DEF CollectStep, RolloutInv, TypeOK, LoopState
<1>2. replies[e] \in Outcome
  BY <1>1
<1>3. /\ Row(e).active = ~is_done[e]
      /\ Row(e) \in [reward : Int, active : BOOLEAN, won : BOOLEAN]
  BY <1>1, <1>2 DEF Row, Outcome
<1>4. total_batch_list'[e] = Append(total_batch_list[e], Row(e))
  BY DEF CollectStep
<1>5. episode_lengths'[e] =
          IF is_done[e] THEN episode_lengths[e] ELSE episode_lengths[e] + 1
  BY <1>1 DEF CollectStep, AddActive
<1>6. is_done'[e] = (is_done[e] \/ replies[e].done)
  BY DEF CollectStep, DoneAfter
<1>7. total_batch_list[e] \in Seq([reward : Int, active : BOOLEAN, won : BOOLEAN])
  BY DEF RolloutInv, TypeOK
<1> QED
  BY <1>1, <1>2, <1>3, <1>4, <1>5, <1>6, <1>7

LEMMA CollectTypeOK == RolloutInv /\ CollectStep => TypeOK'
<1> SUFFICES ASSUME RolloutInv, CollectStep PROVE TypeOK'
  OBVIOUS
<1> USE ConstantsOK DEF Assumptions
<1>1. /\ episode_rewards' \in [Envs -> Int]
      /\ episode_lengths' \in [Envs -> Nat]
      /\ tool_callings' \in [Envs -> Nat]
  BY CollectedRow, SMTT(30) DEF CollectStep, AddActive, Outcome, RolloutInv, TypeOK
<1>2. total_batch_list' \in
          [Envs -> Seq([reward : Int, active : BOOLEAN, won : BOOLEAN])]
  <2>1. \A e \in Envs : Append(total_batch_list[e], Row(e))
            \in Seq([reward : Int, active : BOOLEAN, won : BOOLEAN])
    BY CollectedRow
  <2> QED
    BY <2>1 DEF CollectStep
<1>3. is_done' \in [Envs -> BOOLEAN]
  BY CollectedRow DEF CollectStep, DoneAfter, Outcome
<1>4. phase' \in {"generate", "step", "evaluate", "gather", "finished"}
  BY DEF CollectStep
<1> QED
  BY <1>1, <1>2, <1>3, <1>4 DEF CollectStep, RolloutInv, TypeOK

LEMMA CollectActivePrefix == RolloutInv /\ CollectStep => ActivePrefix'
<1> SUFFICES ASSUME RolloutInv, CollectStep, NEW e \in Envs
             PROVE  /\ episode_lengths'[e] <= Len(total_batch_list'[e])
                    /\ \A k \in 1 .. Len(total_batch_list'[e]) :
                           total_batch_list'[e][k].active <=> k <= episode_lengths'[e]
  BY DEF ActivePrefix
<1> DEFINE tbl == total_batch_list[e]
<1>1. /\ episode_lengths[e] \in Nat
      /\ episode_lengths[e] <= Len(tbl)
      /\ \A k \in 1 .. Len(tbl) : tbl[k].active <=> k <= episode_lengths[e]
      /\ Len(tbl) = NumTurns
      /\ ~is_done[e] => episode_lengths[e] = NumTurns
  BY DEF RolloutInv, TypeOK, ActivePrefix, LoopState
<1>2. /\ Len(total_batch_list'[e]) = Len(tbl) + 1
      /\ Len(tbl) \in Nat
      /\ \A k \in 1 .. Len(tbl) : total_batch_list'[e][k] = tbl[k]
      /\ total_batch_list'[e][Len(tbl) + 1] = Row(e)
  BY CollectedRow
<1>3. Row(e).active = ~is_done[e]
  BY CollectedRow
<1>4. /\ is_done[e] => episode_lengths'[e] = episode_lengths[e]
      /\ ~is_done[e] => episode_lengths'[e] = episode_lengths[e] + 1
  BY CollectedRow
<1>5. episode_lengths'[e] <= Len(total_batch_list'[e])
  BY <1>1, <1>2, <1>4
<1>6. ASSUME NEW k \in 1 .. Len(total_batch_list'[e])
      PROVE  total_batch_list'[e][k].active <=> k <= episode_lengths'[e]
  <2>1. CASE k \in 1 .. Len(tbl)
    <3>1. tbl[k].active <=> k <= episode_lengths[e]
      BY <2>1, <1>1
    <3>2. total_batch_list'[e][k] = tbl[k]
      BY <2>1, <1>2
    <3>3. k <= episode_lengths'[e] <=> k <= episode_lengths[e]
      BY <2>1, <1>1, <1>4
    <3> QED
      BY <3>1, <3>2, <3>3, Zenon
  <2>2. CASE k = Len(tbl) + 1
    <3>1. total_batch_list'[e][k] = Row(e)
      BY <2>2, <1>2
    <3>2. k <= episode_lengths'[e] <=> ~is_done[e]
      BY <2>2, <1>1, <1>2, <1>4
    <3> QED
      BY <3>1, <3>2, <1>3, Zenon
  <2> QED
    BY <2>1, <2>2, <1>2
<1> QED
  BY <1>5, <1>6

LEMMA CollectLoopState == RolloutInv /\ CollectStep => LoopState'
<1> SUFFICES ASSUME RolloutInv, CollectStep PROVE LoopState'
  OBVIOUS
<1> USE ConstantsOK, ZeroIsEnv DEF Assumptions
<1>1. /\ NumTurns \in Nat
      /\ NumTurns < MaxSteps
      /\ NumTurns' = NumTurns + 1
      /\ \A e \in Envs : Len(total_batch_list'[e]) = NumTurns'
  <2>1. \A e \in Envs : Len(total_batch_list'[e]) = Len(total_batch_list[e]) + 1
    BY CollectedRow
  <2>2. /\ \A e \in Envs : Len(total_batch_list[e]) = NumTurns
        /\ NumTurns \in 0 .. MaxSteps
        /\ NumTurns < MaxSteps
    BY DEF RolloutInv, LoopState, CollectStep
  <2>3. NumTurns' = NumTurns + 1
    BY <2>1, <2>2 DEF NumTurns
  <2> QED
    BY <2>1, <2>2, <2>3
<1>2. \A e \in Envs :
          /\ episode_lengths[e] \in Nat
          /\ is_done[e] => episode_lengths[e] > 0
          /\ ~is_done[e] => episode_lengths[e] = NumTurns
  BY DEF RolloutInv, TypeOK, LoopState
<1>3. \A e \in Envs :
          /\ ~is_done'[e] => episode_lengths'[e] = NumTurns'
          /\ episode_lengths'[e] > 0
  BY <1>1, <1>2, CollectedRow
<1>4. LoopOver <=> (\A e \in Envs : is_done'[e]) \/ NumTurns' = MaxSteps
  BY <1>1, CollectedRow DEF LoopOver, DoneAfter
<1>5. /\ LoopOver => phase' = "evaluate"
      /\ ~LoopOver => phase' = "generate"
  BY DEF CollectStep
<1>6. CASE LoopOver
  BY <1>1, <1>3, <1>4, <1>5, <1>6 DEF LoopState
<1>7. CASE ~LoopOver
  <2>1. NumTurns' < MaxSteps /\ \E e \in Envs : ~is_done'[e]
    BY <1>1, <1>4, <1>7
  <2> QED
    BY <2>1, <1>1, <1>3, <1>5, <1>7 DEF LoopState
<1> QED
  BY <1>6, <1>7

LEMMA CollectInv == RolloutInv /\ CollectStep => RolloutInv'
<1> SUFFICES ASSUME RolloutInv, CollectStep PROVE RolloutInv'
  OBVIOUS
<1>1. phase' \notin {"gather", "finished"}
  BY DEF CollectStep
<1>2. SuccessOfLastTurn' /\ BatchIsTheEpisodes'
  BY <1>1 DEF SuccessOfLastTurn, BatchIsTheEpisodes
<1> QED
  BY <1>2, CollectTypeOK, CollectActivePrefix, CollectLoopState DEF RolloutInv

(* Once the loop is over every episode has had at least one turn. *)
LEMMA EveryEpisodeHasATurn ==
    ASSUME RolloutInv, phase \in {"evaluate", "gather", "finished"}, NEW e \in Envs
    PROVE  /\ episode_lengths[e] \in 1 .. Len(total_batch_list[e])
           /\ Len(total_batch_list[e]) \in Nat
           /\ DOMAIN total_batch_list[e] = 1 .. Len(total_batch_list[e])
           /\ Len(total_batch_list[e]) <= MaxSteps
<1>1. episode_lengths[e] > 0
  BY ConstantsOK DEF Assumptions, RolloutInv, LoopState
<1>2. /\ episode_lengths[e] \in Nat
      /\ total_batch_list[e] \in Seq([reward : Int, active : BOOLEAN, won : BOOLEAN])
      /\ episode_lengths[e] <= Len(total_batch_list[e])
      /\ Len(total_batch_list[e]) = NumTurns
      /\ NumTurns \in 0 .. MaxSteps
  BY DEF RolloutInv, TypeOK, ActivePrefix, LoopState
<1> QED
  BY <1>1, <1>2

(* The scan of _process_batch stops at turn episode_lengths[e]. *)
LEMMA LastActive ==
    ASSUME RolloutInv, phase = "evaluate", NEW e \in Envs, NEW k
    PROVE  k \in DOMAIN total_batch_list[e] /\ IsLastActive(e, k)
              <=> k = episode_lengths[e]
<1> DEFINE n == episode_lengths[e]
           len == Len(total_batch_list[e])
<1>1. /\ n \in 1 .. len
      /\ len \in Nat
      /\ DOMAIN total_batch_list[e] = 1 .. len
  BY EveryEpisodeHasATurn
<1>2. \A j \in 1 .. len : total_batch_list[e][j].active <=> j <= n
  BY DEF RolloutInv, ActivePrefix
<1>3. ASSUME k \in DOMAIN total_batch_list[e], IsLastActive(e, k) PROVE k = n
  <2>1. k \in 1 .. len /\ k <= n
    BY <1>1, <1>2, <1>3 DEF IsLastActive
  <2>2. n <= k
    BY <1>1, <1>2, <1>3 DEF IsLastActive
  <2> QED
    BY <2>1, <2>2, <1>1
<1>4. ASSUME k = n PROVE k \in DOMAIN total_batch_list[e] /\ IsLastActive(e, k)
  <2>1. k \in 1 .. len /\ k <= n
    BY <1>1, <1>4
  <2> QED
    BY <2>1, <1>1, <1>2, <1>4 DEF IsLastActive
<1> QED
  BY <1>3, <1>4

LEMMA EvaluateInv == RolloutInv /\ Evaluate => RolloutInv'
<1> SUFFICES ASSUME RolloutInv, Evaluate PROVE RolloutInv'
  OBVIOUS
<1> USE DEF Evaluate, totals
<1>1. TypeOK'
  BY DEF RolloutInv, TypeOK
<1>2. ActivePrefix'
  BY DEF RolloutInv, ActivePrefix
<1>3. LoopState'
  BY DEF RolloutInv, LoopState, NumTurns
<1>4. SuccessOfLastTurn'
  <2>1. ASSUME NEW e \in Envs
        PROVE  (CHOOSE k \in DOMAIN total_batch_list[e] : IsLastActive(e, k))
                  = episode_lengths[e]
    BY LastActive
  <2> QED
    BY <2>1 DEF SuccessOfLastTurn
<1>5. BatchIsTheEpisodes'
  BY DEF BatchIsTheEpisodes
<1> QED
  BY <1>1, <1>2, <1>3, <1>4, <1>5 DEF RolloutInv

(* The rows that gather_rollout_data keeps are turns 1 .. episode_lengths. *)
LEMMA KeptRows ==
    ASSUME RolloutInv, phase = "gather", NEW e \in Envs
    PROVE  EffectiveRows(e) = 1 .. episode_lengths[e]
BY EveryEpisodeHasATurn DEF RolloutInv, TypeOK, ActivePrefix, EffectiveRows

LEMMA GatherInv == RolloutInv /\ Gather => RolloutInv'
<1> SUFFICES ASSUME RolloutInv, Gather PROVE RolloutInv'
  OBVIOUS
<1> USE DEF Gather, totals
<1>1. \A r : r \in batch' <=>
          \E e \in Envs : \E k \in 1 .. episode_lengths[e] : r = GatheredRow(e, k)
  <2>1. \A r : r \in batch' <=>
            \E e \in Envs : \E k \in EffectiveRows(e) : r = GatheredRow(e, k)
    <3> DEFINE RowsOf(e) == { GatheredRow(e, k) : k \in EffectiveRows(e) }
    <3>1. batch' = UNION { RowsOf(e) : e \in Envs }
      OBVIOUS
    <3>2. \A e \in Envs : \A r : r \in RowsOf(e) <=>
            \E k \in EffectiveRows(e) : r = GatheredRow(e, k)
      OBVIOUS
    <3> HIDE DEF RowsOf
    <3>3. \A r : r \in batch' <=> \E e \in Envs : r \in RowsOf(e)
      BY <3>1
    <3> QED
      BY <3>2, <3>3
  <2>2. \A e \in Envs : EffectiveRows(e) = 1 .. episode_lengths[e]
    BY KeptRows
  <2> QED
    BY <2>1, <2>2, Zenon
<1>2. TypeOK'
  <2>1. \A e \in Envs : \A k \in 1 .. episode_lengths[e] : GatheredRow(e, k) \in Batch
    <3> TAKE e \in Envs
    <3> TAKE k \in 1 .. episode_lengths[e]
    <3>1. k \in 1 .. MaxSteps /\ k \in 1 .. Len(total_batch_list[e])
      BY EveryEpisodeHasATurn, ConstantsOK DEF Assumptions
    <3>2. total_batch_list[e] \in Seq([reward : Int, active : BOOLEAN, won : BOOLEAN])
      BY DEF RolloutInv, TypeOK
    <3>3. total_batch_list[e][k] \in [reward : Int, active : BOOLEAN, won : BOOLEAN]
      BY <3>1, <3>2, SeqElement
    <3>4. total_batch_list[e][k].reward \in Int
      BY <3>3
    <3> QED
      BY <3>1, <3>4, UidType DEF RolloutInv, TypeOK, Batch, GatheredRow
  <2>2. batch' \subseteq Batch
    BY <2>1, <1>1
  <2> QED
    BY <2>2 DEF RolloutInv, TypeOK
<1>3. ActivePrefix'
  BY DEF RolloutInv, ActivePrefix
<1>4. LoopState'
  BY DEF RolloutInv, LoopState, NumTurns
<1>5. SuccessOfLastTurn'
  BY DEF RolloutInv, SuccessOfLastTurn
<1>6. BatchIsTheEpisodes'
  <2>1. ASSUME NEW e \in Envs
        PROVE  { r.turn : r \in { b \in batch' : b.traj_uid = e } }
                   = 1 .. episode_lengths[e]
    <3>1. \A k \in 1 .. episode_lengths[e] :
              /\ GatheredRow(e, k) \in batch'
              /\ GatheredRow(e, k).traj_uid = e
              /\ GatheredRow(e, k).turn = k
      BY <1>1, <2>1 DEF GatheredRow
    <3>2. \A r \in batch' : r.traj_uid = e => r.turn \in 1 .. episode_lengths[e]
      BY <1>1 DEF GatheredRow
    <3> QED
      BY <3>1, <3>2
  <2>2. \A e \in Envs : episode_lengths[e] > 0
    BY EveryEpisodeHasATurn
  <2>3. \A a, b \in batch' :
            a.traj_uid = b.traj_uid =>
                /\ a.episode_rewards = b.episode_rewards
                /\ a.episode_lengths = b.episode_lengths
                /\ a.turn = b.turn => a = b
    BY <1>1 DEF GatheredRow
  <2> QED
    BY <2>1, <2>2, <2>3 DEF BatchIsTheEpisodes
<1> QED
  BY <1>2, <1>3, <1>4, <1>5, <1>6 DEF RolloutInv

LEMMA NextInv == RolloutInv /\ [Next]_vars => RolloutInv'
<1> SUFFICES ASSUME RolloutInv, [Next]_vars PROVE RolloutInv'
  OBVIOUS
<1>1. CASE Generate
  BY <1>1, GenerateInv
<1>2. CASE \E e \in Envs : WorkerStep(e)
  BY <1>2, WorkerStepInv
<1>3. CASE CollectStep
  BY <1>3, CollectInv
<1>4. CASE Evaluate
  BY <1>4, EvaluateInv
<1>5. CASE Gather
  BY <1>5, GatherInv
<1>6. CASE UNCHANGED vars
  BY <1>6 DEF vars, RolloutInv, TypeOK, ActivePrefix, LoopState, NumTurns,
              SuccessOfLastTurn, BatchIsTheEpisodes
<1> QED
  BY <1>1, <1>2, <1>3, <1>4, <1>5, <1>6 DEF Next, Finished

(* The inductive invariant holds in every state of every rollout. *)
THEOREM RolloutInvariant == Spec => []RolloutInv
BY InitInv, NextInv, PTL DEF Spec

(* Type correctness of the loop's arrays and of the gathered batch. *)
THEOREM RolloutTypeOK == Spec => []TypeOK
<1>1. RolloutInv => TypeOK
  BY DEF RolloutInv
<1> QED
  BY <1>1, RolloutInvariant, PTL

(* Active rows are a prefix as long as episode_lengths says, for every number
   of environments and whatever they answer after their end. *)
THEOREM RolloutActivePrefix == Spec => []ActivePrefix
<1>1. RolloutInv => ActivePrefix
  BY DEF RolloutInv
<1> QED
  BY <1>1, RolloutInvariant, PTL

(* The loop never cuts an episode short and never exceeds the turn limit. *)
THEOREM RolloutStopsInTime == Spec => []StoppedOnlyWhenOver
<1>1. RolloutInv => StoppedOnlyWhenOver
  BY ConstantsOK DEF Assumptions, RolloutInv, LoopState, StoppedOnlyWhenOver
<1> QED
  BY <1>1, RolloutInvariant, PTL

(* The success verdict of an episode is the one of its own last turn. *)
THEOREM RolloutSuccess == Spec => []SuccessOfLastTurn
<1>1. RolloutInv => SuccessOfLastTurn
  BY DEF RolloutInv
<1> QED
  BY <1>1, RolloutInvariant, PTL

(* The gathered batch is exactly the turns of the episodes. *)
THEOREM RolloutBatch == Spec => []BatchIsTheEpisodes
<1>1. RolloutInv => BatchIsTheEpisodes
  BY DEF RolloutInv
<1> QED
  BY <1>1, RolloutInvariant, PTL

(* One collected turn advances every running episode and freezes the rest. *)
LEMMA CollectIsTurn == RolloutInv /\ CollectStep => EpisodesOf!Turn
<1> SUFFICES ASSUME RolloutInv, CollectStep PROVE EpisodesOf!Turn
  OBVIOUS
<1>1. /\ phase = "step"
      /\ active_masks = [e \in Envs |-> ~is_done[e]]
      /\ NumTurns < MaxSteps
      /\ \E e \in Envs : ~is_done[e]
      /\ \A e \in Envs : ~is_done[e] => episode_lengths[e] = NumTurns
  BY DEF CollectStep, RolloutInv, LoopState
<1>2. ASSUME NEW e \in Envs, is_done[e] PROVE EpisodesOf!Frozen(e)
  BY <1>1, <1>2 DEF CollectStep, AddActive, DoneAfter, EpisodesOf!Frozen
<1>3. ASSUME NEW e \in Envs, ~is_done[e] PROVE EpisodesOf!Advance(e)
  <2>1. replies[e] \in Outcomes
    BY DEF CollectStep, RolloutInv, TypeOK
  <2>2. /\ is_done'[e] \in BOOLEAN
        /\ episode_lengths'[e] = episode_lengths[e] + 1
    BY <1>3, CollectedRow DEF Outcome
  <2>3. /\ episode_rewards'[e] = episode_rewards[e] + replies[e].reward
        /\ tool_callings'[e] = tool_callings[e] + replies[e].tool
    BY <1>1, <1>3 DEF CollectStep, AddActive
  <2> QED
    BY <2>1, <2>2, <2>3, <1>1, <1>3 DEF EpisodesOf!Advance
<1>4. /\ DOMAIN is_done' = Envs
      /\ DOMAIN episode_rewards' = Envs
      /\ DOMAIN episode_lengths' = Envs
      /\ DOMAIN tool_callings' = Envs
  BY DEF CollectStep, AddActive
<1> QED
  BY <1>1, <1>2, <1>3, <1>4 DEF EpisodesOf!Turn

(* The batched loop implements independent episodes: for every batch size,
   the totals it reports are those of episodes that stop at their own end. *)
THEOREM RolloutImplementsEpisodes == Spec => ImplementsEpisodes
<1>1. Init => EpisodesOf!Init
  BY DEF Init, EpisodesOf!Init
<1>2. RolloutInv /\ [Next]_vars => [EpisodesOf!Turn]_(EpisodesOf!evars)
  <2> SUFFICES ASSUME RolloutInv, [Next]_vars
               PROVE  EpisodesOf!Turn \/ UNCHANGED EpisodesOf!evars
    OBVIOUS
  <2>1. CASE CollectStep
    BY <2>1, CollectIsTurn
  <2>2. CASE UNCHANGED <<is_done, totals>>
    BY <2>2 DEF totals, EpisodesOf!evars
  <2> QED
    BY <2>1, <2>2 DEF Next, vars, totals, Generate, WorkerStep, Evaluate, Gather,
                      Finished
<1> QED
  BY <1>1, <1>2, RolloutInvariant, PTL DEF Spec, ImplementsEpisodes, EpisodesOf!Spec
=============================================================================

----------------------------- MODULE Checkpoint -----------------------------
(***************************************************************************)
(* The training loop of RayPPOTrainer.fit seen through its checkpoints:    *)
(* _save_checkpoint and _load_checkpoint (verl/trainer/ppo/ray_trainer.py),*)
(* FSDPCheckpointManager and find_latest_ckpt_path (verl/utils/checkpoint).*)
(*                                                                         *)
(* A job may die between any two of its steps and be started again; what   *)
(* is on disk survives, what is in memory does not.  Every file is written *)
(* in two steps, so that a death in between leaves it torn.                *)
(***************************************************************************)
EXTENDS Integers, Sequences, FiniteSets

CONSTANTS
    Ranks,          \* ranks of the worker group, one shard each
    UseCritic,      \* whether a critic is trained and saved after the actor
    TotalSteps,     \* total_training_steps
    SaveFreq,       \* trainer.save_freq
    MaxKeep,        \* max_{actor,critic}_ckpt_to_keep, 0 for null
    EpochLen,       \* len(train_dataloader)
    Epochs,         \* trainer.total_epochs
    Modes,          \* the resume modes the job is started with
    MaxRuns         \* bound: how often the job is started

ASSUME RanksAssumption == Ranks # {}
ASSUME NumbersAssumption ==
    /\ {TotalSteps, EpochLen, Epochs, MaxRuns} \subseteq Nat \ {0}
    /\ {SaveFreq, MaxKeep} \subseteq Nat
    /\ UseCritic \in BOOLEAN
ASSUME ModesAssumption == Modes \subseteq {"auto", "disable"}

Roles == IF UseCritic THEN {"actor", "critic"} ELSE {"actor"}
MaxStep == TotalSteps + MaxRuns     \* no job trains past this step

(* A shard remembers the run that wrote it and the weights it holds, named
   by the number of updates behind them. *)
Shard == [run : 0 .. MaxRuns, updates : Int]
Absent == [run |-> 0, updates |-> 0]
TornShard == [run |-> 0, updates |-> -1]
NoFile == -1
TornFile == -2

VARIABLES
    (* on disk *)
    shards,         \* shards[step][role][rank]
    data_pt,        \* data_pt[step]: the dataloader position, or no file
    tracker,        \* latest_checkpointed_iteration.txt
    (* in memory *)
    run,            \* which start of the job this is
    pc,             \* what the driver is doing
    rank_pc,        \* what each rank is doing inside save_checkpoint
    global_steps,
    epoch, position,\* of the loop over the dataloader
    updates,        \* the weights, named by the number of updates
    previous_saved_paths    \* previous_saved_paths[role], of every rank

disk == <<shards, data_pt, tracker>>
loop == <<global_steps, epoch, position, updates>>
vars == <<disk, run, pc, rank_pc, loop, previous_saved_paths>>

-----------------------------------------------------------------------------
Init ==
    /\ shards = [s \in 1 .. MaxStep |-> [o \in Roles |-> [r \in Ranks |-> Absent]]]
    /\ data_pt = [s \in 1 .. MaxStep |-> NoFile]
    /\ tracker = NoFile
    /\ run = 0
    /\ pc = "down"
    /\ rank_pc = [r \in Ranks |-> "idle"]
    /\ global_steps = 0
    /\ epoch = 0
    /\ position = 0
    /\ updates = 0
    /\ previous_saved_paths = [o \in Roles |-> <<>>]

-----------------------------------------------------------------------------
(* Starting the job: _load_checkpoint, then the loop from the step after.  *)

(* Every rank of every role finds its files.  (The folder of a step that was
   ever saved exists: rotation removes what is in it, never the folder.) *)
Loadable(s) ==
    /\ \A o \in Roles : \A r \in Ranks : shards[s][o][r] \notin {Absent, TornShard}
    /\ data_pt[s] # TornFile

BeginAgain(step, pos, weights) ==                              \* mutant
    /\ pc' = "train"
    /\ global_steps' = (IF step = 0 THEN 1 ELSE step)
    /\ epoch' = 0
    /\ position' = pos
    /\ updates' = weights

BeginWithFreshData(step, pos, weights) ==                      \* mutant
    /\ pc' = "train"
    /\ global_steps' = step + 1
    /\ epoch' = 0
    /\ position' = 0
    /\ updates' = weights

(* fit starts from the step after the loaded one; a missing dataloader state
   means the data from the start. *)
Begin(step, pos, weights) ==
    /\ pc' = "train"
    /\ global_steps' = step + 1
    /\ epoch' = 0
    /\ position' = (IF pos = NoFile THEN 0 ELSE pos)
    /\ updates' = weights

StartRun ==
    /\ pc = "down"
    /\ run < MaxRuns
    /\ run' = run + 1
    /\ previous_saved_paths' = [o \in Roles |-> <<>>]
    /\ rank_pc' = [r \in Ranks |-> "idle"]
    /\ UNCHANGED disk

(* resume_mode "disable", or no tracker file. *)
StartFromScratch ==
    /\ StartRun
    /\ "disable" \in Modes \/ tracker = NoFile
    /\ Begin(0, 0, 0)

(* The tracker names a folder and every rank finds its shards in it. *)
Resume ==
    /\ StartRun
    /\ "auto" \in Modes
    /\ tracker \in 1 .. MaxStep
    /\ Loadable(tracker)
    /\ \E r \in Ranks :
           Begin(tracker, data_pt[tracker], shards[tracker]["actor"][r].updates)

(* int() of an empty tracker, or torch.load of a missing or torn file: the
   job fails, and will fail the same way whenever it is started again. *)
ResumeFails ==
    /\ StartRun
    /\ "auto" \in Modes
    /\ \/ tracker = TornFile
       \/ tracker \in 1 .. MaxStep /\ ~Loadable(tracker)
    /\ pc' = "failed"
    /\ UNCHANGED loop

-----------------------------------------------------------------------------
(* The loop of fit. *)

IsPastLastStep == global_steps > TotalSteps                    \* mutant
IsLastStep == global_steps >= TotalSteps

(* The end of an iteration, once the checkpoint, if any, is complete. *)
NextIteration ==
    /\ global_steps' = global_steps + 1
    /\ pc' = IF IsLastStep THEN "done" ELSE "train"

SaveOnMultiplesOnly == SaveFreq > 0 /\ global_steps % SaveFreq = 0  \* mutant
SaveNow == SaveFreq > 0 /\ (IsLastStep \/ global_steps % SaveFreq = 0)

(* Rollout, advantages and the update of actor and critic on one batch. *)
TrainStep ==
    /\ pc = "train"
    /\ position < EpochLen
    /\ position' = position + 1
    /\ updates' = updates + 1
    /\ IF SaveNow
       THEN /\ pc' = "save actor"
            /\ rank_pc' = [r \in Ranks |-> "rotate"]
            /\ UNCHANGED global_steps
       ELSE /\ NextIteration
            /\ UNCHANGED rank_pc
    /\ UNCHANGED <<disk, run, epoch, previous_saved_paths>>

(* The dataloader is exhausted: the next epoch, or the end of the loop. *)
EndEpoch ==
    /\ pc = "train"
    /\ position = EpochLen
    /\ epoch' = epoch + 1
    /\ position' = 0
    /\ pc' = IF epoch + 1 = Epochs THEN "done" ELSE "train"
    /\ UNCHANGED <<disk, run, rank_pc, global_steps, updates, previous_saved_paths>>

-----------------------------------------------------------------------------
(* _save_checkpoint: the actor's manager, the critic's, data.pt, tracker.  *)

Saving == IF pc = "save actor" THEN "actor" ELSE "critic"
IsSaving == pc \in {"save actor", "save critic"}

RotateAll(role) == Len(previous_saved_paths[role])             \* mutant
RotateOneLate(role) ==                                         \* mutant
    IF MaxKeep > 0 /\ Len(previous_saved_paths[role]) > MaxKeep
    THEN Len(previous_saved_paths[role]) - MaxKeep
    ELSE 0

(* How many of the oldest saved paths save_checkpoint removes. *)
KeepStart(role) ==
    IF MaxKeep > 0 /\ Len(previous_saved_paths[role]) >= MaxKeep
    THEN Len(previous_saved_paths[role]) - MaxKeep + 1
    ELSE 0

Rotated(role) ==
    { previous_saved_paths[role][i] : i \in 1 .. KeepStart(role) }

(* Every rank removes the old directories, whole, before it writes. *)
Rotate(r) ==
    /\ IsSaving
    /\ rank_pc[r] = "rotate"
    /\ rank_pc' = [rank_pc EXCEPT ![r] = "ready"]
    /\ shards' = [s \in 1 .. MaxStep |->
           IF s \in Rotated(Saving)
           THEN [shards[s] EXCEPT ![Saving] = [q \in Ranks |-> Absent]]
           ELSE shards[s]]
    /\ UNCHANGED <<data_pt, tracker, run, pc, loop, previous_saved_paths>>

PutShard(r, shard) == [shards EXCEPT ![global_steps][Saving][r] = shard]

BarrierNeedsEveryoneAtOnce(r) ==                               \* mutant
    /\ IsSaving
    /\ \A q \in Ranks : rank_pc[q] = "ready"
    /\ rank_pc' = [rank_pc EXCEPT ![r] = "writing"]
    /\ shards' = PutShard(r, TornShard)
    /\ UNCHANGED <<data_pt, tracker, run, pc, loop, previous_saved_paths>>

(* The first barrier: nobody writes before everybody has rotated. *)
BeginShard(r) ==
    /\ IsSaving
    /\ rank_pc[r] = "ready"
    /\ \A q \in Ranks : rank_pc[q] # "rotate"
    /\ rank_pc' = [rank_pc EXCEPT ![r] = "writing"]
    /\ shards' = PutShard(r, TornShard)
    /\ UNCHANGED <<data_pt, tracker, run, pc, loop, previous_saved_paths>>

EndShard(r) ==
    /\ IsSaving
    /\ rank_pc[r] = "writing"
    /\ rank_pc' = [rank_pc EXCEPT ![r] = "written"]
    /\ shards' = PutShard(r, [run |-> run, updates |-> updates])
    /\ UNCHANGED <<data_pt, tracker, run, pc, loop, previous_saved_paths>>

Recorded ==
    [previous_saved_paths EXCEPT ![Saving] =
        Append(SubSeq(@, KeepStart(Saving) + 1, Len(@)), global_steps)]

(* The second barrier: the path is remembered, and the driver goes on to the
   critic or to the dataloader. *)
RoleSaved ==
    /\ IsSaving
    /\ \A r \in Ranks : rank_pc[r] = "written"
    /\ previous_saved_paths' = Recorded
    /\ IF Saving = "actor" /\ UseCritic
       THEN /\ pc' = "save critic"
            /\ rank_pc' = [r \in Ranks |-> "rotate"]
       ELSE /\ pc' = "save data"
            /\ rank_pc' = [r \in Ranks |-> "idle"]
    /\ UNCHANGED <<disk, run, loop>>

(* train_dataloader.state_dict() *)
DataState == position

BeginData ==
    /\ pc = "save data"
    /\ pc' = "writing data"
    /\ data_pt' = [data_pt EXCEPT ![global_steps] = TornFile]
    /\ UNCHANGED <<shards, tracker, run, rank_pc, loop, previous_saved_paths>>

EndData ==
    /\ pc = "writing data"
    /\ pc' = "save tracker"
    /\ data_pt' = [data_pt EXCEPT ![global_steps] = DataState]
    /\ UNCHANGED <<shards, tracker, run, rank_pc, loop, previous_saved_paths>>

(* open(tracker, "w") empties the file, f.write fills it. *)
BeginTracker ==
    /\ pc = "save tracker"
    /\ pc' = "writing tracker"
    /\ tracker' = TornFile
    /\ UNCHANGED <<shards, data_pt, run, rank_pc, loop, previous_saved_paths>>

EndTracker ==
    /\ pc = "writing tracker"
    /\ tracker' = global_steps
    /\ NextIteration
    /\ UNCHANGED <<shards, data_pt, run, rank_pc, epoch, position, updates,
                   previous_saved_paths>>

-----------------------------------------------------------------------------
(* The job dies; only the disk is left.  A job that has trained to the end
   may be submitted again, like one that has died. *)
Crash ==
    /\ run < MaxRuns
    /\ pc \notin {"down", "failed"}
    /\ pc' = "down"
    /\ rank_pc' = [r \in Ranks |-> "idle"]
    /\ previous_saved_paths' = [o \in Roles |-> <<>>]
    /\ global_steps' = 0 /\ epoch' = 0 /\ position' = 0 /\ updates' = 0
    /\ UNCHANGED <<disk, run>>

Stopped == pc \in {"done", "failed"} /\ UNCHANGED vars

Save ==
    \/ \E r \in Ranks : Rotate(r) \/ BeginShard(r) \/ EndShard(r)
    \/ RoleSaved
    \/ BeginData \/ EndData
    \/ BeginTracker \/ EndTracker

Progress == StartFromScratch \/ Resume \/ ResumeFails \/ TrainStep \/ EndEpoch \/ Save

Next == Progress \/ Crash \/ Stopped

Spec == Init /\ [][Next]_vars

(* A running job does not hang, and a job that died is started again. *)
FairSpec == Spec /\ WF_vars(Progress)

-----------------------------------------------------------------------------
Steps == 1 .. MaxStep

TypeOK ==
    /\ shards \in [Steps -> [Roles -> [Ranks -> Shard]]]
    /\ data_pt \in [Steps -> {NoFile, TornFile} \cup 0 .. EpochLen]
    /\ tracker \in {NoFile, TornFile} \cup Steps
    /\ run \in 0 .. MaxRuns
    /\ pc \in {"down", "train", "save actor", "save critic", "save data",
              "writing data", "save tracker", "writing tracker", "done", "failed"}
    /\ rank_pc \in [Ranks -> {"idle", "rotate", "ready", "writing", "written"}]
    /\ global_steps \in 0 .. MaxStep + 1
    /\ epoch \in 0 .. Epochs
    /\ position \in 0 .. EpochLen
    /\ updates \in 0 .. MaxStep
    /\ previous_saved_paths \in [Roles -> Seq(Steps)]

(* The checkpoint named by the tracker can be restarted from: every shard of
   every role is there, all were written by one and the same run after the
   same update, and the dataloader position was taken at that update too. *)
TrackerIsComplete ==
    tracker \in Steps =>
        /\ \E w \in 1 .. MaxRuns : \A o \in Roles : \A r \in Ranks :
               shards[tracker][o][r] = [run |-> w, updates |-> tracker]
        /\ data_pt[tracker] \in 0 .. EpochLen
        /\ data_pt[tracker] % EpochLen = tracker % EpochLen

(* Across deaths and restarts the weights in memory, the step counter and the
   position in the data stay together: no batch is trained on twice by the
   same weights and none is skipped. *)
ResumeIsConsistent ==
    pc = "train" =>
        /\ updates = global_steps - 1
        /\ updates % EpochLen = position % EpochLen

(* Nothing is written to or removed from the checkpoint the tracker names,
   not by rotation and not by a later run that repeats steps. *)
CommittedUntouched ==
    [][(tracker \in Steps /\ tracker' = tracker) =>
           /\ shards'[tracker] = shards[tracker]
           /\ data_pt'[tracker] = data_pt[tracker]]_vars

(* The only way a job becomes impossible to restart is the empty tracker of a
   death between open(..., "w") and write. *)
FailsOnlyOnTornTracker == pc = "failed" => tracker = TornFile

(* A training that has come to its end has its last weights on disk. *)
DoneMeansSaved == pc = "done" => tracker = global_steps - 1

(* The folders that hold a shard the current run has written. *)
OwnCheckpoints(role) ==
    { s \in Steps : \E r \in Ranks : shards[s][role][r].run = run }

(* Of the checkpoints it wrote itself, a run keeps at most MaxKeep. *)
RotationBound ==
    MaxKeep > 0 /\ run > 0 =>
        \A o \in Roles : Cardinality(OwnCheckpoints(o)) <= MaxKeep

(* Training stops at total_training_steps, but a job started again from the
   last checkpoint trains one step more: never two. *)
OvershootBounded == updates <= TotalSteps + (IF run > 0 THEN run - 1 ELSE 0)

(* However often the job dies, it comes to an end. *)
Finishes == <>[](pc \in {"done", "failed"})
=============================================================================

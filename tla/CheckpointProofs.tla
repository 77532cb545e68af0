-------------------------- MODULE CheckpointProofs --------------------------
(* What a save and a restart keep intact in Checkpoint, for any number of
   ranks, steps, epochs, saves and deaths, when every start resumes from the
   tracker and rotation keeps all the checkpoints or at least two: with one it
   removes the only complete one, and a job started with resume_mode
   "disable" writes over the folders of the job before it.  What rotation
   leaves needs neither. *)
EXTENDS Checkpoint, DataLemmas

SavePCs == {"save actor", "save critic", "save data", "writing data",
            "save tracker", "writing tracker"}
Busy == pc = "train" \/ pc \in SavePCs

(* The shards a rank writes now. *)
Current == [run |-> run, updates |-> updates]

(* Role o has been saved in the save that is going on. *)
Saved(o) ==
    \/ pc \in {"save data", "writing data", "save tracker", "writing tracker"}
    \/ pc = "save critic" /\ o = "actor"

(* Every start of the job may add one step beyond the last. *)
TrackerBound == tracker \in Steps => tracker <= TotalSteps + run - 1

(* Steps only go up: the counter is beyond the tracker and below the bound. *)
LoopInv ==
    /\ pc = "save critic" => UseCritic
    /\ Busy =>
        /\ run >= 1
        /\ global_steps \in 1 .. TotalSteps + run - 1
        /\ updates = IF pc = "train" THEN global_steps - 1 ELSE global_steps
        /\ epoch < Epochs
        /\ tracker \in Steps => tracker < global_steps
        /\ tracker = TornFile <=> pc = "writing tracker"

(* The position in the data fits the number of updates. *)
DataInv == Busy => updates % EpochLen = position % EpochLen

(* A run has saved its paths in order, and none beyond the tracker's except
   that of the save that is going on. *)
PathsInv ==
    Busy => \A o \in Roles :
        /\ \A i, j \in DOMAIN previous_saved_paths[o] :
               i < j => previous_saved_paths[o][i] < previous_saved_paths[o][j]
        /\ \A i \in DOMAIN previous_saved_paths[o] :
               previous_saved_paths[o][i] <= IF Saved(o) THEN global_steps ELSE tracker

(* How far the save that is going on has come. *)
SaveInv ==
    /\ \A o \in Roles : Saved(o) =>
           \A r \in Ranks : shards[global_steps][o][r] = Current
    /\ IsSaving => \A r \in Ranks : rank_pc[r] = "written" =>
           shards[global_steps][Saving][r] = Current
    /\ pc \in {"save tracker", "writing tracker"} => data_pt[global_steps] = position

CheckpointInv ==
    /\ TypeOK /\ TrackerIsComplete /\ TrackerBound /\ LoopInv /\ DataInv
    /\ PathsInv /\ SaveInv /\ FailsOnlyOnTornTracker

-----------------------------------------------------------------------------
(* Remainders: the prover needs to be told how they follow from quotients. *)
LEMMA DivMod ==
    ASSUME NEW a \in Nat, NEW E \in Nat \ {0}
    PROVE  \E q \in Nat, r \in 0 .. E - 1 : a = E * q + r /\ a % E = r
  <1>1. a \div E \in Nat /\ a % E \in 0 .. E - 1 /\ a = E * (a \div E) + (a % E)
    OBVIOUS
  <1> QED
    BY <1>1

LEMMA RemainderIsUnique ==
    ASSUME NEW E \in Nat \ {0}, NEW q \in Int, NEW p \in Int,
           NEW r \in 0 .. E - 1, NEW s \in 0 .. E - 1, E * q + r = E * p + s
    PROVE  r = s
  <1>1. CASE q = p
    BY <1>1
  <1>2. CASE q > p
    <2>1. E * (q - p) >= E
      BY <1>2
    <2> QED
      BY <2>1
  <1>3. CASE q < p
    <2>1. E * (p - q) >= E
      BY <1>3
    <2> QED
      BY <2>1
  <1> QED
    BY <1>1, <1>2, <1>3

LEMMA ModIs ==
    ASSUME NEW E \in Nat \ {0}, NEW q \in Nat, NEW r \in 0 .. E - 1, NEW a \in Nat,
           a = E * q + r
    PROVE  a % E = r
  <1>1. PICK p \in Nat, s \in 0 .. E - 1 : a = E * p + s /\ a % E = s
    BY DivMod
  <1>2. E * q + r = E * p + s
    BY <1>1
  <1>3. q \in Int /\ p \in Int
    OBVIOUS
  <1>4. r = s
    BY <1>2, <1>3, RemainderIsUnique
  <1> QED
    BY <1>1, <1>4

LEMMA ModSucc ==
    ASSUME NEW a \in Nat, NEW E \in Nat \ {0}
    PROVE  (a + 1) % E = IF a % E = E - 1 THEN 0 ELSE (a % E) + 1
  <1>1. PICK q \in Nat, r \in 0 .. E - 1 : a = E * q + r /\ a % E = r
    BY DivMod
  <1>2. CASE r = E - 1
    <2>1. a + 1 = E * (q + 1) + 0
      BY <1>1, <1>2
    <2> QED
      BY <1>1, <1>2, <2>1, ModIs
  <1>3. CASE r # E - 1
    <2> DEFINE b == a + 1
    <2> DEFINE s == r + 1
    <2>1. b \in Nat /\ s \in 0 .. E - 1 /\ b = E * q + s
      BY <1>1, <1>3
    <2> HIDE DEF b, s
    <2>2. b % E = s
      BY <2>1, ModIs
    <2> QED
      BY <1>1, <1>3, <2>2 DEF b, s
  <1> QED
    BY <1>2, <1>3

LEMMA ModZero ==
    ASSUME NEW E \in Nat \ {0}
    PROVE  E % E = 0 /\ 0 % E = 0
  <1>1. E = E * 1 + 0 /\ 0 = E * 0 + 0
    OBVIOUS
  <1> QED
    BY <1>1, ModIs

-----------------------------------------------------------------------------
LEMMA Numbers ==
    /\ TotalSteps \in Nat \ {0} /\ EpochLen \in Nat \ {0}
    /\ Epochs \in Nat \ {0} /\ MaxRuns \in Nat \ {0}
    /\ SaveFreq \in Nat /\ MaxKeep \in Nat /\ UseCritic \in BOOLEAN
    /\ MaxStep \in Nat /\ MaxStep = TotalSteps + MaxRuns
  BY NumbersAssumption DEF MaxStep

LEMMA InitInv == Init => CheckpointInv
  <1> SUFFICES ASSUME Init PROVE CheckpointInv
    OBVIOUS
  <1>1. tracker \notin Steps /\ pc = "down" /\ ~Busy
    BY Numbers DEF Init, Steps, NoFile, Busy, SavePCs
  <1>2. TypeOK
    BY Numbers DEF Init, TypeOK, Steps, Shard, Absent, NoFile, TornFile
  <1> QED
    BY <1>1, <1>2 DEF CheckpointInv, TrackerIsComplete, TrackerBound, LoopInv, DataInv,
        PathsInv, SaveInv,
        Saved, IsSaving, FailsOnlyOnTornTracker

(* The checkpoint the tracker names is as complete as before when neither the
   tracker nor that checkpoint has changed. *)
LEMMA TrackerUntouched ==
    ASSUME TrackerIsComplete, tracker' = tracker,
           tracker \in Steps => /\ shards'[tracker] = shards[tracker]
                                /\ data_pt'[tracker] = data_pt[tracker]
    PROVE  TrackerIsComplete'
  BY DEF TrackerIsComplete, Steps, MaxStep, Roles

(* The run begins with consistent weights, counter and data. *)
LEMMA BeginInv ==
    ASSUME CheckpointInv, StartRun, tracker # TornFile,
           NEW step \in 0 .. MaxStep, NEW pos \in 0 .. EpochLen,
           Begin(step, pos, step),
           tracker \in Steps => tracker = step,
           step <= TotalSteps + run - 1 \/ step = 0,
           step % EpochLen = pos % EpochLen
    PROVE  CheckpointInv'
  <1>1. /\ run \in Nat /\ run' = run + 1 /\ run' \in 1 .. MaxRuns
        /\ pc' = "train" /\ global_steps' = step + 1 /\ epoch' = 0
        /\ position' = pos /\ updates' = step
        /\ previous_saved_paths' = [o \in Roles |-> <<>>]
        /\ rank_pc' = [r \in Ranks |-> "idle"]
        /\ shards' = shards /\ data_pt' = data_pt /\ tracker' = tracker
    BY Numbers DEF StartRun, Begin, disk, CheckpointInv, TypeOK, NoFile
  <1>2. step + 1 \in 1 .. TotalSteps + run' - 1
    BY <1>1, Numbers
  <1>3. TypeOK'
    <2>1. step + 1 \in 0 .. MaxStep + 1 /\ 0 \in 0 .. Epochs
      BY Numbers
    <2>2. previous_saved_paths' \in [Roles -> Seq(Steps)]
      BY <1>1
    <2>3. TypeOK
      BY DEF CheckpointInv
    <2>4. /\ global_steps' \in 0 .. MaxStep + 1 /\ epoch' \in 0 .. Epochs
          /\ position' \in 0 .. EpochLen /\ updates' \in 0 .. MaxStep
          /\ run' \in 0 .. MaxRuns
      BY <1>1, <2>1
    <2> QED
      BY <1>1, <2>2, <2>3, <2>4 DEF TypeOK
  <1>4. TrackerIsComplete'
    BY <1>1, TrackerUntouched DEF CheckpointInv
  <1>5. TrackerBound'
    <2>1. CheckpointInv => TrackerBound
      BY DEF CheckpointInv
    <2> QED
      BY <1>1, <2>1, Numbers DEF TrackerBound, Steps
  <1>6. LoopInv' /\ DataInv'
    <2>1. (tracker \in Steps => tracker < step + 1) /\ 0 < Epochs
      BY Numbers
    <2>2. tracker' # TornFile /\ run' >= 1
      BY <1>1
    <2> QED
      BY <1>1, <1>2, <2>1, <2>2 DEF LoopInv, DataInv
  <1>7. PathsInv'
    BY <1>1 DEF PathsInv
  <1>8. SaveInv' /\ FailsOnlyOnTornTracker'
    BY <1>1 DEF SaveInv, Saved, IsSaving, FailsOnlyOnTornTracker
  <1> QED
    BY <1>3, <1>4, <1>5, <1>6, <1>7, <1>8 DEF CheckpointInv

LEMMA StartFromScratchInv ==
    ASSUME CheckpointInv, StartFromScratch, "disable" \notin Modes
    PROVE  CheckpointInv'
  <1>1. tracker = NoFile /\ tracker \notin Steps /\ tracker # TornFile
    BY DEF StartFromScratch, NoFile, TornFile, Steps
  <1>2. StartRun /\ Begin(0, 0, 0) /\ 0 \in 0 .. MaxStep /\ 0 \in 0 .. EpochLen
    BY Numbers DEF StartFromScratch
  <1> QED
    BY <1>1, <1>2, BeginInv

(* A complete checkpoint is one every rank can load. *)
LEMMA CompleteIsLoadable ==
    ASSUME TrackerIsComplete, tracker \in Steps
    PROVE  /\ Loadable(tracker)
           /\ \A r \in Ranks : shards[tracker]["actor"][r].updates = tracker
           /\ data_pt[tracker] \in 0 .. EpochLen
           /\ tracker % EpochLen = data_pt[tracker] % EpochLen
  <1>1. PICK w \in 1 .. MaxRuns : \A o \in Roles : \A r \in Ranks :
            shards[tracker][o][r] = [run |-> w, updates |-> tracker]
    BY DEF TrackerIsComplete
  <1>2. "actor" \in Roles
    BY DEF Roles
  <1>3. data_pt[tracker] \in 0 .. EpochLen /\ data_pt[tracker] # TornFile
    BY Numbers DEF TrackerIsComplete, TornFile
  <1>4. \A o \in Roles : \A r \in Ranks : shards[tracker][o][r] \notin {Absent, TornShard}
    BY <1>1, Numbers DEF Absent, TornShard
  <1> QED
    BY <1>1, <1>2, <1>3, <1>4 DEF Loadable, TrackerIsComplete

LEMMA ResumeInv ==
    ASSUME CheckpointInv, Resume
    PROVE  CheckpointInv'
  <1>1. tracker \in Steps /\ tracker # TornFile /\ StartRun
    BY DEF Resume, Steps, TornFile
  <1>2. Begin(tracker, data_pt[tracker], tracker)
    BY <1>1, CompleteIsLoadable DEF Resume, CheckpointInv
  <1>3. /\ tracker \in 0 .. MaxStep
        /\ data_pt[tracker] \in 0 .. EpochLen
        /\ tracker % EpochLen = data_pt[tracker] % EpochLen
        /\ tracker <= TotalSteps + run - 1
    <2>1. TrackerIsComplete /\ TrackerBound
      BY DEF CheckpointInv
    <2>2. tracker \in 0 .. MaxStep /\ tracker <= TotalSteps + run - 1
      BY <1>1, <2>1, Numbers DEF TrackerBound, Steps
    <2> QED
      BY <1>1, <2>1, <2>2, CompleteIsLoadable
  <1> QED
    BY <1>1, <1>2, <1>3, BeginInv

LEMMA ResumeFailsInv ==
    ASSUME CheckpointInv, ResumeFails
    PROVE  CheckpointInv'
  <1>1. tracker = TornFile
    BY CompleteIsLoadable DEF ResumeFails, CheckpointInv, Steps
  <1>2. /\ run \in Nat /\ run' = run + 1 /\ run' \in 0 .. MaxRuns /\ pc' = "failed"
        /\ previous_saved_paths' = [o \in Roles |-> <<>>]
        /\ rank_pc' = [r \in Ranks |-> "idle"]
        /\ UNCHANGED <<disk, loop>>
    BY Numbers DEF ResumeFails, StartRun, CheckpointInv, TypeOK
  <1>3. tracker \notin Steps
    BY <1>1 DEF TornFile, Steps
  <1>4. TypeOK'
    <2>1. previous_saved_paths' \in [Roles -> Seq(Steps)]
      BY <1>2
    <2> QED
      BY <1>2, <2>1 DEF CheckpointInv, TypeOK, Steps, disk, loop
  <1> QED
    BY <1>1, <1>2, <1>3, <1>4 DEF CheckpointInv, disk, TrackerIsComplete, TrackerBound,
        LoopInv, DataInv,
        Busy, SavePCs, PathsInv, SaveInv, Saved, IsSaving, FailsOnlyOnTornTracker

-----------------------------------------------------------------------------
(* What the invariant says of a job that trains or saves. *)
LEMMA BusyFacts ==
    ASSUME CheckpointInv, Busy
    PROVE  /\ run \in 1 .. MaxRuns
           /\ global_steps \in 1 .. TotalSteps + run - 1
           /\ global_steps \in Steps
           /\ updates = IF pc = "train" THEN global_steps - 1 ELSE global_steps
           /\ updates \in 0 .. MaxStep
           /\ position \in 0 .. EpochLen
           /\ epoch \in 0 .. Epochs - 1
           /\ tracker \in Steps => tracker < global_steps
           /\ tracker = TornFile <=> pc = "writing tracker"
           /\ tracker \in {NoFile, TornFile} \cup Steps
           /\ TypeOK /\ TrackerIsComplete /\ TrackerBound
  <1>1. TypeOK /\ LoopInv /\ TrackerIsComplete /\ TrackerBound
    BY DEF CheckpointInv
  <1>2. run \in 1 .. MaxRuns /\ epoch \in 0 .. Epochs - 1
    <2>1. run >= 1 /\ epoch < Epochs
      BY <1>1 DEF LoopInv
    <2>2. run \in 0 .. MaxRuns /\ epoch \in 0 .. Epochs
      BY <1>1 DEF TypeOK
    <2> QED
      BY <2>1, <2>2, Numbers
  <1>3. global_steps \in 1 .. TotalSteps + run - 1
    BY <1>1 DEF LoopInv
  <1>4. global_steps \in Steps
    BY <1>2, <1>3, Numbers DEF Steps
  <1>5. /\ updates = IF pc = "train" THEN global_steps - 1 ELSE global_steps
        /\ tracker \in Steps => tracker < global_steps
        /\ tracker = TornFile <=> pc = "writing tracker"
    BY <1>1 DEF LoopInv
  <1>6. /\ updates \in 0 .. MaxStep /\ position \in 0 .. EpochLen
        /\ tracker \in {NoFile, TornFile} \cup Steps
    BY <1>1 DEF TypeOK
  <1> QED
    BY <1>1, <1>2, <1>3, <1>4, <1>5, <1>6

LEMMA TrainStepInv ==
    ASSUME CheckpointInv, TrainStep
    PROVE  CheckpointInv'
  <1>1. /\ pc = "train" /\ position < EpochLen
        /\ position' = position + 1 /\ updates' = updates + 1
        /\ UNCHANGED <<disk, run, epoch, previous_saved_paths>>
        /\ Busy
    BY DEF TrainStep, Busy
  <1>2. /\ run \in 1 .. MaxRuns
        /\ global_steps \in 1 .. TotalSteps + run - 1
        /\ global_steps \in 1 .. MaxStep
        /\ updates = global_steps - 1
        /\ position \in 0 .. EpochLen /\ epoch \in 0 .. Epochs - 1
        /\ tracker \in Steps => tracker < global_steps
        /\ tracker # TornFile
        /\ TypeOK /\ TrackerIsComplete /\ TrackerBound
    BY <1>1, BusyFacts DEF Steps
  <1>3. updates' = global_steps /\ updates \in Nat /\ position \in Nat
    BY <1>1, <1>2
  <1>4. updates' % EpochLen = position' % EpochLen
    <2>1. updates % EpochLen = position % EpochLen
      BY <1>1 DEF CheckpointInv, DataInv
    <2>2. EpochLen \in Nat \ {0}
      BY Numbers
    <2>3. (updates + 1) % EpochLen =
              IF updates % EpochLen = EpochLen - 1 THEN 0 ELSE (updates % EpochLen) + 1
      BY <1>3, <2>2, ModSucc
    <2>4. (position + 1) % EpochLen =
              IF position % EpochLen = EpochLen - 1 THEN 0 ELSE (position % EpochLen) + 1
      BY <1>3, <2>2, ModSucc
    <2> QED
      BY <1>1, <2>1, <2>3, <2>4
  <1>5. /\ updates' \in 0 .. MaxStep /\ position' \in 0 .. EpochLen
        /\ epoch' \in 0 .. Epochs
    BY <1>1, <1>2, <1>3, Numbers
  <1>6. TrackerIsComplete' /\ TrackerBound'
    BY <1>1, <1>2, TrackerUntouched DEF disk, TrackerBound
  <1>7. \A o \in Roles :
            /\ \A i, j \in DOMAIN previous_saved_paths[o] :
                   i < j => previous_saved_paths[o][i] < previous_saved_paths[o][j]
            /\ \A i \in DOMAIN previous_saved_paths[o] :
                   previous_saved_paths[o][i] <= tracker
    BY <1>1 DEF CheckpointInv, PathsInv, Saved
  <1>8. CASE SaveNow
    <2>1. /\ pc' = "save actor" /\ global_steps' = global_steps
          /\ rank_pc' = [r \in Ranks |-> "rotate"]
      BY <1>8 DEF TrainStep
    <2>2. TypeOK'
      BY <1>1, <1>2, <1>5, <2>1 DEF TypeOK, disk
    <2>3. LoopInv' /\ DataInv'
      <3>1. run' >= 1 /\ epoch' < Epochs /\ tracker' # TornFile
        BY <1>1, <1>2, Numbers DEF disk
      <3>2. /\ global_steps' \in 1 .. TotalSteps + run' - 1
            /\ tracker' \in Steps => tracker' < global_steps'
        BY <1>1, <1>2, <2>1 DEF disk
      <3> QED
        BY <1>3, <1>4, <2>1, <3>1, <3>2 DEF LoopInv, DataInv
    <2>4. PathsInv'
      BY <1>1, <1>7, <2>1 DEF PathsInv, Saved, disk
    <2>5. SaveInv' /\ FailsOnlyOnTornTracker'
      BY <2>1 DEF SaveInv, Saved, FailsOnlyOnTornTracker
    <2> QED
      BY <1>6, <2>2, <2>3, <2>4, <2>5 DEF CheckpointInv
  <1>9. CASE ~SaveNow
    <2>1. /\ global_steps' = global_steps + 1
          /\ pc' = IF IsLastStep THEN "done" ELSE "train"
          /\ rank_pc' = rank_pc
      BY <1>9 DEF TrainStep, NextIteration
    <2>2. global_steps' \in 0 .. MaxStep + 1
      BY <1>2, <2>1, Numbers
    <2>3. TypeOK'
      BY <1>1, <1>2, <1>5, <2>1, <2>2 DEF TypeOK, disk
    <2>4. pc' = "train" => global_steps' \in 1 .. TotalSteps + run' - 1
      BY <1>1, <1>2, <2>1, Numbers DEF IsLastStep
    <2>5. LoopInv' /\ DataInv'
      <3>1. updates' = global_steps' - 1
        BY <1>2, <1>3, <2>1
      <3>2. tracker' \in Steps => tracker' < global_steps'
        BY <1>1, <1>2, <2>1 DEF disk, Steps
      <3>3. run' >= 1 /\ epoch' < Epochs /\ tracker' # TornFile
        BY <1>1, <1>2, Numbers DEF disk
      <3>4. pc' \in {"train", "done"}
        BY <2>1
      <3> QED
        BY <1>4, <2>4, <3>1, <3>2, <3>3, <3>4 DEF LoopInv, DataInv, Busy, SavePCs
    <2>6. PathsInv'
      BY <1>1, <1>7, <2>1 DEF PathsInv, Saved, disk
    <2>7. SaveInv' /\ FailsOnlyOnTornTracker'
      BY <2>1 DEF SaveInv, Saved, IsSaving, FailsOnlyOnTornTracker
    <2> QED
      BY <1>6, <2>3, <2>5, <2>6, <2>7 DEF CheckpointInv
  <1> QED
    BY <1>8, <1>9

LEMMA EndEpochInv ==
    ASSUME CheckpointInv, EndEpoch
    PROVE  CheckpointInv'
  <1>1. /\ pc = "train" /\ position = EpochLen
        /\ epoch' = epoch + 1 /\ position' = 0
        /\ pc' = IF epoch + 1 = Epochs THEN "done" ELSE "train"
        /\ UNCHANGED <<disk, run, rank_pc, global_steps, updates, previous_saved_paths>>
        /\ Busy
    BY DEF EndEpoch, Busy
  <1>2. /\ run \in 1 .. MaxRuns
        /\ global_steps \in 1 .. TotalSteps + run - 1
        /\ updates = global_steps - 1 /\ updates \in 0 .. MaxStep
        /\ epoch \in 0 .. Epochs - 1
        /\ tracker \in Steps => tracker < global_steps
        /\ tracker # TornFile
        /\ TypeOK /\ TrackerIsComplete /\ TrackerBound
    BY <1>1, BusyFacts
  <1>3. epoch' \in 0 .. Epochs /\ position' \in 0 .. EpochLen
    BY <1>1, <1>2, Numbers
  <1>4. TypeOK'
    BY <1>1, <1>2, <1>3 DEF TypeOK, disk
  <1>5. TrackerIsComplete' /\ TrackerBound'
    BY <1>1, <1>2, TrackerUntouched DEF disk, TrackerBound
  <1>6. updates' % EpochLen = position' % EpochLen
    <2>1. updates % EpochLen = EpochLen % EpochLen
      BY <1>1 DEF CheckpointInv, DataInv
    <2>2. EpochLen % EpochLen = 0 /\ 0 % EpochLen = 0
      BY ModZero, Numbers
    <2> QED
      BY <1>1, <2>1, <2>2
  <1>7. pc' = "train" => epoch' < Epochs
    BY <1>1, <1>2, Numbers
  <1>8. LoopInv' /\ DataInv'
    BY <1>1, <1>2, <1>6, <1>7 DEF LoopInv, DataInv, Busy, SavePCs, disk
  <1>9. PathsInv'
    BY <1>1 DEF CheckpointInv, PathsInv, Busy, SavePCs, Saved, disk
  <1>10. SaveInv' /\ FailsOnlyOnTornTracker'
    BY <1>1 DEF SaveInv, Saved, IsSaving, FailsOnlyOnTornTracker
  <1> QED
    BY <1>4, <1>5, <1>8, <1>9, <1>10 DEF CheckpointInv

-----------------------------------------------------------------------------
(* A step of one rank inside save_checkpoint. *)
LEMMA RankStep ==
    ASSUME CheckpointInv, IsSaving,
           UNCHANGED <<data_pt, tracker, run, pc, loop, previous_saved_paths>>,
           rank_pc' \in [Ranks -> {"idle", "rotate", "ready", "writing", "written"}],
           shards' \in [Steps -> [Roles -> [Ranks -> Shard]]],
           tracker \in Steps => shards'[tracker] = shards[tracker],
           \A o \in Roles \ {Saving} : shards'[global_steps][o] = shards[global_steps][o],
           \A r \in Ranks : rank_pc'[r] = "written" =>
               shards'[global_steps][Saving][r] = Current
    PROVE  CheckpointInv'
  <1>1. pc \in {"save actor", "save critic"} /\ Busy
    BY DEF IsSaving, Busy, SavePCs
  <1>2. TypeOK'
    <2>1. TypeOK
      BY DEF CheckpointInv
    <2> QED
      BY <2>1 DEF TypeOK, loop
  <1>3. TrackerIsComplete' /\ TrackerBound'
    BY TrackerUntouched DEF CheckpointInv, TrackerBound
  <1>4. LoopInv' /\ DataInv' /\ PathsInv'
    BY <1>1 DEF CheckpointInv, LoopInv, DataInv, PathsInv, Saved, Busy, SavePCs, loop
  <1>5. SaveInv'
    <2>1. \A o \in Roles : Saved(o) =>
              \A r \in Ranks : shards[global_steps][o][r] = Current
      BY DEF CheckpointInv, SaveInv
    <2>2. \A o \in Roles : Saved(o) => o # Saving
      BY <1>1 DEF Saved, Saving
    <2>3. Current' = Current /\ Saving' = Saving /\ \A o : Saved(o)' <=> Saved(o)
      BY DEF Current, Saving, Saved, loop
    <2>4. pc' \notin {"save tracker", "writing tracker"}
      BY <1>1
    <2> QED
      BY <2>1, <2>2, <2>3, <2>4 DEF SaveInv, loop
  <1>6. FailsOnlyOnTornTracker'
    BY <1>1 DEF FailsOnlyOnTornTracker
  <1> QED
    BY <1>2, <1>3, <1>4, <1>5, <1>6 DEF CheckpointInv

(* Rotation removes only what is older than the checkpoint of the tracker: it
   keeps one path at least, and the tracker's is the last. *)
LEMMA RotatedIsOld ==
    ASSUME CheckpointInv, IsSaving, MaxKeep # 1, NEW s \in Rotated(Saving)
    PROVE  tracker \in Steps /\ s < tracker
  <1>1. Saving \in Roles /\ Busy /\ ~Saved(Saving)
    BY DEF CheckpointInv, LoopInv, IsSaving, Saving, Roles, Busy, SavePCs, Saved
  <1> DEFINE p == previous_saved_paths[Saving]
  <1>2. p \in Seq(Steps)
    BY <1>1 DEF CheckpointInv, TypeOK
  <1>3. /\ \A i, j \in DOMAIN p : i < j => p[i] < p[j]
        /\ \A i \in DOMAIN p : p[i] <= tracker
    BY <1>1 DEF CheckpointInv, PathsInv
  <1>4. tracker \in {NoFile, TornFile} \cup Steps
    BY DEF CheckpointInv, TypeOK
  <1>5. PICK i \in 1 .. KeepStart(Saving) : s = p[i]
    BY DEF Rotated
  <1> HIDE DEF p
  <1>6. Len(p) \in Nat /\ DOMAIN p = 1 .. Len(p) /\ \A k \in 1 .. Len(p) : p[k] \in Steps
    BY <1>2
  <1>7. i \in Nat \ {0} /\ i < Len(p)
    BY <1>5, <1>6, Numbers DEF KeepStart, p
  <1>8. i \in DOMAIN p /\ Len(p) \in DOMAIN p
    BY <1>6, <1>7
  <1>9. p[i] < p[Len(p)] /\ p[Len(p)] <= tracker
    BY <1>3, <1>7, <1>8
  <1>10. p[i] \in Nat \ {0} /\ p[Len(p)] \in Nat \ {0}
    BY <1>6, <1>8, Numbers DEF Steps
  <1>11. tracker \in Steps
    BY <1>4, <1>9, <1>10 DEF NoFile, TornFile
  <1> QED
    BY <1>5, <1>9, <1>10, <1>11 DEF Steps

LEMMA RotateInv ==
    ASSUME CheckpointInv, MaxKeep # 1, NEW r \in Ranks, Rotate(r)
    PROVE  CheckpointInv' /\ (tracker \in Steps => shards'[tracker] = shards[tracker])
  <1>1. /\ IsSaving /\ Busy
        /\ UNCHANGED <<data_pt, tracker, run, pc, loop, previous_saved_paths>>
        /\ rank_pc' = [rank_pc EXCEPT ![r] = "ready"]
        /\ shards' = [s \in Steps |->
               IF s \in Rotated(Saving)
               THEN [shards[s] EXCEPT ![Saving] = [q \in Ranks |-> Absent]]
               ELSE shards[s]]
    BY DEF Rotate, Steps, IsSaving, Busy, SavePCs
  <1>2. /\ global_steps \in Steps
        /\ tracker \in Steps => tracker < global_steps
        /\ TypeOK
    BY <1>1, BusyFacts
  <1>3. tracker \notin Rotated(Saving) /\ global_steps \notin Rotated(Saving)
    BY <1>1, <1>2, RotatedIsOld DEF Steps
  <1>4. rank_pc' \in [Ranks -> {"idle", "rotate", "ready", "writing", "written"}]
    BY <1>1, <1>2 DEF TypeOK
  <1>5. shards' \in [Steps -> [Roles -> [Ranks -> Shard]]]
    <2>1. Absent \in Shard
      BY Numbers DEF Absent, Shard
    <2>2. shards \in [Steps -> [Roles -> [Ranks -> Shard]]]
      BY <1>2 DEF TypeOK
    <2>3. ASSUME NEW s \in Steps
          PROVE  [shards[s] EXCEPT ![Saving] = [q \in Ranks |-> Absent]]
                     \in [Roles -> [Ranks -> Shard]]
      BY <2>1, <2>2
    <2> QED
      BY <1>1, <2>2, <2>3
  <1>6. /\ tracker \in Steps => shards'[tracker] = shards[tracker]
        /\ shards'[global_steps] = shards[global_steps]
    BY <1>1, <1>2, <1>3
  <1>7. \A q \in Ranks : rank_pc'[q] = "written" =>
            shards'[global_steps][Saving][q] = Current
    <2>1. \A q \in Ranks : rank_pc'[q] = "written" => rank_pc[q] = "written"
      BY <1>1, <1>2 DEF TypeOK
    <2>2. \A q \in Ranks : rank_pc[q] = "written" =>
              shards[global_steps][Saving][q] = Current
      BY <1>1 DEF CheckpointInv, SaveInv
    <2> QED
      BY <1>6, <2>1, <2>2
  <1> QED
    BY <1>1, <1>4, <1>5, <1>6, <1>7, RankStep

(* Writing one shard of the checkpoint of this step. *)
LEMMA PutShardValue ==
    ASSUME CheckpointInv, IsSaving, NEW r \in Ranks, NEW x \in Shard,
           shards' = PutShard(r, x)
    PROVE  /\ shards' \in [Steps -> [Roles -> [Ranks -> Shard]]]
           /\ tracker \in Steps => shards'[tracker] = shards[tracker]
           /\ \A o \in Roles \ {Saving} : shards'[global_steps][o] = shards[global_steps][o]
           /\ \A q \in Ranks : shards'[global_steps][Saving][q] =
                  IF q = r THEN x ELSE shards[global_steps][Saving][q]
  <1>1. Saving \in Roles /\ Busy
    BY DEF CheckpointInv, LoopInv, IsSaving, Saving, Roles, Busy, SavePCs
  <1>2. /\ global_steps \in Steps /\ TypeOK
        /\ tracker \in Steps => tracker < global_steps
    BY <1>1, BusyFacts
  <1>3. /\ tracker \in Steps => tracker # global_steps
        /\ shards \in [Steps -> [Roles -> [Ranks -> Shard]]]
    <2>1. tracker \in Steps => tracker # global_steps
      BY <1>2 DEF Steps
    <2>2. shards \in [Steps -> [Roles -> [Ranks -> Shard]]]
      BY <1>2 DEF TypeOK
    <2> QED
      BY <2>1, <2>2
  <1> QED
    BY <1>1, <1>2, <1>3 DEF PutShard

LEMMA BeginShardInv ==
    ASSUME CheckpointInv, NEW r \in Ranks, BeginShard(r)
    PROVE  CheckpointInv' /\ (tracker \in Steps => shards'[tracker] = shards[tracker])
  <1>1. TornShard \in Shard
    BY Numbers DEF TornShard, Shard
  <1>2. /\ IsSaving /\ shards' = PutShard(r, TornShard)
        /\ UNCHANGED <<data_pt, tracker, run, pc, loop, previous_saved_paths>>
        /\ rank_pc' = [rank_pc EXCEPT ![r] = "writing"]
    BY DEF BeginShard
  <1>3. rank_pc \in [Ranks -> {"idle", "rotate", "ready", "writing", "written"}]
    BY DEF CheckpointInv, TypeOK
  <1>4. \A q \in Ranks : rank_pc'[q] = "written" => q # r /\ rank_pc[q] = "written"
    BY <1>2, <1>3
  <1>5. \A q \in Ranks : rank_pc[q] = "written" =>
            shards[global_steps][Saving][q] = Current
    BY <1>2 DEF CheckpointInv, SaveInv
  <1>6. /\ shards' \in [Steps -> [Roles -> [Ranks -> Shard]]]
        /\ tracker \in Steps => shards'[tracker] = shards[tracker]
        /\ \A o \in Roles \ {Saving} : shards'[global_steps][o] = shards[global_steps][o]
        /\ \A q \in Ranks : rank_pc'[q] = "written" =>
               shards'[global_steps][Saving][q] = Current
    BY <1>1, <1>2, <1>4, <1>5, PutShardValue
  <1>7. rank_pc' \in [Ranks -> {"idle", "rotate", "ready", "writing", "written"}]
    BY <1>2, <1>3
  <1> QED
    BY <1>2, <1>6, <1>7, RankStep

LEMMA EndShardInv ==
    ASSUME CheckpointInv, NEW r \in Ranks, EndShard(r)
    PROVE  CheckpointInv' /\ (tracker \in Steps => shards'[tracker] = shards[tracker])
  <1>1. /\ IsSaving /\ shards' = PutShard(r, Current)
        /\ UNCHANGED <<data_pt, tracker, run, pc, loop, previous_saved_paths>>
        /\ rank_pc' = [rank_pc EXCEPT ![r] = "written"]
    BY DEF EndShard, Current
  <1>2. /\ run \in 0 .. MaxRuns /\ updates \in 0 .. MaxStep
        /\ rank_pc \in [Ranks -> {"idle", "rotate", "ready", "writing", "written"}]
    BY DEF CheckpointInv, TypeOK
  <1>3. Current \in Shard
    BY <1>2, Numbers DEF Current, Shard
  <1>4. \A q \in Ranks : rank_pc'[q] = "written" => q = r \/ rank_pc[q] = "written"
    BY <1>1, <1>2
  <1>5. \A q \in Ranks : rank_pc[q] = "written" =>
            shards[global_steps][Saving][q] = Current
    BY <1>1 DEF CheckpointInv, SaveInv
  <1>6. /\ shards' \in [Steps -> [Roles -> [Ranks -> Shard]]]
        /\ tracker \in Steps => shards'[tracker] = shards[tracker]
        /\ \A o \in Roles \ {Saving} : shards'[global_steps][o] = shards[global_steps][o]
        /\ \A q \in Ranks : rank_pc'[q] = "written" =>
               shards'[global_steps][Saving][q] = Current
    BY <1>1, <1>3, <1>4, <1>5, PutShardValue
  <1>7. rank_pc' \in [Ranks -> {"idle", "rotate", "ready", "writing", "written"}]
    BY <1>1, <1>2
  <1> QED
    BY <1>1, <1>6, <1>7, RankStep

(* The second barrier. *)
LEMMA RoleSavedInv ==
    ASSUME CheckpointInv, RoleSaved
    PROVE  CheckpointInv'
  <1>1. /\ IsSaving /\ Busy /\ UNCHANGED <<disk, run, loop>>
        /\ Saving \in Roles /\ ~Saved(Saving)
        /\ previous_saved_paths' = [previous_saved_paths EXCEPT ![Saving] =
               Append(SubSeq(@, KeepStart(Saving) + 1, Len(@)), global_steps)]
    BY DEF RoleSaved, Recorded, CheckpointInv, LoopInv, IsSaving, Saving, Roles, Busy,
       SavePCs, Saved
  <1>2. /\ IF Saving = "actor" /\ UseCritic
           THEN /\ pc' = "save critic"
                /\ rank_pc' = [r \in Ranks |-> "rotate"]
           ELSE /\ pc' = "save data"
                /\ rank_pc' = [r \in Ranks |-> "idle"]
        /\ \A r \in Ranks : rank_pc[r] = "written"
    BY DEF RoleSaved, Recorded
  <1>3. /\ global_steps \in Steps /\ updates = global_steps
        /\ tracker \in Steps => tracker < global_steps
        /\ tracker # TornFile /\ tracker \in {NoFile, TornFile} \cup Steps
        /\ TypeOK
    BY <1>1, BusyFacts DEF IsSaving
  <1> DEFINE p == previous_saved_paths[Saving]
  <1> DEFINE n == KeepStart(Saving)
  <1> DEFINE t == Append(SubSeq(p, n + 1, Len(p)), global_steps)
  <1>4. p \in Seq(Steps) /\ n \in 0 .. Len(p)
    <2>1. p \in Seq(Steps)
      BY <1>1, <1>3 DEF TypeOK
    <2> HIDE DEF p
    <2>2. Len(p) \in Nat
      BY <2>1
    <2> QED
      BY <2>1, <2>2, Numbers DEF KeepStart, p
  <1>5. /\ \A i, j \in DOMAIN p : i < j => p[i] < p[j]
        /\ \A i \in DOMAIN p : p[i] <= tracker
    BY <1>1 DEF CheckpointInv, PathsInv
  <1>6. ASSUME NEW i \in DOMAIN p PROVE p[i] \in Steps /\ p[i] < global_steps
    <2>1. p[i] \in Steps /\ p[i] <= tracker
      BY <1>4, <1>5
    <2> QED
      BY <1>3, <2>1, Numbers DEF Steps, NoFile
  <1> HIDE DEF n
  <1>7. t \in Seq(Steps)
    BY <1>3, <1>4
  <1>8. /\ Len(t) = Len(p) - n + 1
        /\ \A i \in 1 .. Len(p) - n : t[i] = p[i + n]
        /\ t[Len(p) - n + 1] = global_steps
    BY <1>3, <1>4
  <1>9. /\ \A i, j \in DOMAIN t : i < j => t[i] < t[j]
        /\ \A i \in DOMAIN t : t[i] <= global_steps
    <2> HIDE DEF t
    <2> DEFINE m == Len(p) - n
    <2>1. m \in Nat /\ n \in Nat /\ DOMAIN p = 1 .. m + n /\ DOMAIN t = 1 .. m + 1
      BY <1>4, <1>7, <1>8
    <2>2. t[m + 1] = global_steps /\ \A i \in 1 .. m : t[i] = p[i + n] /\ i + n \in DOMAIN p
      BY <1>8, <2>1
    <2>3. \A i \in 1 .. m : t[i] \in Steps /\ t[i] < global_steps
      BY <1>6, <2>2
    <2> HIDE DEF m, p
    <2>4. ASSUME NEW i \in DOMAIN t, NEW j \in DOMAIN t, i < j PROVE t[i] < t[j]
      <3>1. i \in 1 .. m
        BY <2>1, <2>4
      <3>2. CASE j = m + 1
        BY <2>2, <2>3, <3>1, <3>2
      <3>3. CASE j # m + 1
        <4>1. j \in 1 .. m /\ i + n < j + n
          BY <2>1, <2>4, <3>3
        <4> QED
          BY <1>5, <2>2, <3>1, <4>1
      <3> QED
        BY <3>2, <3>3
    <2>5. ASSUME NEW i \in DOMAIN t PROVE t[i] <= global_steps
      <3>1. i \in 1 .. m \/ i = m + 1
        BY <2>1
      <3> QED
        BY <1>3, <2>2, <2>3, <3>1, Numbers DEF Steps
    <2> QED
      BY <2>4, <2>5
  <1>10. previous_saved_paths' = [previous_saved_paths EXCEPT ![Saving] = t]
    BY <1>1 DEF n
  <1> HIDE DEF t, p
  <1>11. TypeOK'
    <2>1. rank_pc' \in [Ranks -> {"idle", "rotate", "ready", "writing", "written"}]
      BY <1>2
    <2>2. previous_saved_paths' \in [Roles -> Seq(Steps)]
      BY <1>3, <1>7, <1>10 DEF TypeOK
    <2> QED
      BY <1>1, <1>2, <1>3, <2>1, <2>2 DEF TypeOK, disk, loop
  <1>12. TrackerIsComplete' /\ TrackerBound'
    BY <1>1, TrackerUntouched DEF CheckpointInv, TrackerBound, disk
  <1>13. LoopInv' /\ DataInv'
    BY <1>1, <1>2 DEF CheckpointInv, LoopInv, DataInv, IsSaving, Saving, Roles, Busy,
        SavePCs, disk, loop
  <1>14. /\ \A o \in Roles : Saved(o)' => Saved(o) \/ o = Saving
         /\ \A o \in Roles : o # Saving => (Saved(o)' <=> Saved(o))
         /\ \A o \in Roles : o = Saving => Saved(o)'
    BY <1>1, <1>2 DEF Saved, Saving, IsSaving, Roles
  <1>15. PathsInv'
    <2>1. ASSUME NEW o \in Roles, o = Saving
          PROVE  /\ previous_saved_paths'[o] = t /\ Saved(o)'
      BY <1>3, <1>10, <1>14, <2>1 DEF TypeOK
    <2>2. ASSUME NEW o \in Roles, o # Saving
          PROVE  /\ previous_saved_paths'[o] = previous_saved_paths[o]
                 /\ Saved(o)' <=> Saved(o)
      BY <1>3, <1>10, <1>14, <2>2 DEF TypeOK
    <2>3. global_steps' = global_steps /\ tracker' = tracker
      BY <1>1 DEF disk, loop
    <2>4. PathsInv
      BY DEF CheckpointInv
    <2> QED
      BY <1>1, <1>9, <2>1, <2>2, <2>3, <2>4 DEF PathsInv
  <1>16. SaveInv'
    <2>1. /\ \A o \in Roles : Saved(o) => \A r \in Ranks : shards[global_steps][o][r] = Current
          /\ \A r \in Ranks : shards[global_steps][Saving][r] = Current
      BY <1>1, <1>2 DEF CheckpointInv, SaveInv
    <2>2. Current' = Current /\ global_steps' = global_steps /\ shards' = shards
      BY <1>1 DEF Current, disk, loop
    <2>3. \A r \in Ranks : rank_pc'[r] # "written"
      BY <1>2
    <2>4. pc' \notin {"save tracker", "writing tracker"}
      BY <1>2
    <2> QED
      BY <1>14, <2>1, <2>2, <2>3, <2>4 DEF SaveInv
  <1> QED
    BY <1>2, <1>11, <1>12, <1>13, <1>15, <1>16 DEF CheckpointInv, FailsOnlyOnTornTracker

-----------------------------------------------------------------------------
(* The dataloader and the tracker. *)
LEMMA DataStep ==
    ASSUME CheckpointInv, BeginData \/ EndData
    PROVE  CheckpointInv' /\ (tracker \in Steps => data_pt'[tracker] = data_pt[tracker])
  <1>1. /\ pc \in {"save data", "writing data"} /\ Busy
        /\ pc' \in {"writing data", "save tracker"}
        /\ UNCHANGED <<shards, tracker, run, rank_pc, loop, previous_saved_paths>>
        /\ \E x \in {TornFile, position} : data_pt' = [data_pt EXCEPT ![global_steps] = x]
        /\ pc' = "save tracker" => data_pt' = [data_pt EXCEPT ![global_steps] = position]
    BY DEF BeginData, EndData, DataState, Busy, SavePCs
  <1>2. /\ global_steps \in Steps /\ TypeOK /\ position \in 0 .. EpochLen
        /\ tracker \in Steps => tracker < global_steps
        /\ tracker # TornFile
    BY <1>1, BusyFacts
  <1>3. data_pt \in [Steps -> {NoFile, TornFile} \cup 0 .. EpochLen]
    BY <1>2 DEF TypeOK
  <1>4. data_pt' \in [Steps -> {NoFile, TornFile} \cup 0 .. EpochLen]
    BY <1>1, <1>2, <1>3
  <1>5. tracker \in Steps => data_pt'[tracker] = data_pt[tracker]
    <2>1. tracker \in Steps => tracker # global_steps
      BY <1>2 DEF Steps
    <2> QED
      BY <1>1, <1>3, <2>1
  <1>6. TypeOK'
    BY <1>1, <1>2, <1>4 DEF TypeOK, loop
  <1>7. TrackerIsComplete' /\ TrackerBound'
    BY <1>1, <1>5, TrackerUntouched DEF CheckpointInv, TrackerBound
  <1>8. LoopInv' /\ DataInv'
    BY <1>1 DEF CheckpointInv, LoopInv, DataInv, Busy, SavePCs, loop
  <1>9. \A o : Saved(o) /\ Saved(o)'
    BY <1>1 DEF Saved
  <1>10. PathsInv'
    BY <1>1, <1>9 DEF CheckpointInv, PathsInv, loop
  <1>11. SaveInv'
    <2>1. \A o \in Roles : \A r \in Ranks : shards'[global_steps'][o][r] = Current'
      BY <1>1, <1>9 DEF CheckpointInv, SaveInv, Current, loop
    <2>2. pc' = "save tracker" => data_pt'[global_steps'] = position'
      BY <1>1, <1>2, <1>3 DEF loop
    <2> QED
      BY <1>1, <2>1, <2>2 DEF SaveInv, IsSaving
  <1>12. FailsOnlyOnTornTracker'
    BY <1>1 DEF FailsOnlyOnTornTracker
  <1> QED
    BY <1>5, <1>6, <1>7, <1>8, <1>10, <1>11, <1>12 DEF CheckpointInv

LEMMA BeginTrackerInv ==
    ASSUME CheckpointInv, BeginTracker
    PROVE  CheckpointInv'
  <1>1. /\ pc = "save tracker" /\ pc' = "writing tracker" /\ Busy
        /\ tracker' = TornFile
        /\ UNCHANGED <<shards, data_pt, run, rank_pc, loop, previous_saved_paths>>
    BY DEF BeginTracker, Busy, SavePCs
  <1>2. TornFile \notin Steps
    BY DEF TornFile, Steps
  <1>3. TypeOK'
    BY <1>1 DEF CheckpointInv, TypeOK, loop
  <1>4. TrackerIsComplete' /\ TrackerBound' /\ FailsOnlyOnTornTracker'
    BY <1>1, <1>2 DEF TrackerIsComplete, TrackerBound, FailsOnlyOnTornTracker, Steps, MaxStep
  <1>5. LoopInv' /\ DataInv'
    BY <1>1, <1>2 DEF CheckpointInv, LoopInv, DataInv, Busy, SavePCs, loop, Steps, MaxStep
  <1>6. \A o : Saved(o) /\ Saved(o)'
    BY <1>1 DEF Saved
  <1>7. PathsInv'
    BY <1>1, <1>6 DEF CheckpointInv, PathsInv, loop
  <1>8. SaveInv'
    BY <1>1, <1>6 DEF CheckpointInv, SaveInv, IsSaving, Current, loop
  <1> QED
    BY <1>3, <1>4, <1>5, <1>7, <1>8 DEF CheckpointInv

(* The tracker names the new checkpoint only now that it is complete. *)
LEMMA EndTrackerInv ==
    ASSUME CheckpointInv, EndTracker
    PROVE  CheckpointInv'
  <1>1. /\ pc = "writing tracker" /\ Busy /\ tracker' = global_steps
        /\ global_steps' = global_steps + 1
        /\ pc' = IF IsLastStep THEN "done" ELSE "train"
        /\ UNCHANGED <<shards, data_pt, run, rank_pc, epoch, position, updates,
                       previous_saved_paths>>
    BY DEF EndTracker, NextIteration, Busy, SavePCs
  <1>2. /\ run \in 1 .. MaxRuns
        /\ global_steps \in 1 .. TotalSteps + run - 1
        /\ global_steps \in Steps /\ updates = global_steps
        /\ position \in 0 .. EpochLen /\ epoch \in 0 .. Epochs - 1
        /\ TypeOK
    BY <1>1, BusyFacts
  <1>3. /\ global_steps \in 1 .. TotalSteps + run - 1
        /\ global_steps \in 1 .. MaxStep
        /\ global_steps' = global_steps + 1 /\ tracker' = global_steps
        /\ updates' = global_steps /\ run' = run /\ run \in 1 .. MaxRuns
        /\ epoch' = epoch /\ epoch \in 0 .. Epochs - 1
    BY <1>1, <1>2 DEF Steps
  <1>4. TypeOK'
    <2>1. global_steps' \in 0 .. MaxStep + 1
      BY <1>3, Numbers
    <2> QED
      BY <1>1, <1>2, <2>1 DEF TypeOK
  <1>5. updates % EpochLen = position % EpochLen
    BY <1>1 DEF CheckpointInv, DataInv
  <1>6. /\ \A o \in Roles : \A r \in Ranks :
               shards[global_steps][o][r] = [run |-> run, updates |-> global_steps]
        /\ data_pt[global_steps] = position
    BY <1>1, <1>2 DEF CheckpointInv, SaveInv, Saved, Current
  <1>7. TrackerIsComplete'
    BY <1>1, <1>2, <1>5, <1>6 DEF TrackerIsComplete, Steps, MaxStep, Roles
  <1>8. TrackerBound'
    BY <1>3, Numbers DEF TrackerBound
  <1>9. LoopInv' /\ DataInv'
    <2>1. pc' = "train" => global_steps' \in 1 .. TotalSteps + run' - 1
      <3>1. pc' = "train" => ~(global_steps >= TotalSteps)
        BY <1>1 DEF IsLastStep
      <3> QED
        BY <1>3, <3>1, Numbers
    <2>2. /\ updates' = global_steps' - 1 /\ tracker' < global_steps'
          /\ run' >= 1 /\ epoch' < Epochs /\ tracker' # TornFile
      BY <1>3, Numbers DEF TornFile
    <2>3. pc' \in {"train", "done"}
      BY <1>1
    <2>4. updates' % EpochLen = position' % EpochLen
      BY <1>1, <1>5
    <2> QED
      BY <2>1, <2>2, <2>3, <2>4 DEF LoopInv, DataInv, Busy, SavePCs
  <1>10. PathsInv'
    BY <1>1 DEF CheckpointInv, PathsInv, Saved
  <1>11. SaveInv' /\ FailsOnlyOnTornTracker'
    BY <1>1 DEF SaveInv, Saved, IsSaving, FailsOnlyOnTornTracker
  <1> QED
    BY <1>4, <1>7, <1>8, <1>9, <1>10, <1>11 DEF CheckpointInv

-----------------------------------------------------------------------------
LEMMA CrashInv ==
    ASSUME CheckpointInv, Crash
    PROVE  CheckpointInv'
  <1>1. /\ pc' = "down" /\ UNCHANGED <<disk, run>>
        /\ rank_pc' = [r \in Ranks |-> "idle"]
        /\ previous_saved_paths' = [o \in Roles |-> <<>>]
        /\ global_steps' = 0 /\ epoch' = 0 /\ position' = 0 /\ updates' = 0
    BY DEF Crash
  <1>2. TypeOK'
    <2>1. previous_saved_paths' \in [Roles -> Seq(Steps)]
      BY <1>1
    <2>2. 0 \in 0 .. MaxStep + 1 /\ 0 \in 0 .. MaxStep /\ 0 \in 0 .. Epochs
          /\ 0 \in 0 .. EpochLen
      BY Numbers
    <2> QED
      BY <1>1, <2>1, <2>2 DEF CheckpointInv, TypeOK, disk
  <1>3. TrackerIsComplete' /\ TrackerBound'
    BY <1>1, TrackerUntouched DEF CheckpointInv, TrackerBound, disk
  <1>4. LoopInv' /\ DataInv' /\ PathsInv' /\ SaveInv' /\ FailsOnlyOnTornTracker'
    BY <1>1 DEF LoopInv, DataInv, PathsInv, SaveInv, FailsOnlyOnTornTracker, Busy,
        SavePCs, Saved, IsSaving
  <1> QED
    BY <1>2, <1>3, <1>4 DEF CheckpointInv

LEMMA StutterInv ==
    ASSUME CheckpointInv, UNCHANGED vars
    PROVE  CheckpointInv'
  <1>1. TrackerIsComplete'
    BY TrackerUntouched DEF CheckpointInv, vars, disk
  <1> QED
    BY <1>1, ZenonT(30) DEF CheckpointInv, TypeOK, TrackerBound, LoopInv, DataInv, PathsInv, SaveInv,
        FailsOnlyOnTornTracker, Busy, Saved, Saving, IsSaving, Current, vars, disk, loop

(* Every step keeps the invariant, and the checkpoint the tracker names. *)
LEMMA NextInv ==
    ASSUME CheckpointInv, [Next]_vars, "disable" \notin Modes, MaxKeep # 1
    PROVE  /\ CheckpointInv'
           /\ tracker \in Steps /\ tracker' = tracker =>
                  /\ shards'[tracker] = shards[tracker]
                  /\ data_pt'[tracker] = data_pt[tracker]
  <1>1. CASE StartFromScratch
    BY <1>1, StartFromScratchInv DEF StartFromScratch, StartRun, disk
  <1>2. CASE Resume
    BY <1>2, ResumeInv DEF Resume, StartRun, disk
  <1>3. CASE ResumeFails
    BY <1>3, ResumeFailsInv DEF ResumeFails, StartRun, disk
  <1>4. CASE TrainStep
    BY <1>4, TrainStepInv DEF TrainStep, disk
  <1>5. CASE EndEpoch
    BY <1>5, EndEpochInv DEF EndEpoch, disk
  <1>6. ASSUME NEW r \in Ranks, Rotate(r)
        PROVE  CheckpointInv' /\ (tracker \in Steps => shards'[tracker] = shards[tracker])
               /\ data_pt' = data_pt
    BY <1>6, RotateInv DEF Rotate
  <1>7. ASSUME NEW r \in Ranks, BeginShard(r)
        PROVE  CheckpointInv' /\ (tracker \in Steps => shards'[tracker] = shards[tracker])
               /\ data_pt' = data_pt
    BY <1>7, BeginShardInv DEF BeginShard
  <1>8. ASSUME NEW r \in Ranks, EndShard(r)
        PROVE  CheckpointInv' /\ (tracker \in Steps => shards'[tracker] = shards[tracker])
               /\ data_pt' = data_pt
    BY <1>8, EndShardInv DEF EndShard
  <1>9. CASE RoleSaved
    BY <1>9, RoleSavedInv DEF RoleSaved, disk
  <1>10. CASE BeginData \/ EndData
    BY <1>10, DataStep DEF BeginData, EndData
  <1>11. CASE BeginTracker
    BY <1>11, BeginTrackerInv DEF BeginTracker
  <1>12. CASE EndTracker
    BY <1>12, EndTrackerInv DEF EndTracker
  <1>13. CASE Crash
    BY <1>13, CrashInv DEF Crash, disk
  <1>14. CASE UNCHANGED vars
    BY <1>14, StutterInv DEF vars, disk
  <1> QED
    BY <1>1, <1>2, <1>3, <1>4, <1>5, <1>6, <1>7, <1>8, <1>9, <1>10, <1>11, <1>12, <1>13,
       <1>14 DEF Next, Progress, Save, Stopped

(* CheckpointInv holds in every state of a job that always resumes from the
   tracker and keeps every checkpoint or two of them at least. *)
THEOREM CheckpointInvariant ==
    ASSUME "disable" \notin Modes, MaxKeep # 1
    PROVE  Spec => []CheckpointInv
  <1>1. CheckpointInv /\ [Next]_vars => CheckpointInv'
    BY NextInv
  <1> QED
    BY InitInv, <1>1, PTL DEF Spec

(* TrackerIsComplete, for any ranks, steps, epochs and number of deaths: what
   the tracker names was written whole, by one run and after one update. *)
THEOREM CheckpointTracker ==
    ASSUME "disable" \notin Modes, MaxKeep # 1
    PROVE  Spec => []TrackerIsComplete
  <1>1. CheckpointInv => TrackerIsComplete
    BY DEF CheckpointInv
  <1> QED
    BY <1>1, CheckpointInvariant, PTL

(* ResumeIsConsistent: weights, counter and data never come apart. *)
THEOREM CheckpointResume ==
    ASSUME "disable" \notin Modes, MaxKeep # 1
    PROVE  Spec => []ResumeIsConsistent
  <1>1. CheckpointInv => ResumeIsConsistent
    <2>1. ASSUME CheckpointInv, pc = "train"
          PROVE  updates = global_steps - 1 /\ updates % EpochLen = position % EpochLen
      BY <2>1, BusyFacts DEF CheckpointInv, DataInv, Busy
    <2> QED
      BY <2>1 DEF ResumeIsConsistent
  <1> QED
    BY <1>1, CheckpointInvariant, PTL

(* FailsOnlyOnTornTracker: nothing but an empty tracker file keeps a job from
   being started again. *)
THEOREM CheckpointRestart ==
    ASSUME "disable" \notin Modes, MaxKeep # 1
    PROVE  Spec => []FailsOnlyOnTornTracker
  <1>1. CheckpointInv => FailsOnlyOnTornTracker
    BY DEF CheckpointInv
  <1> QED
    BY <1>1, CheckpointInvariant, PTL

(* CommittedUntouched: the checkpoint the tracker names is never changed. *)
THEOREM CheckpointCommitted ==
    ASSUME "disable" \notin Modes, MaxKeep # 1
    PROVE  Spec => CommittedUntouched
  <1>1. CheckpointInv /\ [Next]_vars =>
            [(tracker \in Steps /\ tracker' = tracker) =>
                /\ shards'[tracker] = shards[tracker]
                /\ data_pt'[tracker] = data_pt[tracker]]_vars
    BY NextInv
  <1> QED
    BY <1>1, CheckpointInvariant, PTL DEF Spec, CommittedUntouched

-----------------------------------------------------------------------------
(* Only a start of the job and a training step change the weights. *)
LEMMA OvershootKept ==
    ASSUME CheckpointInv, OvershootBounded, [Next]_vars, "disable" \notin Modes
    PROVE  OvershootBounded'
  <1>1. run \in 0 .. MaxRuns /\ updates \in 0 .. MaxStep
    BY DEF CheckpointInv, TypeOK
  <1>2. CASE StartFromScratch
    <2>1. run' = run + 1 /\ updates' = 0
      BY <1>2 DEF StartFromScratch, StartRun, Begin
    <2> QED
      BY <1>1, <2>1, Numbers DEF OvershootBounded
  <1>3. CASE Resume
    <2>1. TrackerIsComplete /\ TrackerBound /\ tracker \in Steps
      BY <1>3 DEF CheckpointInv, Resume, Steps
    <2>2. run' = run + 1 /\ updates' = tracker
      BY <1>3, <2>1, CompleteIsLoadable DEF Resume, StartRun, Begin
    <2>3. tracker \in 1 .. MaxStep /\ tracker <= TotalSteps + run - 1
      BY <2>1 DEF TrackerBound, Steps
    <2> QED
      BY <1>1, <2>2, <2>3, Numbers DEF OvershootBounded
  <1>4. CASE ResumeFails
    <2>1. run' = run + 1 /\ updates' = updates
      BY <1>4 DEF ResumeFails, StartRun, loop
    <2> QED
      BY <1>1, <2>1, Numbers DEF OvershootBounded
  <1>5. CASE TrainStep
    <2>1. run' = run /\ updates' = updates + 1 /\ pc = "train" /\ Busy
      BY <1>5 DEF TrainStep, Busy
    <2>2. /\ updates = global_steps - 1 /\ run \in 1 .. MaxRuns
          /\ global_steps \in 1 .. TotalSteps + run - 1
      BY <2>1, BusyFacts
    <2> QED
      BY <2>1, <2>2, Numbers DEF OvershootBounded
  <1>6. CASE Crash
    <2>1. run' = run /\ updates' = 0
      BY <1>6 DEF Crash
    <2> QED
      BY <1>1, <2>1, Numbers DEF OvershootBounded
  <1>7. CASE UNCHANGED <<run, updates>>
    BY <1>7 DEF OvershootBounded
  <1>8. EndEpoch \/ Save \/ UNCHANGED vars => UNCHANGED <<run, updates>>
    BY DEF EndEpoch, Save, Rotate, BeginShard, EndShard, RoleSaved, BeginData, EndData,
        BeginTracker, EndTracker, vars, loop
  <1> QED
    BY <1>2, <1>3, <1>4, <1>5, <1>6, <1>7, <1>8 DEF Next, Progress, Stopped

(* OvershootBounded: one step beyond the last for every start after the first,
   for any number of steps and starts. *)
THEOREM CheckpointOvershoot ==
    ASSUME "disable" \notin Modes, MaxKeep # 1
    PROVE  Spec => []OvershootBounded
  <1>1. Init => OvershootBounded
    BY Numbers DEF Init, OvershootBounded
  <1>2. CheckpointInv /\ OvershootBounded /\ [Next]_vars => OvershootBounded'
    BY OvershootKept
  <1> QED
    BY <1>1, <1>2, CheckpointInvariant, PTL DEF Spec

-----------------------------------------------------------------------------
(* A run has made at least the updates its own epochs ask for, and it only
   trains on after the last step when it was resumed there: so it does not run
   out of data before the last step, unless there is too little of it. *)
DoneInv ==
    /\ Busy => epoch * EpochLen + position <= updates
    /\ pc = "train" => updates < TotalSteps \/ tracker = updates
    /\ DoneMeansSaved

LEMMA PositionIsBehind ==
    ASSUME NEW E \in Nat \ {0}, NEW t \in Nat \ {0}, NEW p \in 0 .. E, t % E = p % E
    PROVE  p <= t
  <1>1. PICK q \in Nat, r \in 0 .. E - 1 : t = E * q + r /\ t % E = r
    BY DivMod
  <1>2. CASE p = E
    <2>1. r = 0
      BY <1>1, <1>2, ModZero
    <2>2. q # 0
      BY <1>1, <2>1
    <2>3. E * q >= E
      BY <2>2
    <2> QED
      BY <1>1, <1>2, <2>1, <2>3
  <1>3. CASE p # E
    <2>1. p = E * 0 + p /\ p \in 0 .. E - 1
      BY <1>3
    <2>2. p % E = p
      BY <2>1, ModIs
    <2>3. E * q >= 0
      OBVIOUS
    <2> QED
      BY <1>1, <2>2, <2>3
  <1> QED
    BY <1>2, <1>3

LEMMA EpochProduct ==
    ASSUME NEW e \in Nat, NEW E \in Nat \ {0}
    PROVE  /\ e * E \in Nat
           /\ (e + 1) * E = e * E + E
           /\ 0 * E = 0
OBVIOUS

LEMMA DoneStep ==
    ASSUME CheckpointInv, DoneInv, [Next]_vars, "disable" \notin Modes,
           SaveFreq > 0, TotalSteps <= Epochs * EpochLen
    PROVE  DoneInv'
  <1>1. /\ EpochLen \in Nat \ {0} /\ TotalSteps \in Nat \ {0} /\ Epochs \in Nat \ {0}
        /\ SaveFreq \in Nat
    BY NumbersAssumption
  <1>2. CASE StartFromScratch
    <2>1. /\ pc' = "train" /\ epoch' = 0 /\ position' = 0 /\ updates' = 0
      BY <1>2 DEF StartFromScratch, Begin, NoFile
    <2> QED
      BY <1>1, <2>1, EpochProduct DEF DoneInv, DoneMeansSaved
  <1>3. CASE Resume
    <2>1. TrackerIsComplete /\ tracker \in Steps /\ tracker \in Nat \ {0}
      BY <1>3, Numbers DEF CheckpointInv, Resume, Steps
    <2>2. /\ data_pt[tracker] \in 0 .. EpochLen
          /\ tracker % EpochLen = data_pt[tracker] % EpochLen
      BY <2>1, CompleteIsLoadable
    <2>3. /\ pc' = "train" /\ epoch' = 0 /\ updates' = tracker /\ tracker' = tracker
          /\ position' = data_pt[tracker]
      BY <1>3, <2>1, <2>2, CompleteIsLoadable DEF Resume, StartRun, Begin, NoFile, disk
    <2>4. data_pt[tracker] <= tracker
      BY <1>1, <2>1, <2>2, PositionIsBehind
    <2>5. epoch' * EpochLen + position' <= updates'
      BY <1>1, <2>1, <2>2, <2>3, <2>4, EpochProduct
    <2> QED
      BY <2>3, <2>5 DEF DoneInv, DoneMeansSaved
  <1>4. CASE ResumeFails
    <2>1. pc' = "failed"
      BY <1>4 DEF ResumeFails
    <2> QED
      BY <2>1 DEF DoneInv, DoneMeansSaved, Busy, SavePCs
  <1>5. CASE TrainStep
    <2>1. /\ pc = "train" /\ Busy /\ epoch' = epoch /\ position' = position + 1
          /\ updates' = updates + 1
      BY <1>5 DEF TrainStep, Busy
    <2>2. /\ epoch \in Nat /\ position \in Nat /\ updates \in Nat
          /\ global_steps \in Nat /\ updates = global_steps - 1
      BY <2>1, BusyFacts, Numbers DEF Steps
    <2>3. epoch' * EpochLen + position' <= updates'
      BY <1>1, <2>1, <2>2, EpochProduct DEF DoneInv
    <2>4. CASE SaveNow
      <3>1. pc' = "save actor"
        BY <1>5, <2>4 DEF TrainStep
      <3> QED
        BY <2>3, <3>1 DEF DoneInv, DoneMeansSaved
    <2>5. CASE ~SaveNow
      <3>1. global_steps < TotalSteps
        BY <1>1, <2>2, <2>5 DEF SaveNow, IsLastStep
      <3>2. pc' = "train"
        BY <1>1, <1>5, <2>2, <2>5, <3>1 DEF TrainStep, NextIteration, IsLastStep
      <3> QED
        BY <1>1, <2>1, <2>2, <2>3, <3>1, <3>2 DEF DoneInv, DoneMeansSaved
    <2> QED
      BY <2>4, <2>5
  <1>6. CASE EndEpoch
    <2>1. /\ pc = "train" /\ Busy /\ epoch' = epoch + 1 /\ position' = 0
          /\ position = EpochLen /\ pc' = IF epoch + 1 = Epochs THEN "done" ELSE "train"
          /\ UNCHANGED <<disk, global_steps, updates>>
      BY <1>6 DEF EndEpoch, Busy
    <2>2. epoch \in Nat /\ updates = global_steps - 1 /\ updates \in Nat
      BY <2>1, BusyFacts, Numbers
    <2>3. (epoch + 1) * EpochLen <= updates
      BY <1>1, <2>1, <2>2, EpochProduct DEF DoneInv
    <2>4. epoch' * EpochLen + position' <= updates'
      BY <1>1, <2>1, <2>2, <2>3, EpochProduct
    <2>5. CASE epoch + 1 = Epochs
      <3>1. TotalSteps <= updates
        BY <1>1, <2>2, <2>3, <2>5, EpochProduct
      <3>2. tracker = updates
        BY <1>1, <2>1, <2>2, <3>1 DEF DoneInv
      <3>3. pc' = "done" /\ tracker' = tracker /\ global_steps' = global_steps
        BY <2>1, <2>5 DEF disk
      <3>4. ~Busy'
        BY <3>3 DEF Busy, SavePCs
      <3> QED
        BY <2>2, <3>2, <3>3, <3>4 DEF DoneInv, DoneMeansSaved
    <2>6. CASE epoch + 1 # Epochs
      <3>1. pc' = "train" /\ tracker' = tracker /\ updates' = updates
        BY <2>1, <2>6 DEF disk
      <3>2. updates' < TotalSteps \/ tracker' = updates'
        BY <2>1, <3>1 DEF DoneInv
      <3> QED
        BY <2>4, <3>1, <3>2 DEF DoneInv, DoneMeansSaved
    <2> QED
      BY <2>5, <2>6
  <1>7. CASE EndTracker
    <2>1. /\ pc = "writing tracker" /\ Busy
          /\ tracker' = global_steps /\ global_steps' = global_steps + 1
          /\ pc' \in {"done", "train"}
          /\ UNCHANGED <<epoch, position, updates>>
      BY <1>7 DEF EndTracker, NextIteration, Busy, SavePCs
    <2>2. updates = global_steps /\ global_steps \in Nat
      <3>1. updates = (IF pc = "train" THEN global_steps - 1 ELSE global_steps)
            /\ global_steps \in Steps
        BY <2>1, BusyFacts
      <3>2. Steps \subseteq Nat
        BY Numbers DEF Steps
      <3> QED
        BY <2>1, <3>1, <3>2
    <2>3. epoch' * EpochLen + position' <= updates'
      <3>1. epoch * EpochLen + position <= updates
        BY <2>1 DEF DoneInv
      <3> QED
        BY <2>1, <3>1
    <2>4. tracker' = updates'
      BY <2>1, <2>2
    <2>5. tracker' = global_steps' - 1
      <3>1. (global_steps + 1) - 1 = global_steps
        BY <2>2
      <3> QED
        BY <2>1, <3>1
    <2> QED
      BY <2>3, <2>4, <2>5 DEF DoneInv, DoneMeansSaved
  <1>8. CASE Crash
    <2>1. pc' = "down"
      BY <1>8 DEF Crash
    <2> QED
      BY <2>1 DEF DoneInv, DoneMeansSaved, Busy, SavePCs
  <1>9. ASSUME Save, ~EndTracker PROVE DoneInv'
    <2>1. /\ Busy /\ pc' \in SavePCs
          /\ UNCHANGED <<epoch, position, updates>>
      BY <1>9 DEF Save, Rotate, BeginShard, EndShard, IsSaving, RoleSaved, BeginData, EndData,
          BeginTracker, loop, Busy, SavePCs
    <2> QED
      BY <2>1 DEF DoneInv, DoneMeansSaved, SavePCs
  <1>10. CASE UNCHANGED vars
    BY <1>10 DEF DoneInv, DoneMeansSaved, Busy, vars, loop, disk
  <1> QED
    BY <1>2, <1>3, <1>4, <1>5, <1>6, <1>7, <1>8, <1>9, <1>10 DEF Next, Progress, Stopped

(* DoneMeansSaved: with any number of deaths on the way, a training that ends
   has its last weights on disk, provided the epochs hold as much data as the
   steps ask for and checkpoints are saved at all. *)
THEOREM CheckpointDone ==
    ASSUME "disable" \notin Modes, MaxKeep # 1,
           SaveFreq > 0, TotalSteps <= Epochs * EpochLen
    PROVE  Spec => []DoneMeansSaved
  <1>1. Init => DoneInv
    BY DEF Init, DoneInv, DoneMeansSaved, Busy, SavePCs
  <1>2. CheckpointInv /\ DoneInv /\ [Next]_vars => DoneInv'
    BY DoneStep
  <1>3. DoneInv => DoneMeansSaved
    BY DEF DoneInv
  <1> QED
    BY <1>1, <1>2, <1>3, CheckpointInvariant, PTL DEF Spec

-----------------------------------------------------------------------------
(* Rotation.  While a run goes on, the folders that hold shards of its own are
   among those its list of saved paths names, and once a rank is past the
   rotation of a save, among those that rotation has left and the folder that
   is being written.  A death forgets the list but writes no folder. *)
Remembered(o) == { previous_saved_paths[o][i] : i \in DOMAIN previous_saved_paths[o] }
Kept(o) == { previous_saved_paths[o][i] :
                 i \in KeepStart(o) + 1 .. Len(previous_saved_paths[o]) }
IsRunning == pc \notin {"down", "failed"}
Rotating(o) == IsSaving /\ o = Saving /\ \E r \in Ranks : rank_pc[r] # "rotate"

RotationType ==
    /\ shards \in [Steps -> [Roles -> [Ranks -> Shard]]]
    /\ run \in 0 .. MaxRuns
    /\ rank_pc \in [Ranks -> {"idle", "rotate", "ready", "writing", "written"}]
    /\ global_steps \in Int /\ updates \in Int
    /\ previous_saved_paths \in [Roles -> Seq(Int)]
    /\ IsRunning => run > 0

CriticIsSaved == pc = "save critic" => UseCritic

NoneFromLater == \A s \in Steps, o \in Roles, r \in Ranks : shards[s][o][r].run <= run

ListsInv ==
    IsRunning => \A o \in Roles :
        /\ Len(previous_saved_paths[o]) <= MaxKeep
        /\ Rotating(o) => OwnCheckpoints(o) \subseteq Kept(o) \cup {global_steps}
        /\ ~Rotating(o) => OwnCheckpoints(o) \subseteq Remembered(o)

RotationInv ==
    /\ RotationType /\ CriticIsSaved /\ NoneFromLater /\ ListsInv
    /\ ~IsRunning => RotationBound

LEMMA NoMoreThanTheList ==
    ASSUME NEW s \in Seq(Int), NEW m \in Nat, Len(s) <= m,
           NEW X, \A x \in X : \E i \in DOMAIN s : s[i] = x
    PROVE  Cardinality(X) <= m
  <1> DEFINE S == { s[i] : i \in DOMAIN s }
  <1>1. s \in Seq(S) /\ \A x \in S : \E i \in DOMAIN s : s[i] = x
    OBVIOUS
  <1>2. X \subseteq S
    OBVIOUS
  <1> HIDE DEF S
  <1>3. IsFiniteSet(S) /\ Cardinality(S) <= Len(s)
    BY <1>1, ElementsOf
  <1>4. Cardinality(X) <= Cardinality(S) /\ Cardinality(X) \in Nat /\ Cardinality(S) \in Nat
    BY <1>2, <1>3, FS_Subset, FS_CardinalityType
  <1> QED
    BY <1>3, <1>4

(* The list a save leaves: what rotation keeps, then the new folder. *)
Following(o) ==
    Append(SubSeq(previous_saved_paths[o], KeepStart(o) + 1, Len(previous_saved_paths[o])),
           global_steps)

LEMMA FollowingList ==
    ASSUME NEW o \in Roles, previous_saved_paths[o] \in Seq(Int), global_steps \in Int,
           MaxKeep > 0, Len(previous_saved_paths[o]) <= MaxKeep
    PROVE  /\ Following(o) \in Seq(Int) /\ Len(Following(o)) <= MaxKeep
           /\ \A x : x \in Kept(o) \cup {global_steps}
                  <=> \E i \in DOMAIN Following(o) : Following(o)[i] = x
  <1> DEFINE p == previous_saved_paths[o]
             n == Len(p)
             k == KeepStart(o)
             q == SubSeq(p, k + 1, n)
             f == Append(q, global_steps)
  <1>1. /\ n \in Nat /\ MaxKeep \in Nat /\ p \in Seq(Int) /\ n <= MaxKeep
        /\ \A i \in 1 .. n : p[i] \in Int
    BY Numbers
  <1>2. k \in 0 .. n /\ n - k + 1 <= MaxKeep
    BY <1>1 DEF KeepStart
  <1> HIDE DEF p, k
  <1>3. /\ q \in Seq(Int) /\ Len(q) = n - k
        /\ \A i \in 1 .. n - k : q[i] = p[k + i]
    BY <1>1, <1>2
  <1> HIDE DEF q, n
  <1>4. /\ f \in Seq(Int) /\ Len(f) = n - k + 1
        /\ \A i \in 1 .. n - k : f[i] = p[k + i]
        /\ f[n - k + 1] = global_steps
        /\ DOMAIN f = 1 .. n - k + 1
    BY <1>1, <1>2, <1>3
  <1>5. f = Following(o) /\ Kept(o) = { p[i] : i \in k + 1 .. n }
    BY DEF Following, Kept, f, q, p, n, k
  <1> HIDE DEF f
  <1>6. ASSUME NEW x \in Kept(o) \cup {global_steps} PROVE \E i \in DOMAIN f : f[i] = x
    <2>1. CASE x \in Kept(o)
      <3>1. PICK i \in k + 1 .. n : x = p[i]
        BY <1>5, <2>1
      <3>2. i - k \in 1 .. n - k /\ k + (i - k) = i
        BY <1>1, <1>2
      <3>3. i - k \in DOMAIN f /\ f[i - k] = x
        BY <1>1, <1>2, <1>4, <3>1, <3>2
      <3> QED
        BY <3>3
    <2>2. CASE x = global_steps
      <3>1. n - k + 1 \in DOMAIN f
        BY <1>1, <1>2, <1>4
      <3> QED
        BY <1>4, <2>2, <3>1
    <2> QED
      BY <2>1, <2>2
  <1>7. ASSUME NEW i \in DOMAIN f PROVE f[i] \in Kept(o) \cup {global_steps}
    <2>1. CASE i = n - k + 1
      BY <1>4, <2>1
    <2>2. CASE i # n - k + 1
      <3>1. i \in 1 .. n - k /\ k + i \in k + 1 .. n
        BY <1>1, <1>2, <1>4, <2>2, SMTT(30)
      <3> QED
        BY <1>4, <1>5, <3>1
    <2> QED
      BY <2>1, <2>2
  <1>8. Len(f) <= MaxKeep
    BY <1>2, <1>4
  <1> QED
    BY <1>4, <1>5, <1>6, <1>7, <1>8, ZenonT(30)

LEMMA BoundFromLists ==
    ASSUME RotationInv, MaxKeep > 0
    PROVE  RotationBound
  <1>1. CASE ~IsRunning
    BY <1>1 DEF RotationInv
  <1>2. CASE IsRunning
    <2> SUFFICES ASSUME NEW o \in Roles PROVE Cardinality(OwnCheckpoints(o)) <= MaxKeep
      BY DEF RotationBound
    <2>1. /\ previous_saved_paths[o] \in Seq(Int) /\ global_steps \in Int
          /\ Len(previous_saved_paths[o]) <= MaxKeep /\ MaxKeep \in Nat
      BY <1>2, Numbers DEF RotationInv, RotationType, ListsInv
    <2>2. CASE Rotating(o)
      <3>1. \A x \in OwnCheckpoints(o) : x \in Kept(o) \cup {global_steps}
        BY <1>2, <2>2 DEF RotationInv, ListsInv
      <3>2. /\ Following(o) \in Seq(Int) /\ Len(Following(o)) <= MaxKeep
            /\ \A x \in OwnCheckpoints(o) : \E i \in DOMAIN Following(o) : Following(o)[i] = x
        BY <2>1, <3>1, FollowingList
      <3> QED
        BY <2>1, <3>2, NoMoreThanTheList
    <2>3. CASE ~Rotating(o)
      <3>1. \A x \in OwnCheckpoints(o) :
                \E i \in DOMAIN previous_saved_paths[o] : previous_saved_paths[o][i] = x
        BY <1>2, <2>3 DEF RotationInv, ListsInv, Remembered
      <3> QED
        BY <2>1, <3>1, NoMoreThanTheList
    <2> QED
      BY <2>2, <2>3
  <1> QED
    BY <1>1, <1>2

LEMMA RotationInit == Init => RotationInv
  <1> SUFFICES ASSUME Init PROVE RotationInv
    OBVIOUS
  <1>1. pc = "down" /\ run = 0 /\ 0 \in 0 .. MaxRuns /\ 0 \in Int /\ ~IsRunning
    BY Numbers DEF Init, IsRunning
  <1>2. Absent \in Shard /\ Absent.run = 0
    BY Numbers DEF Absent, Shard
  <1>3. /\ shards \in [Steps -> [Roles -> [Ranks -> Shard]]]
        /\ \A s \in Steps, o \in Roles, r \in Ranks : shards[s][o][r] = Absent
    BY <1>2 DEF Init, Steps
  <1>4. previous_saved_paths \in [Roles -> Seq(Int)]
    BY DEF Init
  <1>5. RotationType
    BY <1>1, <1>3, <1>4 DEF Init, RotationType
  <1>6. NoneFromLater
    BY <1>1, <1>2, <1>3 DEF NoneFromLater
  <1> QED
    BY <1>1, <1>5, <1>6 DEF RotationInv, CriticIsSaved, ListsInv, RotationBound

LEMMA ShardType ==
    ASSUME RotationType, NEW s \in Steps, NEW o \in Roles, NEW r \in Ranks
    PROVE  shards[s][o][r] \in Shard /\ shards[s][o][r].run \in 0 .. MaxRuns
  <1>1. shards[s][o][r] \in Shard
    BY DEF RotationType
  <1> QED
    BY <1>1 DEF Shard

(* A new run has written nothing yet. *)
LEMMA RotationStart ==
    ASSUME RotationInv, StartRun, global_steps' \in Int, updates' \in Int,
           pc' \in {"train", "failed"}, MaxKeep > 0
    PROVE  RotationInv'
  <1>1. /\ run' = run + 1 /\ run < MaxRuns /\ run \in 0 .. MaxRuns /\ shards' = shards
        /\ previous_saved_paths' = [o \in Roles |-> <<>>]
        /\ rank_pc' = [r \in Ranks |-> "idle"]
    BY DEF StartRun, disk, RotationInv, RotationType
  <1>2. run' \in 1 .. MaxRuns /\ run' > run /\ MaxKeep \in Nat
    BY <1>1, Numbers
  <1>3. \A s \in Steps, o \in Roles, r \in Ranks :
            shards[s][o][r].run \in 0 .. MaxRuns /\ shards[s][o][r].run <= run
    BY ShardType DEF RotationInv, NoneFromLater
  <1>4. \A o \in Roles : OwnCheckpoints(o)' = {}
    BY <1>1, <1>2, <1>3 DEF OwnCheckpoints, Steps, MaxStep
  <1>5. RotationType'
    <2>1. previous_saved_paths' \in [Roles -> Seq(Int)]
      BY <1>1
    <2>2. shards' \in [Steps -> [Roles -> [Ranks -> Shard]]]
      BY <1>1 DEF RotationInv, RotationType, Steps, MaxStep, Shard, Roles
    <2>3. rank_pc' \in [Ranks -> {"idle", "rotate", "ready", "writing", "written"}]
      BY <1>1
    <2>4. run' \in 0 .. MaxRuns /\ run' > 0
      BY <1>2
    <2> QED
      BY <2>1, <2>2, <2>3, <2>4 DEF RotationType
  <1>6. NoneFromLater'
    BY <1>1, <1>2, <1>3 DEF NoneFromLater
  <1>7. ListsInv'
    <2>1. \A o \in Roles : Len(previous_saved_paths'[o]) = 0
      BY <1>1
    <2> QED
      BY <1>2, <1>4, <2>1 DEF ListsInv
  <1>8. RotationBound'
    <2>1. Cardinality({}) = 0
      BY FS_EmptySet
    <2> QED
      BY <1>2, <1>4, <2>1 DEF RotationBound
  <1> QED
    BY <1>5, <1>6, <1>7, <1>8 DEF RotationInv, CriticIsSaved

(* Nor does a step outside the managers' save_checkpoint write shards. *)
LEMMA RotationQuiet ==
    ASSUME RotationInv, IsRunning, ~IsSaving,
           UNCHANGED <<shards, run, previous_saved_paths>>,
           rank_pc' = rank_pc \/ rank_pc' = [r \in Ranks |-> "rotate"],
           pc' = "save actor" => rank_pc' = [r \in Ranks |-> "rotate"],
           global_steps' \in Int, updates' \in Int,
           pc' \notin {"down", "failed", "save critic"}
    PROVE  RotationInv'
  <1>1. RotationType'
    <2>1. rank_pc' \in [Ranks -> {"idle", "rotate", "ready", "writing", "written"}]
      BY DEF RotationInv, RotationType
    <2> QED
      BY <2>1 DEF RotationInv, RotationType, IsRunning
  <1>2. NoneFromLater'
    BY DEF RotationInv, NoneFromLater
  <1>3. \A o \in Roles : ~Rotating(o) /\ ~Rotating(o)'
    BY DEF Rotating, IsSaving
  <1>4. \A o \in Roles : OwnCheckpoints(o)' = OwnCheckpoints(o)
                         /\ Remembered(o)' = Remembered(o)
    BY DEF OwnCheckpoints, Remembered
  <1>5. ListsInv'
    BY <1>3, <1>4 DEF RotationInv, ListsInv
  <1> QED
    BY <1>1, <1>2, <1>5 DEF RotationInv, IsRunning, CriticIsSaved

LEMMA SavingRole ==
    ASSUME CriticIsSaved, IsSaving
    PROVE  Saving \in Roles
  <1>1. "actor" \in Roles /\ (UseCritic => "critic" \in Roles)
    BY DEF Roles
  <1> QED
    BY <1>1 DEF CriticIsSaved, IsSaving, Saving

LEMMA RotateKeepsBound ==
    ASSUME RotationInv, NEW r \in Ranks, Rotate(r), MaxKeep > 0
    PROVE  RotationInv'
  <1>1. /\ IsSaving /\ IsRunning /\ run > 0 /\ RotationType /\ Saving \in Roles
        /\ UNCHANGED <<run, pc, global_steps, updates, previous_saved_paths>>
        /\ rank_pc' = [rank_pc EXCEPT ![r] = "ready"]
        /\ Saving' = Saving /\ IsSaving'
    BY SavingRole DEF Rotate, RotationInv, RotationType, IsSaving, IsRunning, loop, Saving
  <1>2. \A s \in Steps, o \in Roles, q \in Ranks :
            /\ s \in Rotated(Saving) /\ o = Saving => shards'[s][o][q] = Absent
            /\ ~(s \in Rotated(Saving) /\ o = Saving) => shards'[s][o][q] = shards[s][o][q]
    BY <1>1 DEF Rotate, RotationType, Steps
  <1>3. shards' \in [Steps -> [Roles -> [Ranks -> Shard]]]
    <2>1. Absent \in Shard
      BY Numbers DEF Absent, Shard
    <2>2. \A s \in Steps : [shards[s] EXCEPT ![Saving] = [q \in Ranks |-> Absent]]
                               \in [Roles -> [Ranks -> Shard]]
      BY <1>1, <2>1 DEF RotationType
    <2> QED
      BY <1>1, <2>2 DEF Rotate, RotationType, Steps
  <1>4. RotationType'
    BY <1>1, <1>3 DEF RotationType, IsRunning
  <1>5. run \in 0 .. MaxRuns /\ Absent.run = 0 /\ Absent.run # run /\ Absent.run <= run
    BY <1>1 DEF Absent, RotationType
  <1>6. NoneFromLater'
    BY <1>1, <1>2, <1>5 DEF NoneFromLater, RotationInv
  <1>7. \A o \in Roles : OwnCheckpoints(o)' \subseteq OwnCheckpoints(o)
    BY <1>1, <1>2, <1>5 DEF OwnCheckpoints
  <1>8. \A s \in OwnCheckpoints(Saving)' : s \notin Rotated(Saving)
    BY <1>1, <1>2, <1>5 DEF OwnCheckpoints
  <1>9. \A o \in Roles : /\ KeepStart(o)' = KeepStart(o)
                         /\ Kept(o)' = Kept(o) /\ Remembered(o)' = Remembered(o)
    BY <1>1 DEF KeepStart, Kept, Remembered
  <1>10. OwnCheckpoints(Saving)' \subseteq Kept(Saving) \cup {global_steps}
    <2>1. CASE Rotating(Saving)
      BY <1>1, <1>7, <2>1 DEF RotationInv, ListsInv
    <2>2. CASE ~Rotating(Saving)
      <3>1. OwnCheckpoints(Saving)' \subseteq Remembered(Saving)
        BY <1>1, <1>7, <2>2 DEF RotationInv, ListsInv
      <3>2. /\ previous_saved_paths[Saving] \in Seq(Int)
            /\ Len(previous_saved_paths[Saving]) \in Nat
            /\ DOMAIN previous_saved_paths[Saving] = 1 .. Len(previous_saved_paths[Saving])
        BY <1>1 DEF RotationType
      <3>3. KeepStart(Saving) \in Int
        BY <3>2, Numbers DEF KeepStart
      <3>4. ASSUME NEW s \in Remembered(Saving), s \notin Rotated(Saving)
            PROVE  s \in Kept(Saving)
        <4>1. PICK i \in 1 .. Len(previous_saved_paths[Saving]) :
                  s = previous_saved_paths[Saving][i]
          BY <3>2, <3>4 DEF Remembered
        <4>2. i \notin 1 .. KeepStart(Saving)
          BY <3>4, <4>1 DEF Rotated
        <4>3. i \in KeepStart(Saving) + 1 .. Len(previous_saved_paths[Saving])
          BY <3>2, <3>3, <4>2
        <4> QED
          BY <4>1, <4>3 DEF Kept
      <3> QED
        BY <1>8, <3>1, <3>4
    <2> QED
      BY <2>1, <2>2
  <1>11. ListsInv'
    <2> SUFFICES ASSUME NEW o \in Roles
                 PROVE  /\ Len(previous_saved_paths'[o]) <= MaxKeep
                        /\ Rotating(o)' => OwnCheckpoints(o)' \subseteq
                                               Kept(o)' \cup {global_steps'}
                        /\ ~Rotating(o)' => OwnCheckpoints(o)' \subseteq Remembered(o)'
      BY <1>1 DEF ListsInv
    <2>1. Len(previous_saved_paths'[o]) <= MaxKeep
      BY <1>1 DEF RotationInv, ListsInv
    <2>2. CASE o = Saving
      <3>1. rank_pc'[r] = "ready"
        BY <1>1 DEF RotationType
      <3>2. Rotating(o)'
        BY <1>1, <2>2, <3>1 DEF Rotating
      <3> QED
        BY <1>1, <1>9, <1>10, <2>1, <2>2, <3>2
    <2>3. CASE o # Saving
      <3>1. ~Rotating(o) /\ ~Rotating(o)'
        BY <1>1, <2>3 DEF Rotating
      <3> QED
        BY <1>1, <1>7, <1>9, <2>1, <3>1 DEF RotationInv, ListsInv
    <2> QED
      BY <2>2, <2>3
  <1> QED
    BY <1>1, <1>4, <1>6, <1>11 DEF RotationInv, IsRunning, CriticIsSaved

(* A shard is written when everybody has rotated, into the new folder. *)
LEMMA WriteKeepsBound ==
    ASSUME RotationInv, NEW r \in Ranks, NEW shard \in Shard, MaxKeep > 0,
           IsSaving, rank_pc[r] # "rotate", shard.run <= run,
           shards' = PutShard(r, shard),
           NEW to \in {"writing", "written"}, rank_pc' = [rank_pc EXCEPT ![r] = to],
           UNCHANGED <<run, pc, loop, previous_saved_paths>>
    PROVE  RotationInv'
  <1>1. /\ IsRunning /\ run > 0 /\ RotationType /\ Saving \in Roles
        /\ UNCHANGED <<run, pc, global_steps, updates, previous_saved_paths>>
        /\ Saving' = Saving /\ IsSaving'
    BY SavingRole DEF RotationInv, RotationType, IsSaving, IsRunning, loop, Saving
  <1>2. /\ shards' \in [Steps -> [Roles -> [Ranks -> Shard]]]
        /\ \A s \in Steps, o \in Roles, q \in Ranks :
               \/ shards'[s][o][q] = shards[s][o][q]
               \/ s = global_steps /\ o = Saving /\ shards'[s][o][q] = shard
    <2>1. CASE global_steps \in Steps
      <3> DEFINE folder == [shards[global_steps][Saving] EXCEPT ![r] = shard]
                 step == [shards[global_steps] EXCEPT ![Saving] = folder]
      <3>1. shards[global_steps] \in [Roles -> [Ranks -> Shard]]
        BY <1>1, <2>1 DEF RotationType
      <3>2. shards[global_steps][Saving] \in [Ranks -> Shard]
        BY <1>1, <3>1
      <3>3. folder \in [Ranks -> Shard]
            /\ \A q \in Ranks : folder[q] = IF q = r THEN shard
                                            ELSE shards[global_steps][Saving][q]
        BY <3>2
      <3>4. shards' = [shards EXCEPT ![global_steps] = step]
        BY DEF PutShard
      <3> HIDE DEF folder
      <3>5. step \in [Roles -> [Ranks -> Shard]]
            /\ \A o \in Roles : step[o] = IF o = Saving THEN folder
                                          ELSE shards[global_steps][o]
        BY <3>1, <3>3
      <3> HIDE DEF step
      <3>6. /\ shards' \in [Steps -> [Roles -> [Ranks -> Shard]]]
            /\ \A s \in Steps : shards'[s] = IF s = global_steps THEN step ELSE shards[s]
        BY <1>1, <3>4, <3>5 DEF RotationType
      <3> QED
        BY <3>3, <3>5, <3>6
    <2>2. CASE global_steps \notin Steps
      <3>1. shards' = shards
        BY <1>1, <2>2 DEF PutShard, RotationType
      <3> QED
        BY <1>1, <3>1 DEF RotationType, Steps, MaxStep, Roles, Shard
    <2> QED
      BY <2>1, <2>2
  <1>3. rank_pc' \in [Ranks -> {"idle", "rotate", "ready", "writing", "written"}]
        /\ rank_pc'[r] # "rotate"
    BY <1>1 DEF RotationType
  <1>4. RotationType'
    BY <1>1, <1>2, <1>3 DEF RotationType, IsRunning
  <1>5. NoneFromLater'
    <2>1. \A s \in Steps, o \in Roles, q \in Ranks :
              shards'[s][o][q] = shards[s][o][q] \/ shards'[s][o][q] = shard
      BY <1>2
    <2>2. \A s \in Steps, o \in Roles, q \in Ranks : shards'[s][o][q].run <= run
      BY <2>1 DEF NoneFromLater, RotationInv
    <2> QED
      BY <1>1, <2>2 DEF NoneFromLater
  <1>6. \A o \in Roles : \A s \in OwnCheckpoints(o)' :
            s \in OwnCheckpoints(o) \/ (o = Saving /\ s = global_steps)
    BY <1>1, <1>2 DEF OwnCheckpoints
  <1>7. \A o \in Roles : /\ KeepStart(o)' = KeepStart(o)
                         /\ Kept(o)' = Kept(o) /\ Remembered(o)' = Remembered(o)
    BY <1>1 DEF KeepStart, Kept, Remembered
  <1>8. \A o \in Roles : /\ Rotating(o) <=> o = Saving
                         /\ Rotating(o)' <=> o = Saving
    BY <1>1, <1>3 DEF Rotating
  <1>9. ListsInv'
    BY <1>1, <1>6, <1>7, <1>8 DEF RotationInv, ListsInv
  <1> QED
    BY <1>1, <1>4, <1>5, <1>9 DEF RotationInv, IsRunning, CriticIsSaved

LEMMA BeginShardKeepsBound ==
    ASSUME RotationInv, NEW r \in Ranks, BeginShard(r), MaxKeep > 0
    PROVE  RotationInv'
  <1>1. run \in 0 .. MaxRuns
    BY DEF RotationInv, RotationType
  <1>2. TornShard \in Shard /\ TornShard.run <= run
    BY <1>1, Numbers DEF TornShard, Shard
  <1> QED
    BY <1>2, WriteKeepsBound DEF BeginShard

LEMMA EndShardKeepsBound ==
    ASSUME RotationInv, NEW r \in Ranks, EndShard(r), MaxKeep > 0
    PROVE  RotationInv'
  <1> DEFINE shard == [run |-> run, updates |-> updates]
  <1>1. run \in 0 .. MaxRuns /\ updates \in Int
    BY DEF RotationInv, RotationType
  <1>2. shard \in Shard /\ shard.run <= run
    BY <1>1 DEF Shard
  <1>3. /\ IsSaving /\ rank_pc[r] # "rotate" /\ shards' = PutShard(r, shard)
        /\ rank_pc' = [rank_pc EXCEPT ![r] = "written"]
        /\ UNCHANGED <<run, pc, loop, previous_saved_paths>>
    BY DEF EndShard
  <1> HIDE DEF shard
  <1> QED
    BY <1>2, <1>3, WriteKeepsBound

LEMMA RoleSavedKeepsBound ==
    ASSUME RotationInv, RoleSaved, MaxKeep > 0
    PROVE  RotationInv'
  <1>1. /\ IsSaving /\ IsRunning /\ run > 0 /\ RotationType /\ Saving \in Roles
        /\ UNCHANGED <<shards, run, global_steps, updates>>
        /\ pc' \in {"save critic", "save data"} /\ IsRunning'
        /\ pc' = "save critic" => UseCritic /\ rank_pc' = [q \in Ranks |-> "rotate"]
        /\ rank_pc' = [q \in Ranks |-> "rotate"] \/ rank_pc' = [q \in Ranks |-> "idle"]
    <2>1. RotationType /\ IsSaving /\ Saving \in Roles
      BY SavingRole DEF RoleSaved, Recorded, RotationInv
    <2>2. IsRunning /\ run > 0
      BY <2>1 DEF RotationType, IsSaving, IsRunning
    <2>3. /\ pc' \in {"save critic", "save data"}
          /\ pc' = "save critic" => UseCritic /\ rank_pc' = [q \in Ranks |-> "rotate"]
          /\ rank_pc' = [q \in Ranks |-> "rotate"] \/ rank_pc' = [q \in Ranks |-> "idle"]
      BY DEF RoleSaved, Recorded
    <2> QED
      BY <2>1, <2>2, <2>3 DEF RoleSaved, Recorded, loop, disk, IsRunning
  <1>2. /\ previous_saved_paths \in [Roles -> Seq(Int)] /\ global_steps \in Int
        /\ \A o \in Roles : Len(previous_saved_paths[o]) <= MaxKeep
    BY <1>1 DEF RotationInv, RotationType, ListsInv
  <1>3. \A o \in Roles : previous_saved_paths'[o] =
            IF o = Saving THEN Following(o) ELSE previous_saved_paths[o]
    BY <1>1, <1>2 DEF RoleSaved, Recorded, Following
  <1>4. /\ Following(Saving) \in Seq(Int) /\ Len(Following(Saving)) <= MaxKeep
        /\ \A x : x \in Kept(Saving) \cup {global_steps}
               <=> \E i \in DOMAIN Following(Saving) : Following(Saving)[i] = x
    BY <1>1, <1>2, FollowingList
  <1>5. previous_saved_paths' \in [Roles -> Seq(Int)]
    <2>1. previous_saved_paths' = [previous_saved_paths EXCEPT ![Saving] = Following(Saving)]
      BY <1>1, <1>2 DEF RoleSaved, Recorded, Following
    <2> QED
      BY <1>2, <1>4, <2>1
  <1>6. RotationType'
    BY <1>1, <1>5 DEF RotationType, IsRunning
  <1>7. NoneFromLater'
    BY <1>1 DEF NoneFromLater, RotationInv
  <1>8. \A o \in Roles : Rotating(o) <=> o = Saving
    <2>1. \E q \in Ranks : rank_pc[q] # "rotate"
      BY RanksAssumption DEF RoleSaved, Recorded
    <2> QED
      BY <1>1, <2>1 DEF Rotating
  <1>9. \A o \in Roles : ~Rotating(o)'
    BY <1>1 DEF Rotating, IsSaving
  <1>10. \A o \in Roles : OwnCheckpoints(o)' = OwnCheckpoints(o)
    BY <1>1 DEF OwnCheckpoints
  <1>11. ASSUME NEW o \in Roles PROVE OwnCheckpoints(o) \subseteq Remembered(o)'
    <2>1. CASE o = Saving
      <3>1. OwnCheckpoints(o) \subseteq Kept(o) \cup {global_steps}
        BY <1>1, <1>8, <2>1 DEF RotationInv, ListsInv
      <3>2. Remembered(o)' = { Following(o)[i] : i \in DOMAIN Following(o) }
        BY <1>3, <2>1 DEF Remembered
      <3> QED
        BY <1>4, <2>1, <3>1, <3>2
    <2>2. CASE o # Saving
      <3>1. OwnCheckpoints(o) \subseteq Remembered(o)
        BY <1>1, <1>8, <2>2 DEF RotationInv, ListsInv
      <3> QED
        BY <1>3, <2>2, <3>1 DEF Remembered
    <2> QED
      BY <2>1, <2>2
  <1>12. ListsInv'
    BY <1>2, <1>3, <1>4, <1>9, <1>10, <1>11 DEF ListsInv
  <1> QED
    BY <1>1, <1>6, <1>7, <1>12 DEF RotationInv, CriticIsSaved

LEMMA CrashKeepsBound ==
    ASSUME RotationInv, Crash, MaxKeep > 0
    PROVE  RotationInv'
  <1>1. /\ RotationType /\ UNCHANGED <<shards, run>> /\ ~IsRunning' /\ pc' = "down"
        /\ rank_pc' = [r \in Ranks |-> "idle"]
        /\ previous_saved_paths' = [o \in Roles |-> <<>>]
        /\ global_steps' = 0 /\ updates' = 0
    BY DEF RotationInv, Crash, disk, IsRunning
  <1>2. RotationType'
    <2>1. previous_saved_paths' \in [Roles -> Seq(Int)]
          /\ rank_pc' \in [Ranks -> {"idle", "rotate", "ready", "writing", "written"}]
      BY <1>1
    <2> QED
      BY <1>1, <2>1 DEF RotationType
  <1>3. NoneFromLater'
    BY <1>1 DEF RotationInv, NoneFromLater
  <1>4. RotationBound'
    BY <1>1, BoundFromLists DEF RotationBound, OwnCheckpoints
  <1> QED
    BY <1>1, <1>2, <1>3, <1>4 DEF RotationInv, CriticIsSaved, ListsInv

LEMMA RotationStep ==
    ASSUME RotationInv, [Next]_vars, MaxKeep > 0
    PROVE  RotationInv'
  <1>1. /\ global_steps \in Int /\ updates \in Int /\ global_steps + 1 \in Int
        /\ updates + 1 \in Int
    BY DEF RotationInv, RotationType
  <1>2. CASE StartFromScratch
    BY <1>2, RotationStart DEF StartFromScratch, Begin
  <1>3. CASE Resume
    <2>1. PICK r \in Ranks :
              Begin(tracker, data_pt[tracker], shards[tracker]["actor"][r].updates)
      BY <1>3 DEF Resume
    <2>2. tracker \in Steps /\ tracker + 1 \in Int /\ "actor" \in Roles /\ StartRun
      BY <1>3, Numbers DEF Resume, Steps, Roles
    <2>3. shards[tracker]["actor"][r].updates \in Int
      BY <2>2, ShardType DEF RotationInv, Shard
    <2> QED
      BY <2>1, <2>2, <2>3, RotationStart DEF Begin
  <1>4. CASE ResumeFails
    BY <1>1, <1>4, RotationStart DEF ResumeFails, loop
  <1>5. CASE TrainStep
    BY <1>1, <1>5, RotationQuiet DEF TrainStep, NextIteration, IsRunning, IsSaving, disk
  <1>6. CASE EndEpoch
    BY <1>1, <1>6, RotationQuiet DEF EndEpoch, IsRunning, IsSaving, disk
  <1>7. CASE Save
    <2>1. CASE \E r \in Ranks : Rotate(r) \/ BeginShard(r) \/ EndShard(r)
      BY <2>1, RotateKeepsBound, BeginShardKeepsBound, EndShardKeepsBound
    <2>2. CASE RoleSaved
      BY <2>2, RoleSavedKeepsBound
    <2>3. CASE BeginData \/ EndData
      BY <1>1, <2>3, RotationQuiet DEF BeginData, EndData, IsRunning, IsSaving, loop
    <2>4. CASE BeginTracker
      BY <1>1, <2>4, RotationQuiet DEF BeginTracker, IsRunning, IsSaving, loop
    <2>5. CASE EndTracker
      BY <1>1, <2>5, RotationQuiet DEF EndTracker, NextIteration, IsRunning, IsSaving
    <2> QED
      BY <1>7, <2>1, <2>2, <2>3, <2>4, <2>5 DEF Save
  <1>8. CASE Crash
    BY <1>8, CrashKeepsBound
  <1>9. CASE UNCHANGED vars
    <2>1. UNCHANGED <<shards, run, pc, rank_pc, global_steps, updates, previous_saved_paths>>
      BY <1>9 DEF vars, loop, disk
    <2>2. RotationType' /\ CriticIsSaved' /\ NoneFromLater'
      BY <2>1 DEF RotationInv, RotationType, CriticIsSaved, NoneFromLater, IsRunning
    <2>3. \A o : /\ Rotating(o)' = Rotating(o) /\ OwnCheckpoints(o)' = OwnCheckpoints(o)
                 /\ Kept(o)' = Kept(o) /\ Remembered(o)' = Remembered(o)
      BY <2>1 DEF Rotating, IsSaving, Saving, OwnCheckpoints, Kept, KeepStart, Remembered
    <2>4. ListsInv'
      BY <2>1, <2>3 DEF RotationInv, ListsInv, IsRunning
    <2>5. (~IsRunning => RotationBound)'
      BY <2>1, <2>3 DEF RotationInv, RotationBound, IsRunning
    <2> QED
      BY <2>2, <2>4, <2>5 DEF RotationInv
  <1> QED
    BY <1>2, <1>3, <1>4, <1>5, <1>6, <1>7, <1>8, <1>9 DEF Next, Progress, Stopped

(* RotationBound: whatever the resume mode, the number of ranks, saves and
   deaths, a run never has more than MaxKeep checkpoints of its own on disk,
   not even while it writes the next one. *)
THEOREM CheckpointRotationBound == Spec => []RotationBound
  <1>1. CASE MaxKeep > 0
    <2>1. RotationInv /\ [Next]_vars => RotationInv'
      BY <1>1, RotationStep
    <2>2. RotationInv => RotationBound
      BY <1>1, BoundFromLists
    <2> QED
      BY <2>1, <2>2, RotationInit, PTL DEF Spec
  <1>2. CASE ~(MaxKeep > 0)
    <2>1. RotationBound
      BY <1>2 DEF RotationBound
    <2> QED
      BY <2>1, PTL
  <1> QED
    BY <1>1, <1>2
=============================================================================

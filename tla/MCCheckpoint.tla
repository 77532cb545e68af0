---------------------------- MODULE MCCheckpoint ----------------------------
(* Checkpoint with a small number of steps, saves and starts of the job. *)
EXTENDS Checkpoint

(* docs/examples/config.rst:502-503: "If set to auto as default, the program will
   automatically resume from the latest checkpoint"; ray_trainer.py:938 calls
   the tracker file "for atomic usage". *)
AutoResumes == pc # "failed"

(* verl/utils/checkpoint/checkpoint_manager.py:169: the tracker file records
   "the latest chckpoint during training to restart from". *)
TrackerCanBeRestarted == tracker \in Steps => Loadable(tracker)
=============================================================================

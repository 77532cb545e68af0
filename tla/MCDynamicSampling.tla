------------------------- MODULE MCDynamicSampling -------------------------
EXTENDS DynamicSampling

(* rollout_loop.py:422: "Conduct dynamic rollouts until a target batch size is
   met.  Keeps sampling until the desired number of effective trajectories is
   collected." *)
KeepsSampling == pc # "failed"
=============================================================================

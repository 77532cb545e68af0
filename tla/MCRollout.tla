------------------------------ MODULE MCRollout ------------------------------
(* Rollout on a small batch.  An environment may go on, pay and call a tool,
   fail, win, or (the interesting answer once its episode is over) pay and
   claim success without reporting the end again. *)
EXTENDS Rollout

MCOutcomes ==
    { [reward |-> 0, done |-> FALSE, won |-> FALSE, tool |-> 1],
      [reward |-> 1, done |-> FALSE, won |-> TRUE, tool |-> 0],
      [reward |-> 0, done |-> TRUE, won |-> FALSE, tool |-> 0],
      [reward |-> 1, done |-> TRUE, won |-> TRUE, tool |-> 1] }
=============================================================================

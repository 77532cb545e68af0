--------------------------- MODULE MCTrainingStep ---------------------------
EXTENDS TrainingStep

Row(traj, step, uid, obs, reward, valid, len) ==
    [traj |-> traj, step |-> step, uid |-> uid, obs |-> obs,
     reward |-> reward, valid |-> valid, len |-> len]

(* Two prompts.  Three rows, to which one is added: every choice of lengths
   and observations.  Five rows, to which three are added: an invalid action,
   rewards that differ from turn to turn.  One row, which is too few. *)
MCBatches ==
    { << Row("t1", 1, "u1", o[1], 1, TRUE, l[1]), Row("t1", 2, "u1", o[2], 2, FALSE, l[2]),
         Row("t2", 1, "u2", o[3], 1, TRUE, l[3]) >> :
      l \in [1 .. 3 -> {1, 3}], o \in {<<"a", "b", "a">>, <<"b", "b", "b">>} }
    \cup
    { << Row("t1", 1, "u1", "a", 1, TRUE, l[1]), Row("t1", 2, "u1", "c", 3, FALSE, l[2]),
         Row("t2", 1, "u1", "b", 2, TRUE, 3), Row("t3", 1, "u2", "a", 0, TRUE, 1),
         Row("t3", 2, "u2", "b", 1, TRUE, l[2]) >> :
      l \in [1 .. 2 -> {1, 3}] }
    \cup { << Row("t1", 1, "u1", "a", 1, TRUE, 1) >> }

(* "b" resembles both "a" and "c", which do not resemble each other. *)
MCSimilarObs == {<<"a", "b">>, <<"b", "a">>, <<"b", "c">>, <<"c", "b">>}

(* verl/workers/actor/dp_actor.py:79: "entropy: # (bs, response_len)", which
   fit (ray_trainer.py:1144) aggregates with the response mask of the same
   batch, row by row. *)
EntropiesAlign ==
    \A i \in DOMAIN entropys : entropys[i].of = Name(batch[i])
=============================================================================

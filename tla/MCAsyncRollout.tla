--------------------------- MODULE MCAsyncRollout ---------------------------
(* AsyncRollout with two requests, of which one has only one of the tools. *)
EXTENDS AsyncRollout, TLC

CONSTANTS q1, q2, t1, t2

TwoRequests == {q1, q2}
TwoTools == {t1, t2}
BothAndOne == q1 :> {t1, t2} @@ q2 :> {t1}
(* A prompt that fits, two that are cut, in the middle of a text and behind a
   message, and one that is cut and too long for the engine. *)
EveryPrompt ==
    {[tokens |-> n, ends |-> "mark"] : n \in {2, 16}} \cup
    [tokens : {9}, ends : {"text", "message"}]
OnePrompt == {[tokens |-> 2, ends |-> "mark"]}
NoTools == q1 :> {} @@ q2 :> {}
TrainTwice == <<"train", "train">>
ValidateThenTrain == <<"validate", "train">>

(* sglang_rollout.py:391: "Parameters are automatically fall back to their
   original values upon exiting the block." *)
ParametersFallBack ==
    (\A q \in Requests : req[q].pc # "generate") => sampling_params = "train"
=============================================================================

------------------------------ MODULE Dispatch ------------------------------
(***************************************************************************)
(* How a batch reaches the ranks of a worker group and comes back          *)
(* (verl/single_controller/base/decorator.py, verl/protocol.py), also      *)
(* through the tensor parallel groups of the rollout engine                *)
(* (verl/workers/sharding_manager/fsdp_vllm.py).                           *)
(***************************************************************************)
EXTENDS Integers, Sequences, SequencesExt

CONSTANTS
    WorldSize,          \* ranks of the worker group
    TpSize              \* rollout.tensor_model_parallel_size

ASSUME WorldAssumption ==
    WorldSize \in Nat \ {0} /\ TpSize \in Nat \ {0} /\ WorldSize % TpSize = 0

Ranks == 0 .. WorldSize - 1
TpGroup(r) == r \div TpSize
TpPeers(r) == { q \in Ranks : TpGroup(q) = TpGroup(r) }

(* Dispatch.DP_COMPUTE_PROTO: equal chunks, in order; the outputs of the
   ranks are concatenated. *)
Chunks(seq, k) ==
    LET n == Len(seq) \div k
    IN  [r \in 0 .. k - 1 |-> SubSeq(seq, r * n + 1, (r + 1) * n)]
Collected(outputs, k) == FlattenSeq([i \in 1 .. k |-> outputs[i - 1]])

(* pad_dataproto_to_divisor, unpad_dataproto *)
PadSize(n, k) == (k - (n % k)) % k
Padded(seq, k) ==
    seq \o [i \in 1 .. PadSize(Len(seq), k) |-> seq[((i - 1) % Len(seq)) + 1]]
Unpadded(seq, n) == SubSeq(seq, 1, n)

(* generate_sequences on all the ranks: the ranks of a tensor parallel group
   gather their chunks, answer all of them, and return their own again. *)
Gathered(chunks, g) == FlattenSeq([i \in 1 .. TpSize |-> chunks[g * TpSize + i - 1]])
OwnAnswers(answers, r) == Chunks(answers, TpSize)[r % TpSize]
Answers(prompts, weights) ==
    LET padded == Padded(prompts, WorldSize)
        chunks == Chunks(padded, WorldSize)
        outputs == [r \in Ranks |->
            OwnAnswers([i \in DOMAIN Gathered(chunks, TpGroup(r)) |->
                           [to |-> Gathered(chunks, TpGroup(r))[i], weights |-> weights]], r)]
    IN  Unpadded(Collected(outputs, WorldSize), Len(prompts))
=============================================================================

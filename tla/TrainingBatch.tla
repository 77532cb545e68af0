--------------------------- MODULE TrainingBatch ---------------------------
(***************************************************************************)
(* What happens to a batch between the rollout and the updates, as         *)
(* operators: copying rows until it divides evenly, reordering, dispatch   *)
(* to the ranks, micro batches, returns and groups of GiGPO, penalties.    *)
(* A row is one turn of one trajectory; every column it gets is a field    *)
(* that names the row it was computed from.                                *)
(***************************************************************************)
EXTENDS Balance, Dispatch

CONSTANTS
    LogProbMicro, RefMicro, ActorMicro, CriticMicro, \* micro batch sizes per device
    MiniBatch,          \* ppo_mini_batch_size of one rank
    UseKl,              \* a reference policy is used
    UseDynamicBsz,      \* micro batches by their number of tokens ...
    MaxTokenLen,        \* ... at most this many
    BalanceBatch,       \* trainer.balance_batch
    Gamma, PenaltyCoef,
    SimilarObs          \* pairs of observations that are_similar finds so

ASSUME BatchSizesAssumption ==
    /\ {LogProbMicro, RefMicro, ActorMicro, CriticMicro, MiniBatch, MaxTokenLen}
           \subseteq Nat \ {0}
    /\ Gamma \in Int

Name(row) == <<row.traj, row.step>>

(* DataProto.union with one column. *)
WithColumn(rows, name, values) ==
    [i \in DOMAIN rows |-> [field \in DOMAIN rows[i] \cup {name} |->
        IF field = name THEN values[i] ELSE rows[i][field]]]

-----------------------------------------------------------------------------
(* core_gigpo.compute_step_discounted_returns: the rows of a trajectory are
   taken in the order in which they stand in the batch. *)
ReturnAt(rows, i) ==
    LET running[j \in 1 .. Len(rows) + 1] ==
            IF j > Len(rows) THEN 0
            ELSE IF rows[j].traj = rows[i].traj THEN rows[j].reward + Gamma * running[j + 1]
            ELSE running[j + 1]
    IN  running[i]
WithReturns(rows) ==
    WithColumn(rows, "step_rewards", [i \in DOMAIN rows |-> ReturnAt(rows, i)])

(* adjust_batch in its mode "copy": rows chosen at random are appended. *)
LcmOf(a, b) == CHOOSE n \in 1 .. a * b :
    /\ n % a = 0 /\ n % b = 0
    /\ \A m \in 1 .. n - 1 : m % a # 0 \/ m % b # 0
SizeDivisor ==
    LET rollout == LogProbMicro * WorldSize
        ref == IF UseKl THEN RefMicro * WorldSize ELSE rollout
    IN  LcmOf(LcmOf(ref, rollout), ActorMicro * WorldSize)
ToAdd(n) == IF n % SizeDivisor = 0 THEN 0 ELSE SizeDivisor - (n % SizeDivisor)
DistinctChoices(n, k) == { c \in [1 .. k -> 1 .. n] : IsInjective(c) }

WithCopies(rows, dup_indices) == rows \o [i \in DOMAIN dup_indices |-> rows[dup_indices[i]]]

ReturnsOfCopies(rows, dup_indices) ==                          \* mutant
    WithReturns(WithCopies(rows, dup_indices))
Prepared(rows, dup_indices) == WithCopies(WithReturns(rows), dup_indices)

(* RayPPOTrainer._balance_batch *)
LensOf(rows) == [i \in DOMAIN rows |-> rows[i].len]
Reordered(rows, idx) == [i \in DOMAIN idx |-> rows[idx[i]]]
Balanced(rows) ==
    Reordered(rows, FlattenSeq(BalancedPartitions(LensOf(rows), WorldSize, TRUE)))

-----------------------------------------------------------------------------
(* The micro batches of every rank, as sequences of positions in its chunk.
   With dynamic sizes the ranks agree on the largest number. *)
WholeOnly(seq, n) ==                                           \* mutant
    [i \in 1 .. Len(seq) \div n |-> SubSeq(seq, (i - 1) * n + 1, i * n)]
Split(seq, n) ==
    [i \in 1 .. CeilDiv(Len(seq), n) |->
        SubSeq(seq, (i - 1) * n + 1, IF i * n < Len(seq) THEN i * n ELSE Len(seq))]

EachItsOwn(counts) == counts                                   \* mutant
AllReduced(counts) ==
    [r \in DOMAIN counts |-> CHOOSE n \in { counts[q] : q \in DOMAIN counts } :
        \A q \in DOMAIN counts : counts[q] <= n]

MicroBatches(chunks, micro_batch_size) ==
    LET counts == AllReduced([r \in DOMAIN chunks |->
                                 OwnMicroCount(LensOf(chunks[r]), MaxTokenLen)])
    IN  [r \in DOMAIN chunks |->
            IF UseDynamicBsz THEN MicroPartitions(LensOf(chunks[r]), counts[r])
            ELSE Split([i \in DOMAIN chunks[r] |-> i], micro_batch_size)]

InMicroOrder(outputs, indices) == outputs                      \* mutant
Reverted(outputs, indices) == Reordered(outputs, Reversed(indices))

(* A forward pass over all the ranks (compute_log_prob, compute_values): what
   is computed from a row is its name and the weights that computed it. *)
RankOutputs(rows, micro_batch_size, weights) ==
    LET chunks == Chunks(rows, WorldSize)
        micros == MicroBatches(chunks, micro_batch_size)
    IN  [r \in Ranks |->
            LET indices == FlattenSeq(micros[r])
            IN  [indices |-> indices,
                 outputs |-> [i \in DOMAIN indices |->
                     [of |-> Name(chunks[r][indices[i]]), weights |-> weights]]]]
Forward(rows, micro_batch_size, weights) ==
    LET ranks == RankOutputs(rows, micro_batch_size, weights)
    IN  Collected([r \in Ranks |-> Reverted(ranks[r].outputs, ranks[r].indices)], WorldSize)

(* The entropies, which compute_log_prob returns along with the former. *)
Entropies(rows, micro_batch_size, weights) ==
    LET ranks == RankOutputs(rows, micro_batch_size, weights)
    IN  Collected([r \in Ranks |-> ranks[r].outputs], WorldSize)

(* update_policy, update_critic: the mini batches of each rank, each of them
   a sequence of micro batches, as rows.  This is one epoch; each of ppo_epochs
   goes over the same mini batches. *)
MiniBatches(rows, micro_batch_size) ==
    LET chunks == Chunks(rows, WorldSize)
        minis == [r \in Ranks |-> Split(chunks[r], MiniBatch)]
    IN  [r \in Ranks |-> [m \in DOMAIN minis[r] |->
            LET micros == MicroBatches([q \in Ranks |-> minis[q][m]], micro_batch_size)[r]
            IN  [b \in DOMAIN micros |-> Reordered(minis[r][m], micros[b])]]]

-----------------------------------------------------------------------------
(* core_gigpo.build_step_group, as the position of a group's first row. *)
AreSimilar(a, b) == a = b \/ <<a, b>> \in SimilarObs
AnyPrompt(p, q) == TRUE                                        \* mutant
SamePrompt(p, q) == p.uid = q.uid
Joins(row, first, enable_similarity) ==
    /\ SamePrompt(row, first)
    /\ IF enable_similarity THEN AreSimilar(row.obs, first.obs) ELSE row.obs = first.obs
StepGroups(rows, enable_similarity) ==
    LET firsts[i \in 0 .. Len(rows)] ==
            IF i = 0 THEN {}
            ELSE LET earlier == firsts[i - 1]
                 IN  IF \E j \in earlier : Joins(rows[i], rows[j], enable_similarity)
                     THEN earlier ELSE earlier \cup {i}
    IN  [i \in DOMAIN rows |->
            Min({ j \in firsts[i] : Joins(rows[i], rows[j], enable_similarity) })]

(* apply_invalid_action_penalty *)
Penalty(row) == IF row.valid THEN 0 ELSE PenaltyCoef
=============================================================================

------------------------------ MODULE Workers ------------------------------
(***************************************************************************)
(* The workers that hold actor, rollout engine, reference policy and       *)
(* critic on the same devices (verl/workers/fsdp_workers.py), and the      *)
(* sharding manager that passes the weights to the engine                  *)
(* (verl/workers/sharding_manager/fsdp_vllm.py).  The driver calls one     *)
(* method at a time on all the ranks.  A method has three steps: it puts   *)
(* in place what it needs (Begin), computes (Run) and clears up (End).     *)
(* Of a model only the place of its parameters and of its optimizer and    *)
(* the number of its updates are kept; of a random number generator whose  *)
(* stream it is in, and how far.  Both count from the checkpoint that was  *)
(* loaded, if there was one; the engine starts with weights of its own.    *)
(***************************************************************************)
EXTENDS Integers, Dispatch

CONSTANTS
    OffloadParam,       \* the models with fsdp_config.param_offload
    OffloadOptimizer    \* the models with fsdp_config.optimizer_offload

Models == {"actor", "critic"}

ASSUME OffloadAssumption == OffloadParam \subseteq Models /\ OffloadOptimizer \subseteq Models

VARIABLES
    method,         \* the method the workers execute, or "none"
    ran,            \* it has computed its result
    params,         \* where the parameters of a model are
    optimizer,      \* where the state of its optimizer is
    updates,        \* how often a model was updated
    engine,         \* the inference engine: awake, and the weights it has
    rng,            \* the random state of the device of a rank
    torch_random_states, gen_random_states  \* those the manager keeps

workerVars == <<method, ran, params, optimizer, updates, engine, rng,
                torch_random_states, gen_random_states>>

TrainingStream(r) == [of |-> "training", seed |-> r, drawn |-> 0]
(* manual_seed(gen_dp_rank + 1000) *)
SeedOfRank(r) == r                                             \* mutant
GenSeed(r) == TpGroup(r) + 1000
GenerationStream(r) == [of |-> "generation", seed |-> GenSeed(r), drawn |-> 0]

WorkersInit ==
    /\ method = "none"
    /\ ran = FALSE
    /\ params = [m \in Models |-> IF m \in OffloadParam THEN "cpu" ELSE "gpu"]
    /\ optimizer = [m \in Models |-> IF m \in OffloadOptimizer THEN "cpu" ELSE "gpu"]
    /\ updates = [m \in Models |-> 0]
    /\ engine = [awake |-> FALSE, weights |-> -1]
    /\ rng = [r \in Ranks |-> TrainingStream(r)]
    /\ torch_random_states = rng
    /\ gen_random_states = [r \in Ranks |-> GenerationStream(r)]

-----------------------------------------------------------------------------
Methods ==
    {"generate_sequences", "compute_log_prob", "compute_ref_log_prob", "compute_values",
     "update_critic", "update_actor",
     "save_actor", "save_critic", "load_actor", "load_critic"}
UpdateMethods == {"update_critic", "update_actor"}
LoadMethods == {"load_actor", "load_critic"}
ModelOf(m) ==
    IF m \in {"compute_values", "update_critic", "save_critic", "load_critic"}
    THEN "critic" ELSE "actor"

(* FSDPVLLMShardingManager.__enter__: the parameters visit the device while
   they are copied into the engine. *)
CopiedOnce ==                                                  \* mutant
    [awake |-> TRUE, weights |-> IF engine.weights = -1 THEN updates["actor"] ELSE engine.weights]
WokenUp == [awake |-> TRUE, weights |-> updates["actor"]]

Enter ==
    /\ engine' = WokenUp
    /\ params' = [params EXCEPT !["actor"] = IF "actor" \in OffloadParam THEN "cpu" ELSE @]
    /\ torch_random_states' = rng
    /\ rng' = gen_random_states
    /\ UNCHANGED <<optimizer, updates, gen_random_states>>

(* __exit__ *)
KeptStates == rng

Exit ==
    /\ engine' = [engine EXCEPT !.awake = FALSE]
    /\ gen_random_states' = KeptStates
    /\ rng' = torch_random_states
    /\ UNCHANGED <<params, optimizer, updates, torch_random_states>>

(* load_fsdp_model_to_gpu, load_fsdp_optimizer *)
Load(m) ==
    /\ params' = [params EXCEPT ![ModelOf(m)] =
                     IF ModelOf(m) \in OffloadParam THEN "gpu" ELSE @]
    /\ optimizer' = [optimizer EXCEPT ![ModelOf(m)] =
                     IF ModelOf(m) \in OffloadOptimizer /\ m \in UpdateMethods THEN "gpu" ELSE @]
    /\ UNCHANGED <<updates, engine, rng, torch_random_states, gen_random_states>>

(* offload_fsdp_model_to_cpu, offload_fsdp_optimizer *)
UpdatesOnly == UpdateMethods                                   \* mutant
OffloadsOptimizer == UpdateMethods \cup LoadMethods

Offload(m) ==
    /\ params' = [params EXCEPT ![ModelOf(m)] =
                     IF ModelOf(m) \in OffloadParam THEN "cpu" ELSE @]
    /\ optimizer' = [optimizer EXCEPT ![ModelOf(m)] =
                     IF ModelOf(m) \in OffloadOptimizer /\ m \in OffloadsOptimizer
                     THEN "cpu" ELSE @]
    /\ UNCHANGED <<updates, engine, rng, torch_random_states, gen_random_states>>

-----------------------------------------------------------------------------
(* compute_ref_log_prob uses a module of its own, which FSDP offloads. *)
Begin(m) ==
    /\ method = "none"
    /\ method' = m
    /\ UNCHANGED ran
    /\ IF m = "generate_sequences" THEN Enter
       ELSE IF m = "compute_ref_log_prob"
            THEN UNCHANGED <<params, optimizer, updates, engine, rng,
                             torch_random_states, gen_random_states>>
            ELSE Load(m)

Drawn(states) == [r \in Ranks |-> [states[r] EXCEPT !.drawn = @ + 1]]

(* Sampling and the dropout of an update draw random numbers.  Loading a
   checkpoint restores the optimizer where the parameters are. *)
Run(m) ==
    /\ method = m
    /\ ~ran
    /\ ran' = TRUE
    /\ updates' = [updates EXCEPT ![ModelOf(m)] = IF m \in UpdateMethods THEN @ + 1 ELSE @]
    /\ rng' = IF m \in UpdateMethods \cup {"generate_sequences"} THEN Drawn(rng) ELSE rng
    /\ optimizer' = IF m \in LoadMethods THEN [optimizer EXCEPT ![ModelOf(m)] = "gpu"]
                    ELSE optimizer
    /\ UNCHANGED <<method, params, engine, torch_random_states, gen_random_states>>

End(m) ==
    /\ method = m
    /\ ran
    /\ ran' = FALSE
    /\ method' = "none"
    /\ IF m = "generate_sequences" THEN Exit
       ELSE IF m = "compute_ref_log_prob"
            THEN UNCHANGED <<params, optimizer, updates, engine, rng,
                             torch_random_states, gen_random_states>>
            ELSE Offload(m)

-----------------------------------------------------------------------------
Place == {"cpu", "gpu"}
RandomState(n) == [of : {"training", "generation"}, seed : Nat, drawn : n]

WorkersTypeOK ==
    /\ method \in Methods \cup {"none"}
    /\ ran \in BOOLEAN
    /\ params \in [Models -> Place]
    /\ optimizer \in [Models -> Place]
    /\ updates \in [Models -> Nat]
    /\ engine \in [awake : BOOLEAN, weights : Nat \cup {-1}]
    /\ rng \in [Ranks -> RandomState(Nat)]
    /\ torch_random_states \in [Ranks -> RandomState(Nat)]
    /\ gen_random_states \in [Ranks -> RandomState(Nat)]

(* Engine and models share the memory of a device.  A method computes with
   its own model in place while the engine sleeps; while the engine is awake,
   and between two methods, everything that is to be offloaded is. *)
Computing == method \notin {"none", "generate_sequences", "compute_ref_log_prob"}
MemoryIsHandedOver ==
    /\ engine.awake = (method = "generate_sequences")
    /\ Computing => params[ModelOf(method)] = "gpu"
    /\ method \in UpdateMethods => optimizer[ModelOf(method)] = "gpu"
    /\ \A m \in Models :
           (Computing => m # ModelOf(method)) =>
               /\ m \in OffloadParam => params[m] = "cpu"
               /\ m \in OffloadOptimizer => optimizer[m] = "cpu"

(* The ranks that generate a sequence together draw the same numbers, those
   of their own stream; training goes on with the numbers it would have drawn
   had there been no generation. *)
RandomStreams ==
    /\ \A r \in Ranks :
           IF method = "generate_sequences"
           THEN /\ \A q \in TpPeers(r) : rng[q] = rng[r]
                /\ rng[r].of = "generation"
           ELSE rng[r] = [of |-> "training", seed |-> r,
                          drawn |-> updates["actor"] + updates["critic"]]
=============================================================================

------------------------- MODULE EnvironmentManager -------------------------
(***************************************************************************)
(* The environment managers and their memories: what the agent gets to     *)
(* read in each of its turns (agent_system/environments/env_manager.py,    *)
(* agent_system/memory/memory.py).  A manager keeps the task, the last     *)
(* observation and a memory of the steps of every environment, over the    *)
(* rollouts of a whole training.  A text is modelled by where it comes     *)
(* from: the observation that environment i of the pool makes after n      *)
(* steps of its episode e, and the action the agent writes when it sees    *)
(* it, are both <<i, e, n>>.                                               *)
(***************************************************************************)
EXTENDS Integers, Sequences

CONSTANTS
    Managers,           \* the managers looked at
    HistoryLengths,     \* the values of env.history_length
    NumEnvs,            \* the environments of the pool
    MaxSteps,           \* env.max_steps
    MaxEpisodes         \* bounds the resets

ASSUME EnvironmentManagerAssumption ==
    /\ Managers \subseteq {"AlfWorld", "ScienceWorld", "TextWorldExpress", "Jericho",
                           "Webshop", "Sokoban", "SokobanVisual", "Search",
                           "AppWorld", "GymCard"}
    /\ HistoryLengths \subseteq Nat
    /\ NumEnvs \in Nat \ {0}
    /\ MaxSteps \in Nat
    /\ MaxEpisodes \in Nat

VARIABLES
    manager, history_length,    \* the configuration
    episode, turn,              \* of the environments of the pool
    memory,                     \* _data: the records of each environment
    pre_text_obs, tasks,
    prompts                     \* the texts the manager has returned last

vars == <<manager, history_length, episode, turn, memory, pre_text_obs, tasks, prompts>>

Pool == 1 .. NumEnvs
None == <<>>

Init ==
    /\ manager \in Managers
    /\ history_length \in HistoryLengths
    /\ episode = 0
    /\ turn = 0
    /\ memory = None
    /\ pre_text_obs = None
    /\ tasks = None
    /\ prompts = None

-----------------------------------------------------------------------------
(* The memories.  A slice that starts at -0 is the whole list. *)
Slice(data) ==
    IF history_length = 0 \/ history_length > Len(data)
    THEN data
    ELSE SubSeq(data, Len(data) - history_length + 1, Len(data))

fetch(data) ==
    LET recent == Slice(data)
        start_idx == Len(data) - Len(recent)
    IN  [ j \in 1 .. Len(recent) |->
            [step |-> start_idx + j, obs |-> recent[j].obs, action |-> recent[j].action] ]

LeavesOldSteps(batch_size) ==                                  \* mutant
    [ i \in 1 .. batch_size |-> IF i \in DOMAIN memory THEN memory[i] ELSE <<>> ]
reset(batch_size) == [ i \in 1 .. batch_size |-> <<>> ]

store(obs, actions) ==
    [ i \in DOMAIN memory |-> Append(memory[i], [obs |-> obs[i], action |-> actions[i]]) ]

-----------------------------------------------------------------------------
(* The texts; None stands for what a template has no place for. *)
WithoutHistory(task, current) ==
    [task |-> task, step_count |-> 0, history |-> <<>>, current |-> current]

WithHistory(task, data, current) ==
    [task |-> task, step_count |-> Len(data), history |-> fetch(data), current |-> current]

NoHistory(init) == init \/ history_length = 0

AlfWorldText(task, data, obs, init) ==
    IF NoHistory(init) THEN WithoutHistory(None, obs) ELSE WithHistory(task, data, obs)

ScienceWorldText(task, data, obs, init) ==
    IF NoHistory(init) THEN WithoutHistory(task, obs) ELSE WithHistory(task, data, obs)

TextWorldExpressText(task, data, obs, init) == ScienceWorldText(task, data, obs, init)
JerichoText(task, data, obs, init) == ScienceWorldText(task, data, obs, init)

(* A text that is too long gives the history up. *)
WebshopText(task, data, obs, init, cut) ==
    IF NoHistory(init) \/ cut > 0
    THEN WithoutHistory(task, obs)
    ELSE WithHistory(task, data, obs)

SokobanText(data, obs, init) ==
    IF NoHistory(init) THEN WithoutHistory(None, obs) ELSE WithHistory(None, data, obs)

SearchText(task, data, init) ==
    IF NoHistory(init) THEN WithoutHistory(task, None) ELSE WithHistory(task, data, None)

(* A history of more than 10000 characters loses its beginning: `cut' of its
   records, but never the end of the last one. *)
AppWorldText(task, data, init, cut) ==
    LET text == WithHistory(task, data, None)
        length == Len(text.history)
        kept == IF cut < length THEN length - cut ELSE 1
    IN  IF init THEN WithoutHistory(task, None)
        ELSE [text EXCEPT !.history = SubSeq(@, length - kept + 1, length)]

build_text_obs(task, data, obs, init, cut) ==
    CASE manager = "AlfWorld"         -> AlfWorldText(task, data, obs, init)
      [] manager = "ScienceWorld"     -> ScienceWorldText(task, data, obs, init)
      [] manager = "TextWorldExpress" -> TextWorldExpressText(task, data, obs, init)
      [] manager = "Jericho"          -> JerichoText(task, data, obs, init)
      [] manager = "Webshop"          -> WebshopText(task, data, obs, init, cut)
      [] manager = "Sokoban"          -> SokobanText(data, obs, init)
      [] manager = "Search"           -> SearchText(task, data, init)
      [] manager = "AppWorld"         -> AppWorldText(task, data, init, cut)
      [] OTHER                     -> WithoutHistory(None, None)

-----------------------------------------------------------------------------
(* The pool.  That of the search environments serves batches that are
   smaller than it, the others step as a whole. *)
Batches == IF manager = "Search" THEN Pool ELSE {NumEnvs}

Observe(batch, e, n) == [ i \in 1 .. batch |-> <<i, e, n>> ]

(* Sokoban and Webshop build the first texts before they reset the memory;
   these do not look at it. *)
FirstText(i, obs) ==
    build_text_obs(obs[i], IF manager \in {"Sokoban", "Webshop"} /\ i \in DOMAIN memory
                           THEN memory[i] ELSE <<>>, obs[i], TRUE, 0)

Reset ==
    /\ episode < MaxEpisodes
    /\ episode' = episode + 1
    /\ turn' = 0
    /\ \E batch \in Batches :
           LET obs == Observe(batch, episode', 0) IN
           /\ memory' = reset(batch)
           /\ pre_text_obs' = obs
           /\ tasks' = obs
           /\ prompts' = [ i \in 1 .. batch |-> FirstText(i, obs) ]
    /\ UNCHANGED <<manager, history_length>>

(* The memory gets the actions with the observations that they answer, that
   of Search and AppWorld with the observations that answer them. *)
Remembered(next_obs) ==
    IF manager \in {"Search", "AppWorld"} THEN next_obs ELSE pre_text_obs

Step ==
    /\ prompts # None
    /\ turn < MaxSteps
    /\ turn' = turn + 1
    /\ LET batch == Len(prompts)
           actions == Observe(batch, episode, turn)
           next_obs == Observe(batch, episode, turn')
       IN  /\ memory' = store(Remembered(next_obs), actions)
           /\ pre_text_obs' = next_obs
           /\ \E cut \in [1 .. batch -> 0 .. turn] :
                  prompts' = [ i \in 1 .. batch |->
                      build_text_obs(tasks[i], memory'[i], next_obs[i], FALSE, cut[i]) ]
    /\ UNCHANGED <<manager, history_length, episode, tasks>>

Next == Reset \/ Step

Spec == Init /\ [][Next]_vars

-----------------------------------------------------------------------------
(* What really happened in the k-th step of the episode of an environment,
   and the last m of its steps. *)
HappenedAt(i, k) ==
    [step   |-> k,
     obs    |-> <<i, episode, IF manager \in {"Search", "AppWorld"} THEN k ELSE k - 1>>,
     action |-> <<i, episode, k - 1>>]

LastSteps(i, m) == [ j \in 1 .. m |-> HappenedAt(i, turn - m + j) ]

(* How many of them a prompt shows.  AppWorld shows all of them when
   history_length is 0, the others none. *)
StepsToShow ==
    IF \/ manager \in {"SokobanVisual", "GymCard"}
       \/ history_length = 0 /\ manager # "AppWorld"
    THEN 0
    ELSE IF history_length = 0 \/ turn <= history_length THEN turn ELSE history_length

MayBeCut == manager \in {"Webshop", "AppWorld"}

(* What the agent reads is the story of its own environment and of the
   running episode: each action stands beside the observation it belongs to,
   under the number of its step, and they are the last steps, up to the one
   just made, as many as are asked for.  However the resets, the sizes of the
   batches and the lengths of the texts come, nothing of another environment
   or of an earlier episode is there, and the newest observation is. *)
PromptsTellTheEpisode ==
    \A i \in DOMAIN prompts :
        LET prompt == prompts[i]
            now == <<i, episode, turn>>
        IN  /\ prompt.task \in {None, <<i, episode, 0>>}
            /\ prompt.current \in {None, now}
            /\ \E m \in 0 .. turn :
                  /\ prompt.history = LastSteps(i, m)
                  /\ m = StepsToShow \/ (MayBeCut /\ m < StepsToShow)
            /\ prompt.step_count \in {0, turn}
            /\ history_length > 0 /\ manager \notin {"SokobanVisual", "GymCard"} =>
                  \/ prompt.current = now
                  \/ turn = 0 /\ prompt.task = now
                  \/ prompt.history # <<>> /\ prompt.history[Len(prompt.history)].obs = now
=============================================================================

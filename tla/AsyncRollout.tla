---------------------------- MODULE AsyncRollout ----------------------------
(***************************************************************************)
(* The request level rollout with tools of SGLangRollout                   *)
(* (verl/workers/rollout/sglang_rollout/sglang_rollout.py): one coroutine  *)
(* per request, _async_rollout_a_request, all of them in one event loop.   *)
(* Between two awaits a coroutine runs alone; at an await any other may go *)
(* on.  The engine and the tools answer in any order.                      *)
(*                                                                         *)
(* The texts are left out.  Of a request's tokens only their number is     *)
(* kept, counted twice, as the code does: the ids it has put together, and *)
(* the prompt that the engine is given, made anew from all the messages by *)
(* the chat template.  Of the sampling parameters only those are kept that *)
(* a validation or a greedy batch sets and a training batch does not.      *)
(***************************************************************************)
EXTENDS Integers, Sequences, FiniteSetsExt, SequencesExt

CONSTANTS
    Requests,       \* of one batch
    Tools,          \* _tool_map
    ToolsOf,        \* the keys of a request's tools_kwargs
    RaisingTools,   \* the tools whose execute may raise
    MaxTurns,       \* multi_turn.max_turns
    MaxCalls,       \* bound: tool calls in one reply
    PromptLen, ResponseLen, MaxModelLen,    \* the lengths of the config
    Prompts,        \* bound: the prompts of the data
    OpeningLen,     \* tokens that open a reply ("\n<|im_start|>assistant\n")
    Sizes,          \* bound: lengths of a tool's response, its marks included
    Drift,          \* bound: tokens that a turn's messages have more or less
                    \* when the template is tokenised than piece by piece
    Batches         \* the modes of the batches, in the order they come

ASSUME ToolsAssumption ==
    /\ ToolsOf \in [Requests -> SUBSET Tools]
    /\ RaisingTools \subseteq Tools
ASSUME LengthsAssumption ==
    /\ {MaxTurns, PromptLen, ResponseLen, MaxModelLen} \subseteq Nat \ {0}
    /\ MaxCalls \in Nat
    /\ {OpeningLen, Drift} \cup Sizes \subseteq Nat
    /\ PromptLen + ResponseLen <= MaxModelLen          \* _verify_config
(* What the ids of a request end with: the mark that opens a reply, the mark
   that closes a message, or anything else.  Only a prompt that was cut may end
   with anything else. *)
Ends == {"mark", "message", "text"}
ASSUME PromptsAssumption ==
    /\ Prompts \subseteq [tokens : Nat, ends : Ends]
    /\ Prompts # {}
    /\ \A p \in Prompts : p.tokens <= PromptLen => p.ends = "mark"
Modes == {"train", "validate", "greedy"}
ASSUME BatchesAssumption == Batches \in Seq(Modes) /\ Batches # <<>>

VARIABLES
    batch,              \* which batch is running
    req,                \* the requests (_req of every coroutine)
    sampling_params,    \* self.sampling_params, shared by the coroutines
    error               \* the exception that left gather, or "none"

vars == <<batch, req, sampling_params, error>>

Mode == Batches[batch]

(* pc: where the coroutine awaits, after the states PENDING, RUNNING,
   TOOL_CALLING and COMPLETED; answered: the tool calls that have returned, in
   the order in which they did; saved: old_sampling_params_args; len and ends:
   the length and the end of input_ids; prompt: the length of
   get_generation_prompt; cut: what _preprocess_prompt_... dropped from the ids,
   and not from the messages, of a prompt longer than PromptLen. *)
Fresh(p) ==
    LET kept == Min({p.tokens, PromptLen})
    IN  [pc |-> "pending", turns |-> 0, finish |-> "none",
         len |-> kept, cut |-> p.tokens - kept, ends |-> p.ends,
         prompt |-> p.tokens,
         messages |-> <<>>, answered |-> <<>>, saved |-> "train",
         tools |-> [t \in Tools |-> "absent"]]

FreshRequests(r) ==
    \E prompts \in [Requests -> Prompts] :
        r = [q \in Requests |-> Fresh(prompts[q])]

Init ==
    /\ batch = 1
    /\ FreshRequests(req)
    /\ sampling_params = "train"
    /\ error = "none"

Running == error = "none"

-----------------------------------------------------------------------------
(* The tools are created, all at once, and the engine is called. *)

Start(q) ==
    /\ Running
    /\ req[q].pc = "pending"
    /\ req' = [req EXCEPT ![q].pc = "create",
                          ![q].tools = [t \in Tools |->
                              IF t \in ToolsOf[q] THEN "creating" ELSE "absent"]]
    /\ UNCHANGED <<batch, sampling_params, error>>

Create(q, t) ==
    /\ Running
    /\ req[q].tools[t] = "creating"
    /\ req' = [req EXCEPT ![q].tools[t] = "live"]
    /\ UNCHANGED <<batch, sampling_params, error>>

(* What is left for the reply behind the prompt made from the messages. *)
Room(r) == MaxModelLen - r.prompt - 1
MaxNewTokens(r) == IF ResponseLen < Room(r) THEN ResponseLen ELSE Room(r)

(* Entering the with block of update_sampling_params and submitting; the
   engine refuses a negative max_new_tokens. *)
CallEngine(q, r) ==
    IF MaxNewTokens(r) < 0
    THEN /\ error' = "no room"
         /\ req' = [req EXCEPT ![q] = r]
         /\ UNCHANGED sampling_params
    ELSE /\ req' = [req EXCEPT ![q] = [r EXCEPT !.pc = "generate",
                                                !.saved = sampling_params]]
         /\ sampling_params' = IF Mode = "train" THEN sampling_params ELSE Mode
         /\ UNCHANGED error

FirstToolIsEnough(q) ==                                        \* mutant
    /\ Running
    /\ req[q].pc = "create"
    /\ ToolsOf[q] # {} => \E t \in ToolsOf[q] : req[q].tools[t] = "live"
    /\ CallEngine(q, req[q])
    /\ UNCHANGED batch

Run(q) ==
    /\ Running
    /\ req[q].pc = "create"
    /\ \A t \in ToolsOf[q] : req[q].tools[t] = "live"
    /\ CallEngine(q, req[q])
    /\ UNCHANGED batch

-----------------------------------------------------------------------------
(* The engine answers: the with block is left, then the reply is handled.  *)

Restore(q) ==
    sampling_params' = IF Mode = "train" THEN sampling_params ELSE req[q].saved

(* The ids have the mark that opens the reply already, or it is added. *)
Opening(r) == IF r.ends = "mark" THEN 0 ELSE OpeningLen

(* add_assistant_message: size tokens, closed unless cut off.  The template
   closes the message and opens the next reply whatever the ids have; drift is
   what it counts differently. *)
Said(r, size, calls, closing, drift) ==
    [r EXCEPT !.turns = @ + 1,
              !.len = @ + Opening(r) + size + closing,
              !.ends = IF closing = 1 THEN "message" ELSE "text",
              !.prompt = @ + size + 1 + OpeningLen + drift,
              !.messages = Append(@, [role |-> "assistant", calls |-> calls])]

Fits(r) == r.ends # "text"

(* The lengths n new tokens may have once their text is tokenised again. *)
Retold(n) == { size \in 0 .. n + Drift : size >= n - Drift }

OneTurnMore(r) == r.turns > MaxTurns                           \* mutant
LastTurn(r) == r.turns >= MaxTurns

LeaveAsIs(r, finish) == [r EXCEPT !.pc = "reward", !.finish = finish]   \* mutant
(* Behind the loop; the last turn finishes with STOP whatever it was. *)
Leave(r, finish) ==
    [r EXCEPT !.pc = "reward",
              !.finish = IF LastTurn(r) THEN "stop" ELSE finish]

AnswerLength(q) ==
    /\ Running
    /\ req[q].pc = "generate"
    /\ Fits(req[q])
    /\ Restore(q)
    /\ \E size \in Retold(MaxNewTokens(req[q])) :
           req' = [req EXCEPT ![q] = Leave(Said(req[q], size, <<>>, 0, 0), "length")]
    /\ UNCHANGED <<batch, error>>

(* No tool call, or only such as cannot be parsed. *)
AnswerPlain(q) ==
    /\ Running
    /\ req[q].pc = "generate"
    /\ Fits(req[q])
    /\ Restore(q)
    /\ \E new \in 1 .. MaxNewTokens(req[q]) : \E size \in Retold(new) :
           req' = [req EXCEPT ![q] = Leave(Said(req[q], size, <<>>, 1, 0), "stop")]
    /\ UNCHANGED <<batch, error>>

(* Tool calls: they are started at once, unless this was the last turn.  The
   parser knows every tool, the request only its own. *)
AnswerCalls(q) ==
    /\ Running
    /\ req[q].pc = "generate"
    /\ Fits(req[q])
    /\ Restore(q)
    /\ \E new \in 1 .. MaxNewTokens(req[q]) : \E size \in Retold(new),
          drift \in -Drift .. Drift,
          calls \in UNION { [1 .. n -> Tools] : n \in 1 .. MaxCalls } :
           LET r == Said(req[q], size, calls, 1, drift)
           IN  IF LastTurn(r)
               THEN /\ req' = [req EXCEPT ![q] = Leave(r, "tool_calls")]
                    /\ UNCHANGED error
               ELSE /\ req' = [req EXCEPT ![q] = [r EXCEPT !.pc = "tools",
                                                           !.answered = <<>>]]
                    /\ error' = IF \A i \in DOMAIN calls : calls[i] \in ToolsOf[q]
                                THEN "none" ELSE "unknown tool"
    /\ UNCHANGED batch

(* The engine gives the request up: from_str knows no such finish reason. *)
AnswerAborted(q) ==
    /\ Running
    /\ req[q].pc = "generate"
    /\ Restore(q)
    /\ error' = "aborted"
    /\ UNCHANGED <<batch, req>>

(* Behind a cut prompt add_assistant_message finds no mark that it knows; the
   message is in the dialogue already, and no token of it in the ids. *)
AnswerUnfitting(q) ==
    /\ Running
    /\ req[q].pc = "generate"
    /\ ~Fits(req[q])
    /\ Restore(q)
    /\ req' = [req EXCEPT ![q].turns = @ + 1,
                          ![q].messages = Append(@, [role |-> "assistant",
                                                     calls |-> <<>>])]
    /\ error' = "unsupported end"
    /\ UNCHANGED batch

-----------------------------------------------------------------------------
(* The tool calls of one reply run concurrently. *)

Calls(r) == Last(r.messages).calls
Executing(r) ==
    IF r.pc # "tools" THEN {}
    ELSE { i \in DOMAIN Calls(r) : \A k \in DOMAIN r.answered : r.answered[k] # i }

Execute(q, i) ==
    /\ Running
    /\ i \in Executing(req[q])
    /\ req' = [req EXCEPT ![q].answered = Append(@, i)]
    /\ UNCHANGED <<batch, sampling_params, error>>

(* A tool may raise, as SandboxFusionTool.execute does when its code could not
   be run; gather passes the exception on. *)
ExecuteRaises(q, i) ==
    /\ Running
    /\ i \in Executing(req[q])
    /\ Calls(req[q])[i] \in RaisingTools
    /\ error' = "tool raised"
    /\ UNCHANGED <<batch, req, sampling_params>>

AsTheyCame(r) == r.answered                                    \* mutant
(* gather returns the results in the order of the calls. *)
Gathered(r) == [i \in DOMAIN Calls(r) |-> i]

Responses(r, n) ==
    [k \in 1 .. n |-> [role |-> "tool", call |-> Gathered(r)[k]]]

(* The tokens of n responses of these sizes. *)
Heard(sizes, n) == FoldFunctionOnSet(+, 0, sizes, 1 .. n)
Grown(r, sizes, n) == r.len + Heard(sizes, n)

FullLate(n) == n > MaxModelLen                                 \* mutant
Full(n) == n >= MaxModelLen

(* The responses are added until the context is full. *)
Added(r, sizes) ==
    LET full == { n \in DOMAIN Calls(r) : Full(Grown(r, sizes, n)) }
    IN  IF full = {} THEN Len(Calls(r)) ELSE Min(full)

(* Back to the state RUNNING, and so to the engine, if there is room. *)
ToolsAnswered(q) ==
    /\ Running
    /\ req[q].pc = "tools"
    /\ Executing(req[q]) = {}
    /\ \E sizes \in [DOMAIN Calls(req[q]) -> Sizes] :
           LET n == Added(req[q], sizes)
               r == [req[q] EXCEPT !.len = Grown(req[q], sizes, n),
                                   !.prompt = @ + Heard(sizes, n),
                                   !.messages = @ \o Responses(req[q], n)]
           IN  IF Full(r.len)
               THEN /\ req' = [req EXCEPT ![q] = Leave(r, "stop")]
                    /\ UNCHANGED <<sampling_params, error>>
               ELSE CallEngine(q, r)
    /\ UNCHANGED batch

-----------------------------------------------------------------------------
(* calc_reward_and_release_fn, one task per tool, then finalize. *)

Reward(q, t) ==
    /\ Running
    /\ req[q].pc = "reward"
    /\ req[q].tools[t] = "live"
    /\ req' = [req EXCEPT ![q].tools[t] = "rewarded"]
    /\ UNCHANGED <<batch, sampling_params, error>>

Release(q, t) ==
    /\ Running
    /\ req[q].pc = "reward"
    /\ req[q].tools[t] = "rewarded"
    /\ req' = [req EXCEPT ![q].tools[t] = "released"]
    /\ UNCHANGED <<batch, sampling_params, error>>

CalledOnly(q) ==                                               \* mutant
    { t \in ToolsOf[q] : \E i \in DOMAIN req[q].messages :
          /\ req[q].messages[i].role = "assistant"
          /\ \E k \in DOMAIN req[q].messages[i].calls :
                 req[q].messages[i].calls[k] = t }
EveryTool(q) == Tools                                          \* mutant
ToRelease(q) == ToolsOf[q]

Truncated(n) ==
    Min({n, MaxModelLen, PromptLen + ResponseLen})

Finalize(q) ==
    /\ Running
    /\ req[q].pc = "reward"
    /\ \A t \in ToRelease(q) : req[q].tools[t] = "released"
    /\ req' = [req EXCEPT ![q].pc = "done", ![q].len = Truncated(@)]
    /\ error' = IF req[q].finish \in {"stop", "length"} THEN "none" ELSE "finish"
    /\ UNCHANGED <<batch, sampling_params>>

(* gather returns; the next batch is generated by the same object. *)
BatchDone == \A q \in Requests : req[q].pc = "done"

NextBatch ==
    /\ Running
    /\ BatchDone
    /\ batch < Len(Batches)
    /\ batch' = batch + 1
    /\ FreshRequests(req')
    /\ UNCHANGED <<sampling_params, error>>

(* An exception ends the rollout, and with it the coroutines still awaiting. *)
Over == ~Running \/ (BatchDone /\ batch = Len(Batches))
Finished == Over /\ UNCHANGED vars

-----------------------------------------------------------------------------
Coroutine(q) ==
    \/ Start(q) \/ Run(q)
    \/ AnswerLength(q) \/ AnswerPlain(q) \/ AnswerCalls(q)
    \/ AnswerAborted(q) \/ AnswerUnfitting(q)
    \/ ToolsAnswered(q)
    \/ Finalize(q)

Tool(q) ==
    \/ \E t \in ToolsOf[q] : Create(q, t) \/ Reward(q, t) \/ Release(q, t)
    \/ \E i \in 1 .. MaxCalls : Execute(q, i) \/ ExecuteRaises(q, i)

Step(q) == Coroutine(q) \/ Tool(q)

Next == (\E q \in Requests : Step(q)) \/ NextBatch \/ Finished

Spec == Init /\ [][Next]_vars

(* The event loop serves every coroutine; the engine and the tools answer. *)
FairSpec == Spec /\ (\A q \in Requests : WF_vars(Step(q))) /\ WF_vars(NextBatch)

-----------------------------------------------------------------------------
ToolStates == {"absent", "creating", "live", "rewarded", "released"}

TypeOK ==
    /\ batch \in DOMAIN Batches
    /\ sampling_params \in Modes
    /\ error \in {"none", "no room", "aborted", "unsupported end", "unknown tool",
                  "tool raised", "finish"}
    /\ \A q \in Requests :
        /\ req[q].pc \in {"pending", "create", "generate", "tools", "reward", "done"}
        /\ req[q].turns \in 0 .. MaxTurns
        /\ req[q].finish \in {"none", "stop", "length", "tool_calls"}
        /\ req[q].len \in Nat /\ req[q].cut \in Nat
        /\ req[q].prompt \in Int
        /\ req[q].ends \in Ends
        /\ req[q].saved \in Modes
        /\ req[q].tools \in [Tools -> ToolStates]
        /\ req[q].answered \in Seq(1 .. MaxCalls)
        /\ Len(req[q].answered) <= MaxCalls

(* A tool works for a request only between its creation and its release: when
   the model can call the tools, and while it waits for them, every one of them
   is there. *)
ToolsAreThere ==
    \A q \in Requests : req[q].pc \in {"generate", "tools"} =>
        \A t \in ToolsOf[q] : req[q].tools[t] = "live"

(* No tool instance outlives its request. *)
AllReleased ==
    \A q \in Requests : req[q].pc = "done" =>
        \A t \in Tools : req[q].tools[t] \in {"absent", "released"}

(* In whatever order the calls of a reply return, the dialogue has their
   responses in the order of the calls, all of them before the model speaks
   again; a reply whose calls were not all answered is the last one. *)
ResponsesFollowTheCalls ==
    \A q \in Requests :
        LET m == req[q].messages
        IN  /\ \A i \in DOMAIN m : m[i].role = "tool" =>
                   LET call == m[i].call
                   IN  /\ i - call \in DOMAIN m
                       /\ m[i - call].role = "assistant"
                       /\ call \in DOMAIN m[i - call].calls
            /\ \A i \in DOMAIN m : m[i].role = "assistant" /\ i > 1 =>
                   /\ m[i - 1].role = "tool"
                   /\ m[i - 1].call = Len(m[i - 1 - m[i - 1].call].calls)

(* finalize is never given a finish reason it refuses, so that a request which
   ends in the middle of a tool call is still a usable sample. *)
FinishIsAccepted == error # "finish"

(* The length that is checked is not the length the engine sees: behind the
   tools' responses the ids are counted, but the prompt is made anew from the
   messages.  So a rollout may die of a prompt that the engine refuses, in two
   ways only.  Either the data's prompt was cut, and its messages alone are too
   long; or the responses end below the limit by no more than the mark that
   opens the next reply, what was cut and what the template counts differently. *)
RefusedOnlyNearTheLimit ==
    error = "no room" =>
        \E q \in Requests :
            LET r == req[q]
            IN  \/ r.turns = 0 /\ r.cut > 0
                \/ /\ r.turns > 0 /\ Last(r.messages).role = "tool"
                   /\ r.len < MaxModelLen
                   /\ r.len + r.cut + OpeningLen + Drift * r.turns >= MaxModelLen

(* Every rollout ends: with all its requests, or with an exception. *)
Terminates == <>Over
=============================================================================

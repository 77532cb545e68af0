------------------------- MODULE AsyncRolloutProofs -------------------------
(* The life of the tools in AsyncRollout, for any requests, tools, lengths,
   turns and batches.  The inductive invariant says, of every request, how far
   its tools are at each await of its coroutine. *)
EXTENDS AsyncRollout, DataLemmas

Stage(pc) ==
    IF pc = "pending" THEN {"absent"}
    ELSE IF pc = "create" THEN {"creating", "live"}
    ELSE IF pc \in {"generate", "tools"} THEN {"live"}
    ELSE IF pc = "reward" THEN {"live", "rewarded", "released"}
    ELSE {"released"}

PCs == {"pending", "create", "generate", "tools", "reward", "done"}
Fields == {"pc", "turns", "finish", "len", "cut", "ends", "prompt", "messages", "answered",
           "saved", "tools"}

InStage(q, r) ==
    /\ Fields \subseteq DOMAIN r
    /\ r.pc \in PCs
    /\ r.tools \in [Tools -> ToolStates]
    /\ \A t \in Tools \ ToolsOf[q] : r.tools[t] = "absent"
    /\ \A t \in ToolsOf[q] : r.tools[t] \in Stage(r.pc)
    /\ r.pc = "reward" => r.finish \in {"stop", "length"}

AsyncInv ==
    /\ DOMAIN req = Requests
    /\ \A q \in Requests : InStage(q, req[q])
    /\ error # "finish"

-----------------------------------------------------------------------------
(* A step of one request: it is enough to look at that request. *)
LEMMA OneMoves ==
    ASSUME AsyncInv, NEW q \in Requests, NEW r, InStage(q, r),
           req' = [req EXCEPT ![q] = r], error' # "finish"
    PROVE  AsyncInv'
  <1>1. DOMAIN req' = Requests
    BY DEF AsyncInv
  <1>2. \A p \in Requests : req'[p] = IF p = q THEN r ELSE req[p]
    BY DEF AsyncInv
  <1>3. ASSUME NEW p \in Requests PROVE InStage(p, req'[p])
    BY <1>2 DEF AsyncInv
  <1> QED
    BY <1>1, <1>3 DEF AsyncInv, InStage

(* One tool takes its next step while the coroutine waits at the same place. *)
LEMMA ToolMoves ==
    ASSUME NEW q \in Requests, NEW r, InStage(q, r),
           NEW t \in ToolsOf[q], NEW s \in Stage(r.pc)
    PROVE  InStage(q, [r EXCEPT !.tools[t] = s])
  <1> DEFINE u == [r EXCEPT !.tools[t] = s]
  <1>1. t \in Tools
    BY ToolsAssumption
  <1>2. u.tools = [r.tools EXCEPT ![t] = s]
    BY DEF InStage, Fields
  <1>3. u.pc = r.pc /\ u.finish = r.finish /\ DOMAIN u = DOMAIN r
    BY DEF InStage, Fields
  <1>4. s \in ToolStates
    BY DEF InStage, Stage, PCs, ToolStates
  <1> HIDE DEF u
  <1> QED
    BY <1>1, <1>2, <1>3, <1>4 DEF InStage

(* What the model said, and the responses of the tools, leave the tools and
   the place of the coroutine alone. *)
LEMMA SaidInStage ==
    ASSUME NEW q \in Requests, NEW r, InStage(q, r), r.pc # "reward",
           NEW size, NEW calls, NEW closing, NEW drift
    PROVE  /\ InStage(q, Said(r, size, calls, closing, drift))
           /\ Said(r, size, calls, closing, drift).pc = r.pc
  BY DEF InStage, Fields, Said

(* Leaving the loop: a tool call cut off by the last turn finishes with STOP. *)
LEMMA LeaveInStage ==
    ASSUME NEW q \in Requests, NEW r, InStage(q, r),
           r.pc \in {"generate", "tools"},
           NEW f, f \in {"stop", "length"} \/ LastTurn(r)
    PROVE  InStage(q, Leave(r, f))
  BY DEF InStage, Fields, PCs, Stage, ToolStates, Leave

(* From one place with all the tools live to another. *)
LEMMA WaitsWithToolsLive ==
    ASSUME NEW q \in Requests, NEW r, InStage(q, r),
           \A t \in ToolsOf[q] : r.tools[t] = "live",
           NEW pc \in {"generate", "tools"}, NEW x, NEW y
    PROVE  /\ InStage(q, [r EXCEPT !.pc = pc, !.saved = x])
           /\ InStage(q, [r EXCEPT !.pc = pc, !.answered = y])
  BY DEF InStage, Fields, PCs, Stage

(* Calling the engine, whether it accepts or not. *)
LEMMA CallEngineKeeps ==
    ASSUME AsyncInv, NEW q \in Requests, NEW r, InStage(q, r),
           \A t \in ToolsOf[q] : r.tools[t] = "live",
           CallEngine(q, r)
    PROVE  AsyncInv'
  <1>1. CASE MaxNewTokens(r) < 0
    <2>1. req' = [req EXCEPT ![q] = r] /\ error' = "no room"
      BY <1>1 DEF CallEngine
    <2> QED
      BY <2>1, OneMoves
  <1>2. CASE ~(MaxNewTokens(r) < 0)
    <2>1. /\ req' = [req EXCEPT ![q] = [r EXCEPT !.pc = "generate",
                                                 !.saved = sampling_params]]
          /\ error' = error
      BY <1>2 DEF CallEngine
    <2>2. error' # "finish"
      BY <2>1 DEF AsyncInv
    <2>3. InStage(q, [r EXCEPT !.pc = "generate", !.saved = sampling_params])
      BY WaitsWithToolsLive
    <2> QED
      BY <2>1, <2>2, <2>3, OneMoves
  <1> QED
    BY <1>1, <1>2

-----------------------------------------------------------------------------
(* Before the loop. *)
LEMMA StartKeeps ==
    ASSUME AsyncInv, NEW q \in Requests, Start(q)
    PROVE  AsyncInv'
  <1> DEFINE created == [t \in Tools |->
                 IF t \in ToolsOf[q] THEN "creating" ELSE "absent"]
             r == [req[q] EXCEPT !.pc = "create", !.tools = created]
  <1>1. InStage(q, req[q]) /\ DOMAIN req = Requests
    BY DEF AsyncInv
  <1>2. req' = [req EXCEPT ![q] = r] /\ error' # "finish"
    BY <1>1 DEF Start, AsyncInv
  <1>3. r.pc = "create" /\ r.tools = created /\ DOMAIN r = DOMAIN req[q]
    BY <1>1 DEF InStage, Fields
  <1> HIDE DEF r
  <1>4. InStage(q, r)
    BY <1>1, <1>3, ToolsAssumption DEF InStage, PCs, Stage, ToolStates
  <1> QED
    BY <1>2, <1>4, OneMoves

LEMMA RunKeeps ==
    ASSUME AsyncInv, NEW q \in Requests, Run(q)
    PROVE  AsyncInv'
  BY CallEngineKeeps DEF Run, AsyncInv

(* The answers of the engine. *)
LEMMA AnswerKeeps ==
    ASSUME AsyncInv, NEW q \in Requests,
           AnswerLength(q) \/ AnswerPlain(q) \/ AnswerCalls(q)
    PROVE  AsyncInv'
  <1>1. InStage(q, req[q]) /\ req[q].pc = "generate" /\ error = "none"
    BY DEF AsyncInv, AnswerLength, AnswerPlain, AnswerCalls, Running
  <1>2. ASSUME NEW size, NEW calls, NEW closing, NEW drift
        PROVE  /\ InStage(q, Said(req[q], size, calls, closing, drift))
               /\ Said(req[q], size, calls, closing, drift).pc = "generate"
    BY <1>1, SaidInStage
  <1>3. ASSUME NEW size, NEW calls, NEW closing, NEW drift, NEW f,
               f \in {"stop", "length"} \/ LastTurn(Said(req[q], size, calls, closing, drift)),
               req' = [req EXCEPT ![q] = Leave(Said(req[q], size, calls, closing, drift), f)],
               error' = error
        PROVE  AsyncInv'
    BY <1>1, <1>2, <1>3, LeaveInStage, OneMoves
  <1>4. CASE AnswerLength(q)
    <2>1. PICK size \in Retold(MaxNewTokens(req[q])) :
              req' = [req EXCEPT ![q] = Leave(Said(req[q], size, <<>>, 0, 0), "length")]
      BY <1>4 DEF AnswerLength
    <2>2. error' = error
      BY <1>4 DEF AnswerLength
    <2> QED
      BY <1>3, <2>1, <2>2
  <1>5. CASE AnswerPlain(q)
    <2>1. PICK new \in 1 .. MaxNewTokens(req[q]) : \E size \in Retold(new) :
              req' = [req EXCEPT ![q] = Leave(Said(req[q], size, <<>>, 1, 0), "stop")]
      BY <1>5 DEF AnswerPlain
    <2>2. PICK size \in Retold(new) :
              req' = [req EXCEPT ![q] = Leave(Said(req[q], size, <<>>, 1, 0), "stop")]
      BY <2>1
    <2>3. error' = error
      BY <1>5 DEF AnswerPlain
    <2> QED
      BY <1>3, <2>2, <2>3
  <1>6. CASE AnswerCalls(q)
    <2>1. PICK new \in 1 .. MaxNewTokens(req[q]) : \E size \in Retold(new),
               drift \in -Drift .. Drift,
               calls \in UNION { [1 .. n -> Tools] : n \in 1 .. MaxCalls } :
           LET r == Said(req[q], size, calls, 1, drift)
           IN  IF LastTurn(r)
               THEN /\ req' = [req EXCEPT ![q] = Leave(r, "tool_calls")]
                    /\ UNCHANGED error
               ELSE /\ req' = [req EXCEPT ![q] = [r EXCEPT !.pc = "tools",
                                                           !.answered = <<>>]]
                    /\ error' = IF \A i \in DOMAIN calls : calls[i] \in ToolsOf[q]
                                THEN "none" ELSE "unknown tool"
      BY <1>6 DEF AnswerCalls
    <2>a. PICK size \in Retold(new), drift \in -Drift .. Drift,
               calls \in UNION { [1 .. n -> Tools] : n \in 1 .. MaxCalls } :
           LET r == Said(req[q], size, calls, 1, drift)
           IN  IF LastTurn(r)
               THEN /\ req' = [req EXCEPT ![q] = Leave(r, "tool_calls")]
                    /\ UNCHANGED error
               ELSE /\ req' = [req EXCEPT ![q] = [r EXCEPT !.pc = "tools",
                                                           !.answered = <<>>]]
                    /\ error' = IF \A i \in DOMAIN calls : calls[i] \in ToolsOf[q]
                                THEN "none" ELSE "unknown tool"
      BY <2>1
    <2> DEFINE r == Said(req[q], size, calls, 1, drift)
    <2>2. InStage(q, r) /\ r.pc = "generate"
      BY <1>2
    <2>3. CASE LastTurn(r)
      BY <1>3, <2>a, <2>3
    <2>4. CASE ~LastTurn(r)
      <3>1. /\ req' = [req EXCEPT ![q] = [r EXCEPT !.pc = "tools", !.answered = <<>>]]
            /\ error' # "finish"
        BY <2>a, <2>4
      <3> HIDE DEF r
      <3>2. \A t \in ToolsOf[q] : r.tools[t] = "live"
        BY <2>2 DEF InStage, Stage
      <3>3. InStage(q, [r EXCEPT !.pc = "tools", !.answered = <<>>])
        BY <2>2, <3>2, WaitsWithToolsLive
      <3> QED
        BY <3>1, <3>3, OneMoves
    <2> QED
      BY <2>3, <2>4
  <1> QED
    BY <1>4, <1>5, <1>6

LEMMA FailedAnswerKeeps ==
    ASSUME AsyncInv, NEW q \in Requests, AnswerAborted(q) \/ AnswerUnfitting(q)
    PROVE  AsyncInv'
  <1>1. InStage(q, req[q]) /\ DOMAIN req = Requests
    BY DEF AsyncInv
  <1>2. CASE AnswerAborted(q)
    BY <1>2 DEF AnswerAborted, AsyncInv, InStage
  <1>3. CASE AnswerUnfitting(q)
    <2> DEFINE m == Append(req[q].messages, [role |-> "assistant", calls |-> <<>>])
               r == [req[q] EXCEPT !.turns = req[q].turns + 1, !.messages = m]
    <2>1. req' = [req EXCEPT ![q] = r] /\ error' # "finish"
      BY <1>1, <1>3 DEF AnswerUnfitting
    <2> HIDE DEF m
    <2>2. InStage(q, r)
      BY <1>1 DEF InStage, Fields
    <2> QED
      BY <2>1, <2>2, OneMoves
  <1> QED
    BY <1>2, <1>3

(* The tool calls of a reply. *)
LEMMA ExecuteKeeps ==
    ASSUME AsyncInv, NEW q \in Requests, NEW i,
           Execute(q, i) \/ ExecuteRaises(q, i)
    PROVE  AsyncInv'
  <1>1. InStage(q, req[q]) /\ DOMAIN req = Requests
    BY DEF AsyncInv
  <1>2. CASE Execute(q, i)
    <2> DEFINE r == [req[q] EXCEPT !.answered = Append(@, i)]
    <2>1. req' = [req EXCEPT ![q] = r] /\ error' # "finish"
      BY <1>1, <1>2 DEF Execute, AsyncInv
    <2>2. InStage(q, r)
      BY <1>1 DEF InStage, Fields
    <2> QED
      BY <2>1, <2>2, OneMoves
  <1>3. CASE ExecuteRaises(q, i)
    BY <1>3 DEF ExecuteRaises, AsyncInv, InStage
  <1> QED
    BY <1>2, <1>3

LEMMA ToolsAnsweredKeeps ==
    ASSUME AsyncInv, NEW q \in Requests, ToolsAnswered(q)
    PROVE  AsyncInv'
  <1>1. InStage(q, req[q]) /\ req[q].pc = "tools" /\ error = "none"
    BY DEF AsyncInv, ToolsAnswered, Running
  <1>2. PICK sizes \in [DOMAIN Calls(req[q]) -> Sizes] :
           LET n == Added(req[q], sizes)
               r == [req[q] EXCEPT !.len = Grown(req[q], sizes, n),
                                   !.prompt = @ + Heard(sizes, n),
                                   !.messages = @ \o Responses(req[q], n)]
           IN  IF Full(r.len)
               THEN /\ req' = [req EXCEPT ![q] = Leave(r, "stop")]
                    /\ UNCHANGED <<sampling_params, error>>
               ELSE CallEngine(q, r)
    BY DEF ToolsAnswered
  <1> DEFINE n == Added(req[q], sizes)
             r == [req[q] EXCEPT !.len = Grown(req[q], sizes, n),
                                 !.prompt = @ + Heard(sizes, n),
                                 !.messages = @ \o Responses(req[q], n)]
  <1>3. InStage(q, r) /\ r.pc = "tools"
    BY <1>1 DEF InStage, Fields
  <1>4. IF Full(r.len)
        THEN req' = [req EXCEPT ![q] = Leave(r, "stop")] /\ error' = error
        ELSE CallEngine(q, r)
    BY <1>2
  <1> HIDE DEF r
  <1>5. InStage(q, Leave(r, "stop"))
    BY <1>3, LeaveInStage
  <1>6. \A t \in ToolsOf[q] : r.tools[t] = "live"
    BY <1>3 DEF InStage, Stage
  <1>7. CASE Full(r.len)
    BY <1>1, <1>4, <1>5, <1>7, OneMoves
  <1>8. CASE ~Full(r.len)
    BY <1>3, <1>4, <1>6, <1>8, CallEngineKeeps
  <1> QED
    BY <1>7, <1>8

(* Creation, reward and release of one tool. *)
LEMMA ToolKeeps ==
    ASSUME AsyncInv, NEW q \in Requests, NEW t \in ToolsOf[q],
           Create(q, t) \/ Reward(q, t) \/ Release(q, t)
    PROVE  AsyncInv'
  <1>1. InStage(q, req[q]) /\ DOMAIN req = Requests /\ error = "none"
    BY DEF AsyncInv, Create, Reward, Release, Running
  <1>2. ASSUME NEW s \in Stage(req[q].pc),
               req' = [req EXCEPT ![q].tools[t] = s], error' = error
        PROVE  AsyncInv'
    <2>1. req' = [req EXCEPT ![q] = [req[q] EXCEPT !.tools[t] = s]]
      BY <1>1, <1>2
    <2>2. InStage(q, [req[q] EXCEPT !.tools[t] = s])
      BY <1>1, ToolMoves
    <2> QED
      BY <1>1, <1>2, <2>1, <2>2, OneMoves
  <1>3. CASE Create(q, t)
    <2>1. req[q].tools[t] = "creating"
      BY <1>3 DEF Create
    <2>2. req[q].pc = "create"
      BY <1>1, <2>1 DEF InStage, Stage
    <2> QED
      BY <1>2, <1>3, <2>2 DEF Create, Stage
  <1>4. CASE Reward(q, t) \/ Release(q, t)
    BY <1>2, <1>4 DEF Reward, Release, Stage
  <1> QED
    BY <1>3, <1>4

LEMMA FinalizeKeeps ==
    ASSUME AsyncInv, NEW q \in Requests, Finalize(q)
    PROVE  AsyncInv'
  <1> DEFINE r == [req[q] EXCEPT !.pc = "done", !.len = Truncated(@)]
  <1>1. InStage(q, req[q]) /\ DOMAIN req = Requests /\ req[q].pc = "reward"
    BY DEF AsyncInv, Finalize
  <1>2. req' = [req EXCEPT ![q] = r]
    BY <1>1 DEF Finalize
  <1>3. error' # "finish"
    BY <1>1 DEF Finalize, InStage
  <1>4. \A t \in ToolsOf[q] : req[q].tools[t] = "released"
    BY DEF Finalize, ToRelease
  <1>5. r.pc = "done" /\ r.tools = req[q].tools /\ DOMAIN r = DOMAIN req[q]
    BY <1>1 DEF InStage, Fields
  <1> HIDE DEF r
  <1>6. InStage(q, r)
    BY <1>1, <1>4, <1>5 DEF InStage, PCs, Stage
  <1> QED
    BY <1>2, <1>3, <1>6, OneMoves

-----------------------------------------------------------------------------
LEMMA FreshInStage ==
    ASSUME NEW q \in Requests, NEW p
    PROVE  InStage(q, Fresh(p))
  BY ToolsAssumption DEF InStage, Fields, PCs, Stage, ToolStates, Fresh

LEMMA AsyncInvInitially == Init => AsyncInv
  BY FreshInStage DEF Init, FreshRequests, AsyncInv

LEMMA AsyncInvInductive == AsyncInv /\ [Next]_vars => AsyncInv'
  <1> SUFFICES ASSUME AsyncInv, [Next]_vars PROVE AsyncInv'
    OBVIOUS
  <1>1. ASSUME NEW q \in Requests, Coroutine(q) PROVE AsyncInv'
    BY <1>1, StartKeeps, RunKeeps, AnswerKeeps, FailedAnswerKeeps, ToolsAnsweredKeeps,
       FinalizeKeeps
       DEF Coroutine
  <1>2. ASSUME NEW q \in Requests, Tool(q) PROVE AsyncInv'
    BY <1>2, ToolKeeps, ExecuteKeeps DEF Tool
  <1>3. CASE NextBatch
    <2>1. PICK prompts \in [Requests -> Prompts] :
              req' = [q \in Requests |-> Fresh(prompts[q])] /\ error' = error
      BY <1>3 DEF NextBatch, FreshRequests
    <2>2. \A q \in Requests : InStage(q, req'[q])
      BY <2>1, FreshInStage
    <2> QED
      BY <2>1, <2>2 DEF AsyncInv, InStage
  <1>4. CASE UNCHANGED vars
    BY <1>4 DEF vars, AsyncInv, InStage
  <1> QED
    BY <1>1, <1>2, <1>3, <1>4 DEF Next, Step, Finished

(* AsyncInv holds in every state of every behaviour. *)
THEOREM AsyncRolloutInvariant == Spec => []AsyncInv
  BY AsyncInvInitially, AsyncInvInductive, PTL DEF Spec

(* ToolsAreThere, for all the constants: no tool of a request is missing while
   the model can call it or a call of it is running. *)
THEOREM AsyncToolsAreThere == Spec => []ToolsAreThere
  <1>1. AsyncInv => ToolsAreThere
    BY DEF AsyncInv, InStage, Stage, ToolsAreThere
  <1> QED
    BY <1>1, AsyncRolloutInvariant, PTL

(* AllReleased, for all the constants: a request that is done has released
   every tool instance it created. *)
THEOREM AsyncAllReleased == Spec => []AllReleased
  <1>1. AsyncInv => AllReleased
    BY DEF AsyncInv, InStage, Stage, AllReleased
  <1> QED
    BY <1>1, AsyncRolloutInvariant, PTL

(* FinishIsAccepted, for all the constants: finalize never raises because of
   the finish reason. *)
THEOREM AsyncFinishIsAccepted == Spec => []FinishIsAccepted
  <1>1. AsyncInv => FinishIsAccepted
    BY DEF AsyncInv, FinishIsAccepted
  <1> QED
    BY <1>1, AsyncRolloutInvariant, PTL
-----------------------------------------------------------------------------
(* The dialogue.  The second invariant says what the messages of a request are
   at each await, for as long as no exception has ended the rollout. *)
Errors == {"none", "no room", "aborted", "unsupported end", "unknown tool", "tool raised",
           "finish"}
Calling == { calls \in Seq(Tools) : Len(calls) <= MaxCalls }
Messages == [role : {"assistant"}, calls : Calling] \cup [role : {"tool"}, call : Nat]
Request == [pc : PCs, turns : 0 .. MaxTurns, finish : {"none", "stop", "length", "tool_calls"},
            len : Nat, cut : Nat, ends : Ends, prompt : Int,
            messages : Seq(Messages), answered : Seq(1 .. MaxCalls), saved : Modes,
            tools : [Tools -> ToolStates]]

Follows(m) ==
    /\ \A i \in DOMAIN m : m[i].role = "tool" =>
           LET call == m[i].call
           IN  /\ i - call \in DOMAIN m
               /\ m[i - call].role = "assistant"
               /\ call \in DOMAIN m[i - call].calls
    /\ \A i \in DOMAIN m : m[i].role = "assistant" /\ i > 1 =>
           /\ m[i - 1].role = "tool"
           /\ m[i - 1].call = Len(m[i - 1 - m[i - 1].call].calls)

(* Every call of the last reply has its response: the model may speak. *)
AllAnswered(m) ==
    m # <<>> => /\ Last(m).role = "tool"
                /\ Last(m).call = Len(m[Len(m) - Last(m).call].calls)

Distinct(s) == \A j, k \in DOMAIN s : s[j] = s[k] => j = k

(* The two counts of a request's tokens: before the first reply the ids are the
   prompt less what was cut; then the prompt has at most the mark that opens the
   next reply and the drift of every turn besides. *)
Accounted(r) ==
    /\ r.turns = 0 => r.prompt = r.len + r.cut /\ r.len <= PromptLen
    /\ r.turns > 0 => /\ r.ends = "message"
                      /\ r.prompt <= r.len + r.cut + OpeningLen + Drift * r.turns

Poised(r) ==
    /\ r.pc \in {"pending", "create"} => r.messages = <<>> /\ r.turns = 0
    /\ r.pc \in {"pending", "create", "generate", "tools"} =>
           r.turns < MaxTurns /\ Accounted(r)
    /\ r.pc = "generate" => AllAnswered(r.messages) /\ MaxNewTokens(r) >= 0
    /\ r.pc = "tools" => /\ r.turns >= 1
                         /\ r.messages # <<>>
                         /\ Last(r.messages).role = "assistant"
                         /\ Calls(r) # <<>>

(* Before the first reply, or behind the responses of tools. *)
NotFull(r) == r.turns > 0 => Last(r.messages).role = "tool" /\ r.len < MaxModelLen

NearTheLimit(r) ==
    \/ r.turns = 0 /\ r.cut > 0
    \/ /\ r.turns > 0 /\ Last(r.messages).role = "tool"
       /\ r.len < MaxModelLen
       /\ r.len + r.cut + OpeningLen + Drift * r.turns >= MaxModelLen

Valid(r) == r \in Request /\ Follows(r.messages) /\ Distinct(r.answered)

DialogueInv ==
    /\ batch \in DOMAIN Batches
    /\ sampling_params \in Modes
    /\ error \in Errors
    /\ DOMAIN req = Requests
    /\ \A q \in Requests : Valid(req[q])
    /\ Running => \A q \in Requests : Poised(req[q])
    /\ error = "no room" => \E q \in Requests : NearTheLimit(req[q])

LEMMA RequestMoves ==
    ASSUME DialogueInv, Running, NEW q \in Requests, NEW r, Valid(r),
           req' = [req EXCEPT ![q] = r], batch' = batch, sampling_params' \in Modes,
           error' \in Errors, error' = "none" => Poised(r), error' = "no room" => NearTheLimit(r)
    PROVE  DialogueInv'
<1>1. DOMAIN req' = Requests /\ \A p \in Requests : req'[p] = IF p = q THEN r ELSE req[p]
  BY DEF DialogueInv
<1>2. \A p \in Requests : Valid(req'[p])
  BY <1>1 DEF DialogueInv
<1>3. Running' => \A p \in Requests : Poised(req'[p])
  BY <1>1 DEF DialogueInv, Running
<1>4. error' = "no room" => NearTheLimit(req'[q])
  BY <1>1
<1> QED
  BY <1>1, <1>2, <1>3, <1>4 DEF DialogueInv, Running, Valid, NearTheLimit, Poised, Accounted,
     AllAnswered, Calls, Last, MaxNewTokens, Room

LEMMA Lengths ==
    /\ MaxTurns \in Nat /\ PromptLen \in Nat /\ ResponseLen \in Nat /\ MaxModelLen \in Nat
    /\ MaxTurns > 0 /\ PromptLen > 0 /\ ResponseLen > 0 /\ MaxModelLen > 0
    /\ MaxCalls \in Nat /\ OpeningLen \in Nat /\ Drift \in Nat
    /\ PromptLen + ResponseLen <= MaxModelLen
BY LengthsAssumption

LEMMA DriftGrows ==
    ASSUME NEW n \in Nat
    PROVE  Drift * n \in Nat /\ Drift * (n + 1) = Drift * n + Drift
BY Lengths

LEMMA RoomTypes ==
    ASSUME NEW r \in Request
    PROVE  /\ MaxNewTokens(r) \in Int /\ MaxNewTokens(r) <= ResponseLen
           /\ MaxNewTokens(r) < 0 => r.prompt >= MaxModelLen
BY Lengths DEF Request, MaxNewTokens, Room

(* What a refused prompt says of the ids. *)
LEMMA RefusedIsNear ==
    ASSUME NEW r \in Request, Accounted(r), NotFull(r), MaxNewTokens(r) < 0
    PROVE  NearTheLimit(r)
<1>1. r.prompt \in Int /\ r.len \in Nat /\ r.cut \in Nat /\ r.turns \in Nat
  BY Lengths DEF Request
<1>2. r.prompt >= MaxModelLen
  BY RoomTypes
<1>3. CASE r.turns = 0
  BY <1>1, <1>2, <1>3, Lengths DEF Accounted, NearTheLimit
<1>4. CASE r.turns > 0
  <2> DEFINE drifted == Drift * r.turns
  <2>1. drifted \in Nat
    BY <1>1, DriftGrows
  <2>2. r.prompt <= r.len + r.cut + OpeningLen + drifted
    BY <1>4 DEF Accounted
  <2>3. Last(r.messages).role = "tool" /\ r.len < MaxModelLen
    BY <1>4 DEF NotFull
  <2> HIDE DEF drifted
  <2>4. r.len + r.cut + OpeningLen + drifted >= MaxModelLen
    BY <1>1, <1>2, <2>1, <2>2, Lengths
  <2> QED
    BY <1>4, <2>3, <2>4 DEF NearTheLimit, drifted
<1> QED
  BY <1>1, <1>3, <1>4

LEMMA EngineDialogue ==
    ASSUME DialogueInv, Running, NEW q \in Requests, NEW r, Valid(r), CallEngine(q, r),
           r.turns < MaxTurns, AllAnswered(r.messages), Accounted(r), NotFull(r),
           batch' = batch
    PROVE  DialogueInv'
<1>1. CASE MaxNewTokens(r) < 0
  <2>1. NearTheLimit(r)
    BY <1>1, RefusedIsNear DEF Valid
  <2> QED
    BY <1>1, <2>1, RequestMoves DEF CallEngine, DialogueInv, Errors
<1>2. CASE ~(MaxNewTokens(r) < 0)
  <2> DEFINE s == [r EXCEPT !.pc = "generate", !.saved = sampling_params]
  <2>1. req' = [req EXCEPT ![q] = s] /\ error' = "none"
        /\ sampling_params' = IF Mode = "train" THEN sampling_params ELSE Mode
    BY <1>2 DEF CallEngine, Running
  <2>2. sampling_params' \in Modes
    <3>a. DOMAIN Batches = 1 .. Len(Batches)
      BY BatchesAssumption
    <3>b. batch \in DOMAIN Batches /\ sampling_params \in Modes
      BY DEF DialogueInv
    <3>1. batch \in 1 .. Len(Batches) /\ sampling_params \in Modes
      BY <3>a, <3>b
    <3>2. Mode \in Modes
      BY <3>1, BatchesAssumption DEF Mode
    <3> QED
      BY <2>1, <3>1, <3>2
  <2>3. s \in Request /\ s.messages = r.messages /\ s.answered = r.answered /\ s.len = r.len
        /\ s.turns = r.turns /\ s.pc = "generate" /\ s.cut = r.cut /\ s.ends = r.ends
        /\ s.prompt = r.prompt
    BY DEF Valid, Request, DialogueInv, PCs
  <2>4. MaxNewTokens(s) = MaxNewTokens(r)
    BY <2>3 DEF MaxNewTokens, Room
  <2> HIDE DEF s
  <2>5. MaxNewTokens(s) >= 0
    BY <1>2, <2>4, RoomTypes DEF Valid
  <2>6. Valid(s) /\ Poised(s)
    BY <2>3, <2>5 DEF Valid, Poised, Accounted
  <2> QED
    BY <2>1, <2>2, <2>6, RequestMoves DEF Errors
<1> QED
  BY <1>1, <1>2

LEMMA StartDialogue ==
    ASSUME DialogueInv, NEW q \in Requests, Start(q)
    PROVE  DialogueInv'
<1> DEFINE created == [t \in Tools |-> IF t \in ToolsOf[q] THEN "creating" ELSE "absent"]
           r == [req[q] EXCEPT !.pc = "create", !.tools = created]
<1>1. Valid(req[q]) /\ Poised(req[q]) /\ req[q].pc = "pending"
  BY DEF DialogueInv, Start
<1>2. req' = [req EXCEPT ![q] = r] /\ error' = error /\ error = "none" /\ batch' = batch
      /\ sampling_params' = sampling_params
  BY DEF Start, DialogueInv, Running
<1>3. created \in [Tools -> ToolStates]
  BY DEF ToolStates
<1>4. r \in Request /\ r.pc = "create" /\ r.messages = req[q].messages /\ r.turns = req[q].turns
      /\ r.len = req[q].len /\ r.answered = req[q].answered /\ r.cut = req[q].cut
      /\ r.ends = req[q].ends /\ r.prompt = req[q].prompt
  BY <1>1, <1>3 DEF Valid, Request, PCs
<1> HIDE DEF r
<1>5. Valid(r) /\ Poised(r)
  BY <1>1, <1>4 DEF Valid, Poised, Accounted
<1> QED
  BY <1>2, <1>5, RequestMoves DEF DialogueInv, Errors, Running

LEMMA RunDialogue ==
    ASSUME DialogueInv, NEW q \in Requests, Run(q)
    PROVE  DialogueInv'
<1>1. Valid(req[q]) /\ Poised(req[q]) /\ req[q].pc = "create" /\ Running
      /\ CallEngine(q, req[q]) /\ batch' = batch
  BY DEF DialogueInv, Run
<1>2. req[q].messages = <<>> /\ req[q].turns = 0 /\ Accounted(req[q])
  BY <1>1 DEF Poised
<1>3. AllAnswered(req[q].messages) /\ NotFull(req[q])
  BY <1>2 DEF AllAnswered, NotFull
<1> QED
  BY <1>1, <1>2, <1>3, EngineDialogue, Lengths

-----------------------------------------------------------------------------
(* What the model says. *)
LEMMA SpeaksNext ==
    ASSUME NEW m \in Seq(Messages), Follows(m), AllAnswered(m), NEW calls \in Calling
    PROVE  LET n == Append(m, [role |-> "assistant", calls |-> calls])
           IN  /\ n \in Seq(Messages)
               /\ Follows(n)
               /\ n # <<>> /\ Last(n).role = "assistant" /\ Last(n).calls = calls
<1> DEFINE said == [role |-> "assistant", calls |-> calls]
           n == Append(m, said)
<1>1. said \in Messages /\ said.role = "assistant" /\ said.calls = calls
  BY DEF Messages
<1> HIDE DEF said
<1>2. /\ n \in Seq(Messages) /\ Len(n) = Len(m) + 1 /\ n[Len(n)] = said
      /\ \A i \in DOMAIN m : i \in DOMAIN n /\ n[i] = m[i]
      /\ \A i \in DOMAIN n : i = Len(n) \/ i \in DOMAIN m
      /\ Len(m) \in Nat
  BY <1>1
<1>3. DOMAIN n = 1 .. Len(n) /\ DOMAIN m = 1 .. Len(m)
  BY <1>2
<1> HIDE DEF n
<1>4. ASSUME NEW i \in DOMAIN n, n[i].role = "tool"
      PROVE  LET call == n[i].call
             IN  /\ i - call \in DOMAIN n
                 /\ n[i - call].role = "assistant"
                 /\ call \in DOMAIN n[i - call].calls
  <2>1. i \in DOMAIN m /\ m[i].role = "tool" /\ n[i] = m[i]
    BY <1>1, <1>2, <1>4
  <2>2. /\ i - m[i].call \in DOMAIN m
        /\ m[i - m[i].call].role = "assistant"
        /\ m[i].call \in DOMAIN m[i - m[i].call].calls
    BY <2>1 DEF Follows
  <2> QED
    BY <1>2, <2>1, <2>2
<1>5. ASSUME NEW i \in DOMAIN n, n[i].role = "assistant", i > 1
      PROVE  /\ n[i - 1].role = "tool"
             /\ n[i - 1].call = Len(n[i - 1 - n[i - 1].call].calls)
  <2>1. CASE i \in DOMAIN m
    <3>1. /\ m[i - 1].role = "tool"
          /\ m[i - 1].call = Len(m[i - 1 - m[i - 1].call].calls)
      BY <1>2, <1>5, <2>1 DEF Follows
    <3>2. i - 1 \in DOMAIN m
      BY <1>3, <1>5, <2>1
    <3>3. i - 1 - m[i - 1].call \in DOMAIN m
      BY <3>1, <3>2 DEF Follows
    <3> QED
      BY <1>2, <3>1, <3>2, <3>3
  <2>2. CASE i = Len(n)
    <3>1. m # <<>> /\ i - 1 = Len(m) /\ i - 1 \in DOMAIN m
      BY <1>2, <1>3, <1>5, <2>2
    <3>2. m[i - 1].role = "tool" /\ m[i - 1].call = Len(m[i - 1 - m[i - 1].call].calls)
      BY <3>1 DEF AllAnswered, Last
    <3>3. i - 1 - m[i - 1].call \in DOMAIN m
      BY <3>1, <3>2 DEF Follows
    <3> QED
      BY <1>2, <3>1, <3>2, <3>3
  <2> QED
    BY <1>2, <2>1, <2>2
<1>6. Follows(n)
  BY <1>4, <1>5 DEF Follows
<1>7. n # <<>> /\ Last(n) = said
  BY <1>2 DEF Last
<1> QED
  BY <1>1, <1>2, <1>6, <1>7 DEF n, said

(* The responses to its calls, the first of them or all. *)
LEMMA ResponsesFollow ==
    ASSUME NEW r \in Request, Follows(r.messages), r.messages # <<>>,
           Last(r.messages).role = "assistant",
           NEW n \in 1 .. Len(Calls(r))
    PROVE  LET m == r.messages \o Responses(r, n)
           IN  /\ m \in Seq(Messages)
               /\ Follows(m)
               /\ m # <<>> /\ Last(m).role = "tool"
               /\ n = Len(Calls(r)) => AllAnswered(m)
<1> DEFINE old == r.messages
           new == Responses(r, n)
           m == old \o new
<1>1. old \in Seq(Messages) /\ Len(old) \in Nat /\ old[Len(old)] \in Messages
      /\ DOMAIN old = 1 .. Len(old) /\ Len(old) > 0 /\ Follows(old)
      /\ old[Len(old)].role = "assistant" /\ Calls(r) = old[Len(old)].calls
  BY DEF Request, Last, Calls
<1>2. Calls(r) \in Calling
  BY <1>1 DEF Messages
<1>3. Calls(r) \in Seq(Tools) /\ DOMAIN Calls(r) = 1 .. Len(Calls(r)) /\ Len(Calls(r)) \in Nat
  BY <1>2 DEF Calling
<1>4. new = [k \in 1 .. n |-> [role |-> "tool", call |-> k]]
  BY <1>3 DEF Responses, Gathered
<1>5. new \in Seq(Messages) /\ Len(new) = n /\ n \in Nat /\ n >= 1
  <2>1. \A k \in 1 .. n : [role |-> "tool", call |-> k] \in Messages
    BY <1>3 DEF Messages
  <2> QED
    BY <1>3, <1>4, <2>1
<1>6. \A k \in 1 .. n : new[k].role = "tool" /\ new[k].call = k
  BY <1>4
<1> HIDE DEF old, new
<1>7. /\ m \in Seq(Messages) /\ Len(m) = Len(old) + n /\ DOMAIN m = 1 .. Len(old) + n
      /\ \A i \in 1 .. Len(old) : m[i] = old[i]
      /\ \A i \in Len(old) + 1 .. Len(old) + n : m[i] = new[i - Len(old)]
  BY <1>1, <1>5
<1> HIDE DEF m
<1>8. ASSUME NEW i \in DOMAIN m, m[i].role = "tool"
      PROVE  LET call == m[i].call
             IN  /\ i - call \in DOMAIN m
                 /\ m[i - call].role = "assistant"
                 /\ call \in DOMAIN m[i - call].calls
  <2>1. CASE i \in 1 .. Len(old)
    <3>1. /\ i - old[i].call \in DOMAIN old
          /\ old[i - old[i].call].role = "assistant"
          /\ old[i].call \in DOMAIN old[i - old[i].call].calls
      BY <1>1, <1>7, <1>8, <2>1 DEF Follows
    <3>2. i - old[i].call \in DOMAIN m
      BY <1>1, <1>5, <1>7, <3>1
    <3> QED
      BY <1>1, <1>7, <2>1, <3>1, <3>2
  <2>2. CASE i \in Len(old) + 1 .. Len(old) + n
    <3>1. i - Len(old) \in 1 .. n /\ m[i].call = i - Len(old)
      BY <1>1, <1>5, <1>6, <1>7, <2>2
    <3>2. i - m[i].call = Len(old)
      BY <1>1, <1>5, <2>2, <3>1
    <3>3. m[i].call \in 1 .. Len(Calls(r))
      BY <1>3, <3>1
    <3> QED
      BY <1>1, <1>3, <1>5, <1>7, <3>2, <3>3, SMTT(30)
  <2> QED
    BY <1>1, <1>5, <1>7, <2>1, <2>2
<1>9. ASSUME NEW i \in DOMAIN m, m[i].role = "assistant", i > 1
      PROVE  /\ m[i - 1].role = "tool"
             /\ m[i - 1].call = Len(m[i - 1 - m[i - 1].call].calls)
  <2>1. i \in 1 .. Len(old)
    <3>1. CASE i \in Len(old) + 1 .. Len(old) + n
      <4>1. i - Len(old) \in 1 .. n
        BY <1>1, <1>5, <3>1
      <4> QED
        BY <1>6, <1>7, <1>9, <3>1, <4>1
    <3> QED
      BY <1>1, <1>5, <1>7, <3>1
  <2>2. i - 1 \in 1 .. Len(old) /\ m[i] = old[i] /\ m[i - 1] = old[i - 1]
    BY <1>1, <1>7, <1>9, <2>1
  <2>3. old[i - 1].role = "tool" /\ old[i - 1].call = Len(old[i - 1 - old[i - 1].call].calls)
    BY <1>1, <1>9, <2>1, <2>2 DEF Follows
  <2>4. i - 1 - old[i - 1].call \in 1 .. Len(old)
    BY <1>1, <2>2, <2>3 DEF Follows
  <2> QED
    BY <1>7, <2>2, <2>3, <2>4
<1>10. Follows(m)
  BY <1>8, <1>9 DEF Follows
<1>11. m # <<>> /\ Last(m).role = "tool" /\ Last(m).call = n
  <2>1. Len(old) + n \in Len(old) + 1 .. Len(old) + n /\ (Len(old) + n) - Len(old) = n /\ n \in 1 .. n
    BY <1>1, <1>5
  <2>2. Last(m) = new[n]
    BY <1>7, <2>1 DEF Last
  <2> QED
    BY <1>1, <1>5, <1>6, <1>7, <2>1, <2>2
<1>12. n = Len(Calls(r)) => AllAnswered(m)
  <2>1. Len(m) - n = Len(old) /\ m[Len(old)] = old[Len(old)]
    BY <1>1, <1>5, <1>7
  <2> QED
    BY <1>1, <1>11, <2>1 DEF AllAnswered
<1> QED
  BY <1>7, <1>10, <1>11, <1>12 DEF m, old, new

(* A reply lets the prompt get ahead of the ids by no more than its drift. *)
LEMMA PromptKeepsPace ==
    ASSUME NEW len \in Nat, NEW cut \in Nat, NEW prompt \in Int, NEW opening \in Nat,
           NEW size \in Nat, NEW drift \in Int, NEW drifted \in Nat,
           drift <= Drift, prompt <= len + cut + opening + drifted
    PROVE  prompt + size + 1 + OpeningLen + drift
               <= (len + opening + size + 1) + cut + OpeningLen + (drifted + Drift)
BY Lengths

LEMMA LengthsAreNumbers ==
    ASSUME NEW len \in Nat, NEW prompt \in Int, NEW opening \in Nat,
           NEW size \in Nat, NEW closing \in Nat, NEW drift \in Int
    PROVE  /\ len + opening + size + closing \in Nat
           /\ prompt + size + 1 + OpeningLen + drift \in Int
BY Lengths

LEMMA SaidDialogue ==
    ASSUME NEW r, Valid(r), Poised(r), r.pc = "generate",
           NEW size \in Nat, NEW calls \in Calling, NEW closing \in {0, 1}, NEW drift \in Int
    PROVE  LET s == Said(r, size, calls, closing, drift)
           IN  /\ Valid(s) /\ s.pc = "generate" /\ s.turns >= 1
               /\ s.messages # <<>> /\ Last(s.messages).role = "assistant"
               /\ Calls(s) = calls
               /\ closing = 1 /\ drift <= Drift => Accounted(s)
<1> DEFINE m == Append(r.messages, [role |-> "assistant", calls |-> calls])
           len == r.len + Opening(r) + size + closing
           prompt == r.prompt + size + 1 + OpeningLen + drift
           ends == IF closing = 1 THEN "message" ELSE "text"
           s == Said(r, size, calls, closing, drift)
<1>1. r \in Request /\ r.turns < MaxTurns /\ r.turns \in Nat /\ AllAnswered(r.messages)
      /\ r.messages \in Seq(Messages) /\ Follows(r.messages) /\ Accounted(r)
      /\ r.len \in Nat /\ r.cut \in Nat /\ r.prompt \in Int
  BY DEF Valid, Poised, Request
<1>2. /\ m \in Seq(Messages) /\ Follows(m)
      /\ m # <<>> /\ Last(m).role = "assistant" /\ Last(m).calls = calls
  BY <1>1, SpeaksNext
<1>3. r.turns + 1 \in 0 .. MaxTurns
  BY <1>1, Lengths
<1>4. Opening(r) \in Nat /\ (r.ends = "message" => Opening(r) = OpeningLen)
  BY Lengths DEF Opening
<1>5. len \in Nat /\ prompt \in Int
  <2>1. r.len \in Nat /\ r.prompt \in Int /\ closing \in Nat
    BY <1>1
  <2> QED
    BY <1>4, <2>1, LengthsAreNumbers
<1>6. s = [r EXCEPT !.turns = r.turns + 1, !.len = len, !.ends = ends,
                    !.prompt = prompt, !.messages = m]
  BY <1>1 DEF Said, Request
<1>7. ASSUME closing = 1, drift <= Drift
      PROVE  prompt <= len + r.cut + OpeningLen + Drift * (r.turns + 1)
  <2> DEFINE drifted == Drift * r.turns
  <2>1. drifted \in Nat /\ Drift * (r.turns + 1) = drifted + Drift
    BY <1>1, DriftGrows
  <2>2. r.prompt <= r.len + r.cut + Opening(r) + drifted
    <3>1. r.len \in Nat /\ r.cut \in Nat /\ r.prompt \in Int /\ r.turns \in Nat
      BY <1>1
    <3>2. CASE r.turns = 0
      <4>1. r.prompt = r.len + r.cut
        BY <1>1, <3>2 DEF Accounted
      <4> HIDE DEF drifted
      <4> QED
        BY <1>4, <2>1, <3>1, <4>1
    <3>3. CASE r.turns > 0
      BY <1>1, <1>4, <3>3 DEF Accounted
    <3> QED
      BY <3>1, <3>2, <3>3
  <2>3. r.len \in Nat /\ r.cut \in Nat /\ r.prompt \in Int
    BY <1>1
  <2> HIDE DEF drifted
  <2>4. r.prompt + size + 1 + OpeningLen + drift
            <= (r.len + Opening(r) + size + 1) + r.cut + OpeningLen + (drifted + Drift)
    BY <1>4, <1>7, <2>1, <2>2, <2>3, PromptKeepsPace
  <2> QED
    BY <1>7, <2>1, <2>4
<1> HIDE DEF m, len, prompt
<1>8. s \in Request /\ s.pc = r.pc /\ s.turns = r.turns + 1 /\ s.messages = m
      /\ s.answered = r.answered /\ s.len = len /\ s.cut = r.cut /\ s.prompt = prompt
      /\ s.ends = ends
  BY <1>1, <1>2, <1>3, <1>5, <1>6 DEF Request, Ends
<1> HIDE DEF s
<1>9. Calls(s) = calls
  BY <1>2, <1>8 DEF Calls
<1>10. closing = 1 /\ drift <= Drift => Accounted(s)
  BY <1>1, <1>7, <1>8 DEF Accounted
<1> QED
  BY <1>1, <1>2, <1>8, <1>9, <1>10 DEF s, Valid

LEMMA LeaveDialogue ==
    ASSUME NEW r, Valid(r), NEW f \in {"stop", "length", "tool_calls"}
    PROVE  Valid(Leave(r, f)) /\ Poised(Leave(r, f))
<1> DEFINE s == Leave(r, f)
<1>1. s \in Request /\ s.pc = "reward" /\ s.messages = r.messages /\ s.answered = r.answered
  BY DEF Valid, Request, Leave, PCs
<1> HIDE DEF s
<1> QED
  BY <1>1 DEF s, Valid, Poised

LEMMA RestoreTypes ==
    ASSUME DialogueInv, NEW q \in Requests, Restore(q)
    PROVE  sampling_params' \in Modes
<1>1. req[q].saved \in Modes /\ sampling_params \in Modes
  BY DEF DialogueInv, Valid, Request
<1> QED
  BY <1>1 DEF Restore

(* The answers of the engine. *)
LEMMA AnswerDialogue ==
    ASSUME DialogueInv, NEW q \in Requests,
           AnswerLength(q) \/ AnswerPlain(q) \/ AnswerCalls(q)
    PROVE  DialogueInv'
<1>1. Valid(req[q]) /\ Poised(req[q]) /\ req[q].pc = "generate" /\ Running /\ error = "none"
      /\ DOMAIN req = Requests
  BY DEF DialogueInv, AnswerLength, AnswerPlain, AnswerCalls, Running
<1>2. sampling_params' \in Modes
  BY RestoreTypes DEF AnswerLength, AnswerPlain, AnswerCalls
<1>3. <<>> \in Calling
  BY Lengths DEF Calling
<1>4. ASSUME NEW size \in Nat, NEW closing \in {0, 1}, NEW f \in {"stop", "length"},
             req' = [req EXCEPT ![q] = Leave(Said(req[q], size, <<>>, closing, 0), f)],
             UNCHANGED <<batch, error>>
      PROVE  DialogueInv'
  <2> DEFINE s == Said(req[q], size, <<>>, closing, 0)
  <2>1. Valid(s)
    <3>1. 0 \in Int
      OBVIOUS
    <3> QED
      BY <1>1, <1>3, <3>1, SaidDialogue
  <2> HIDE DEF s
  <2>2. Valid(Leave(s, f)) /\ Poised(Leave(s, f))
    BY <2>1, LeaveDialogue
  <2>3. req' = [req EXCEPT ![q] = Leave(s, f)]
    BY <1>4 DEF s
  <2> QED
    BY <1>1, <1>2, <1>4, <2>2, <2>3, RequestMoves DEF Errors
<1>5. CASE AnswerLength(q)
  <2>1. PICK size \in Retold(MaxNewTokens(req[q])) :
            req' = [req EXCEPT ![q] = Leave(Said(req[q], size, <<>>, 0, 0), "length")]
    BY <1>5 DEF AnswerLength
  <2>2. size \in Nat
    BY DEF Retold
  <2> QED
    BY <1>4, <1>5, <2>1, <2>2 DEF AnswerLength
<1>6. CASE AnswerPlain(q)
  <2>1. PICK new \in 1 .. MaxNewTokens(req[q]) : \E size \in Retold(new) :
            req' = [req EXCEPT ![q] = Leave(Said(req[q], size, <<>>, 1, 0), "stop")]
    BY <1>6 DEF AnswerPlain
  <2>2. PICK size \in Retold(new) :
            req' = [req EXCEPT ![q] = Leave(Said(req[q], size, <<>>, 1, 0), "stop")]
    BY <2>1
  <2>3. size \in Nat
    BY DEF Retold
  <2> QED
    BY <1>4, <1>6, <2>2, <2>3 DEF AnswerPlain
<1>7. CASE AnswerCalls(q)
  <2>1. PICK new \in 1 .. MaxNewTokens(req[q]) : \E size \in Retold(new),
             drift \in -Drift .. Drift,
             calls \in UNION { [1 .. n -> Tools] : n \in 1 .. MaxCalls } :
         LET r == Said(req[q], size, calls, 1, drift)
         IN  IF LastTurn(r)
             THEN /\ req' = [req EXCEPT ![q] = Leave(r, "tool_calls")]
                  /\ UNCHANGED error
             ELSE /\ req' = [req EXCEPT ![q] = [r EXCEPT !.pc = "tools",
                                                         !.answered = <<>>]]
                  /\ error' = IF \A i \in DOMAIN calls : calls[i] \in ToolsOf[q]
                              THEN "none" ELSE "unknown tool"
    BY <1>7 DEF AnswerCalls
  <2>a. PICK size \in Retold(new), drift \in -Drift .. Drift,
             calls \in UNION { [1 .. n -> Tools] : n \in 1 .. MaxCalls } :
         LET r == Said(req[q], size, calls, 1, drift)
         IN  IF LastTurn(r)
             THEN /\ req' = [req EXCEPT ![q] = Leave(r, "tool_calls")]
                  /\ UNCHANGED error
             ELSE /\ req' = [req EXCEPT ![q] = [r EXCEPT !.pc = "tools",
                                                         !.answered = <<>>]]
                  /\ error' = IF \A i \in DOMAIN calls : calls[i] \in ToolsOf[q]
                              THEN "none" ELSE "unknown tool"
    BY <2>1
  <2> DEFINE r == Said(req[q], size, calls, 1, drift)
  <2>2. size \in Nat /\ drift \in Int /\ drift <= Drift
    BY Lengths DEF Retold
  <2>3. PICK n \in 1 .. MaxCalls : calls \in [1 .. n -> Tools]
    OBVIOUS
  <2>4. calls \in Calling /\ calls # <<>>
    <3>1. calls \in Seq(Tools) /\ Len(calls) = n
      BY <2>3, Lengths
    <3> QED
      BY <3>1, Lengths DEF Calling
  <2>5. Valid(r) /\ r.pc = "generate" /\ r.turns >= 1 /\ r.messages # <<>>
        /\ Last(r.messages).role = "assistant" /\ Calls(r) = calls /\ Accounted(r)
    BY <1>1, <2>2, <2>4, SaidDialogue
  <2>6. batch' = batch
    BY <1>7 DEF AnswerCalls
  <2>7. IF LastTurn(r)
        THEN req' = [req EXCEPT ![q] = Leave(r, "tool_calls")] /\ error' = error
        ELSE /\ req' = [req EXCEPT ![q] = [r EXCEPT !.pc = "tools", !.answered = <<>>]]
             /\ error' \in {"none", "unknown tool"}
    BY <2>a
  <2> HIDE DEF r
  <2>8. CASE LastTurn(r)
    <3>1. Valid(Leave(r, "tool_calls")) /\ Poised(Leave(r, "tool_calls"))
      BY <2>5, LeaveDialogue
    <3> QED
      BY <1>1, <1>2, <2>6, <2>7, <2>8, <3>1, RequestMoves DEF Errors
  <2>9. CASE ~LastTurn(r)
    <3> DEFINE s == [r EXCEPT !.pc = "tools", !.answered = <<>>]
    <3>a. <<>> \in Seq(1 .. MaxCalls)
      OBVIOUS
    <3>1. s \in Request /\ s.pc = "tools" /\ s.answered = <<>> /\ s.turns = r.turns
          /\ s.messages = r.messages /\ s.len = r.len /\ s.cut = r.cut /\ s.ends = r.ends
          /\ s.prompt = r.prompt
      BY <2>5, <3>a DEF Valid, Request, PCs
    <3>2. req' = [req EXCEPT ![q] = s] /\ error' \in {"none", "unknown tool"}
      BY <2>7, <2>9
    <3>3. Calls(s) = Calls(r)
      BY <3>1 DEF Calls
    <3> HIDE DEF s
    <3>4. s.turns < MaxTurns
      BY <2>5, <2>9, <3>1, Lengths DEF LastTurn, Valid, Request
    <3>5. Valid(s)
      BY <2>5, <3>1 DEF Valid, Distinct
    <3>6. Poised(s)
      BY <2>4, <2>5, <3>1, <3>3, <3>4 DEF Poised, Accounted
    <3> QED
      BY <1>1, <1>2, <2>6, <3>2, <3>5, <3>6, RequestMoves DEF Errors
  <2> QED
    BY <2>8, <2>9
<1> QED
  BY <1>5, <1>6, <1>7

(* The answers that end the rollout. *)
LEMMA FailedAnswerDialogue ==
    ASSUME DialogueInv, NEW q \in Requests, AnswerAborted(q) \/ AnswerUnfitting(q)
    PROVE  DialogueInv'
<1>1. Valid(req[q]) /\ Poised(req[q]) /\ req[q].pc = "generate" /\ Running
      /\ DOMAIN req = Requests
  BY DEF DialogueInv, AnswerAborted, AnswerUnfitting
<1>2. sampling_params' \in Modes /\ batch' = batch
  BY RestoreTypes DEF AnswerAborted, AnswerUnfitting
<1>3. CASE AnswerAborted(q)
  <2>1. req' = req /\ error' = "aborted"
    BY <1>3 DEF AnswerAborted
  <2> QED
    BY <1>2, <2>1 DEF DialogueInv, Errors, Running
<1>4. CASE AnswerUnfitting(q)
  <2> DEFINE m == Append(req[q].messages, [role |-> "assistant", calls |-> <<>>])
             r == [req[q] EXCEPT !.turns = req[q].turns + 1, !.messages = m]
  <2>1. req' = [req EXCEPT ![q] = r] /\ error' = "unsupported end"
    BY <1>1, <1>4 DEF AnswerUnfitting
  <2>2. <<>> \in Calling
    BY Lengths DEF Calling
  <2>3. req[q] \in Request /\ req[q].messages \in Seq(Messages) /\ Follows(req[q].messages)
        /\ AllAnswered(req[q].messages) /\ req[q].turns \in Nat /\ req[q].turns < MaxTurns
    BY <1>1 DEF Valid, Poised, Request
  <2>4. m \in Seq(Messages) /\ Follows(m)
    BY <2>2, <2>3, SpeaksNext
  <2> HIDE DEF m
  <2>5. req[q].turns + 1 \in 0 .. MaxTurns
    BY <2>3, Lengths
  <2>6. r \in Request /\ r.messages = m /\ r.answered = req[q].answered
    BY <2>3, <2>4, <2>5 DEF Request
  <2> HIDE DEF r
  <2>7. Valid(r)
    BY <1>1, <2>4, <2>6 DEF Valid
  <2> QED
    BY <1>1, <1>2, <2>1, <2>7, RequestMoves DEF Errors
<1> QED
  BY <1>3, <1>4

-----------------------------------------------------------------------------
(* The tools answer, in any order. *)
LEMMA ExecuteDialogue ==
    ASSUME DialogueInv, NEW q \in Requests, NEW i, Execute(q, i)
    PROVE  DialogueInv'
<1> DEFINE a == Append(req[q].answered, i)
           r == [req[q] EXCEPT !.answered = a]
<1>1. Valid(req[q]) /\ Poised(req[q]) /\ Running /\ DOMAIN req = Requests
  BY DEF DialogueInv, Execute
<1>2. req[q].pc = "tools" /\ i \in DOMAIN Calls(req[q])
      /\ \A k \in DOMAIN req[q].answered : req[q].answered[k] # i
  BY DEF Execute, Executing
<1>3. req[q].messages \in Seq(Messages) /\ req[q].messages # <<>>
      /\ Last(req[q].messages).role = "assistant" /\ req[q].answered \in Seq(1 .. MaxCalls)
      /\ Distinct(req[q].answered)
  BY <1>1, <1>2 DEF Valid, Poised, Request
<1>4. Last(req[q].messages) \in Messages
  BY <1>3 DEF Last
<1>5. Calls(req[q]) \in Calling
  BY <1>3, <1>4 DEF Calls, Messages
<1>6. i \in 1 .. MaxCalls
  BY <1>2, <1>5, Lengths DEF Calling
<1>7. a \in Seq(1 .. MaxCalls) /\ Distinct(a)
  <2>1. a \in Seq(1 .. MaxCalls) /\ a[Len(a)] = i
        /\ \A k \in DOMAIN a : k = Len(a) \/ (k \in DOMAIN req[q].answered /\ a[k] = req[q].answered[k])
    BY <1>3, <1>6
  <2> HIDE DEF a
  <2> QED
    BY <1>2, <1>3, <2>1 DEF Distinct
<1> HIDE DEF a
<1>8. r \in Request /\ r.answered = a /\ r.pc = req[q].pc /\ r.messages = req[q].messages
      /\ r.turns = req[q].turns /\ r.len = req[q].len /\ r.cut = req[q].cut
      /\ r.ends = req[q].ends /\ r.prompt = req[q].prompt
  BY <1>1, <1>7 DEF Valid, Request
<1>9. Calls(r) = Calls(req[q])
  BY <1>8 DEF Calls
<1>10. req' = [req EXCEPT ![q] = r] /\ batch' = batch /\ sampling_params' = sampling_params
       /\ error' = error
  BY <1>1 DEF Execute, a
<1> HIDE DEF r
<1>11. Valid(r) /\ Poised(r)
  BY <1>1, <1>2, <1>7, <1>8, <1>9 DEF Valid, Poised, Accounted
<1> QED
  BY <1>1, <1>10, <1>11, RequestMoves DEF DialogueInv, Running, Errors

(* The number of tokens after the responses. *)
LEMMA GrownIsNat ==
    ASSUME NEW r \in Request, Calls(r) \in Seq(Tools), NEW sizes \in [DOMAIN Calls(r) -> Sizes],
           NEW n \in 0 .. Len(Calls(r))
    PROVE  Heard(sizes, n) \in Nat /\ Grown(r, sizes, n) = r.len + Heard(sizes, n)
           /\ Grown(r, sizes, n) \in Nat
<1>1. Len(Calls(r)) \in Nat /\ DOMAIN Calls(r) = 1 .. Len(Calls(r)) /\ n \in Nat
  OBVIOUS
<1>2. \A i \in 1 .. n : sizes[i] \in Nat
  <2>1. \A i \in 1 .. n : sizes[i] \in Sizes
    BY <1>1
  <2> QED
    BY <2>1, LengthsAssumption
<1>3. IsFiniteSet(1 .. n)
  BY <1>1, FS_Interval
<1>4. Heard(sizes, n) \in Nat
  BY <1>2, <1>3, SumOfNaturals DEF Heard
<1>5. Grown(r, sizes, n) = r.len + Heard(sizes, n) /\ r.len \in Nat
  BY DEF Grown, Request
<1> QED
  BY <1>4, <1>5

LEMMA AddedResponses ==
    ASSUME NEW r \in Request, Calls(r) \in Seq(Tools), Calls(r) # <<>>,
           NEW sizes \in [DOMAIN Calls(r) -> Sizes]
    PROVE  /\ Added(r, sizes) \in 1 .. Len(Calls(r))
           /\ ~Full(Grown(r, sizes, Added(r, sizes))) => Added(r, sizes) = Len(Calls(r))
<1> DEFINE full == { n \in DOMAIN Calls(r) : Full(Grown(r, sizes, n)) }
<1>1. Len(Calls(r)) \in 1 .. Len(Calls(r)) /\ DOMAIN Calls(r) = 1 .. Len(Calls(r))
  OBVIOUS
<1>2. CASE full = {}
  BY <1>1, <1>2 DEF Added
<1>3. CASE full # {}
  <2>1. full \in SUBSET Nat
    BY <1>1
  <2>2. Min(full) \in full
    BY <1>3, <2>1, MinOfNaturals
  <2>3. Added(r, sizes) = Min(full)
    BY <1>3 DEF Added
  <2> QED
    BY <1>1, <2>2, <2>3
<1> QED
  BY <1>2, <1>3

LEMMA ToolsAnsweredDialogue ==
    ASSUME DialogueInv, NEW q \in Requests, ToolsAnswered(q)
    PROVE  DialogueInv'
<1>1. Valid(req[q]) /\ Poised(req[q]) /\ Running /\ error = "none" /\ DOMAIN req = Requests
      /\ req[q].pc = "tools"
  BY DEF DialogueInv, ToolsAnswered, Running
<1>2. req[q] \in Request /\ req[q].messages \in Seq(Messages) /\ req[q].messages # <<>>
      /\ Last(req[q].messages).role = "assistant" /\ Calls(req[q]) # <<>>
      /\ Follows(req[q].messages) /\ req[q].turns >= 1 /\ req[q].turns < MaxTurns
  BY <1>1 DEF Valid, Poised, Request
<1>3. Calls(req[q]) \in Seq(Tools)
  <2>1. Last(req[q].messages) \in Messages
    BY <1>2 DEF Last
  <2> QED
    BY <1>2, <2>1 DEF Calls, Messages, Calling
<1>4. PICK sizes \in [DOMAIN Calls(req[q]) -> Sizes] :
         LET n == Added(req[q], sizes)
             r == [req[q] EXCEPT !.len = Grown(req[q], sizes, n),
                                 !.prompt = @ + Heard(sizes, n),
                                 !.messages = @ \o Responses(req[q], n)]
         IN  IF Full(r.len)
             THEN /\ req' = [req EXCEPT ![q] = Leave(r, "stop")]
                  /\ UNCHANGED <<sampling_params, error>>
             ELSE CallEngine(q, r)
  BY DEF ToolsAnswered
<1> DEFINE n == Added(req[q], sizes)
           m == req[q].messages \o Responses(req[q], n)
           r == [req[q] EXCEPT !.len = Grown(req[q], sizes, n),
                               !.prompt = req[q].prompt + Heard(sizes, n), !.messages = m]
<1>5. IF Full(r.len)
      THEN req' = [req EXCEPT ![q] = Leave(r, "stop")] /\ UNCHANGED <<sampling_params, error>>
      ELSE CallEngine(q, r)
  BY <1>2, <1>4 DEF Request
<1>6. n \in 1 .. Len(Calls(req[q])) /\ (~Full(Grown(req[q], sizes, n)) => n = Len(Calls(req[q])))
  BY <1>2, <1>3, AddedResponses
<1> HIDE DEF n
<1>7. /\ Heard(sizes, n) \in Nat /\ Grown(req[q], sizes, n) \in Nat
      /\ Grown(req[q], sizes, n) = req[q].len + Heard(sizes, n)
  BY <1>2, <1>3, <1>6, GrownIsNat
<1>8. /\ m \in Seq(Messages) /\ Follows(m) /\ m # <<>> /\ Last(m).role = "tool"
      /\ n = Len(Calls(req[q])) => AllAnswered(m)
  BY <1>2, <1>6, ResponsesFollow
<1>a. req[q].prompt + Heard(sizes, n) \in Int
  BY <1>2, <1>7 DEF Request
<1> HIDE DEF m
<1>9. r \in Request /\ r.len = Grown(req[q], sizes, n) /\ r.messages = m /\ r.pc = "tools"
      /\ r.answered = req[q].answered /\ r.turns = req[q].turns /\ r.cut = req[q].cut
      /\ r.ends = req[q].ends /\ r.prompt = req[q].prompt + Heard(sizes, n)
  <2> DEFINE grown == Grown(req[q], sizes, n)
             prompt == req[q].prompt + Heard(sizes, n)
  <2>1. grown \in Nat /\ prompt \in Int
    BY <1>7, <1>a
  <2>2. r = [req[q] EXCEPT !.len = grown, !.prompt = prompt, !.messages = m]
    OBVIOUS
  <2> HIDE DEF grown, prompt, r
  <2>3. r \in Request /\ r.len = grown /\ r.messages = m /\ r.pc = req[q].pc
        /\ r.answered = req[q].answered /\ r.turns = req[q].turns /\ r.cut = req[q].cut
        /\ r.ends = req[q].ends /\ r.prompt = prompt
    BY <1>2, <1>8, <2>1, <2>2 DEF Request
  <2> QED
    BY <1>1, <2>3 DEF grown, prompt
<1> HIDE DEF r
<1>10. Valid(r)
  BY <1>1, <1>8, <1>9 DEF Valid
<1>11. batch' = batch
  BY DEF ToolsAnswered
<1>12. CASE Full(r.len)
  <2>1. req' = [req EXCEPT ![q] = Leave(r, "stop")] /\ UNCHANGED <<sampling_params, error>>
    BY <1>5, <1>12
  <2>2. Valid(Leave(r, "stop")) /\ Poised(Leave(r, "stop"))
    BY <1>10, LeaveDialogue
  <2> QED
    BY <1>1, <1>11, <2>1, <2>2, RequestMoves DEF DialogueInv, Errors
<1>13. CASE ~Full(r.len)
  <2>1. CallEngine(q, r) /\ AllAnswered(r.messages) /\ r.turns < MaxTurns
    BY <1>2, <1>5, <1>6, <1>8, <1>9, <1>13
  <2>2. NotFull(r)
    BY <1>7, <1>8, <1>9, <1>13, Lengths DEF NotFull, Full
  <2>3. Accounted(r)
    <3> DEFINE drifted == Drift * req[q].turns
    <3>1. req[q].turns \in Nat /\ req[q].len \in Nat /\ req[q].cut \in Nat
          /\ req[q].prompt \in Int /\ req[q].turns > 0
      BY <1>2 DEF Request
    <3>2. drifted \in Nat
      BY <3>1, DriftGrows
    <3>3. req[q].ends = "message" /\ req[q].prompt <= req[q].len + req[q].cut + OpeningLen + drifted
      BY <1>1, <3>1 DEF Poised, Accounted
    <3> HIDE DEF drifted
    <3>4. r.prompt <= r.len + r.cut + OpeningLen + drifted
      BY <1>7, <1>9, <3>1, <3>2, <3>3, Lengths
    <3> QED
      BY <1>9, <3>1, <3>3, <3>4 DEF Accounted, drifted
  <2> QED
    BY <1>1, <1>10, <1>11, <2>1, <2>2, <2>3, EngineDialogue
<1> QED
  BY <1>12, <1>13

(* The steps that leave the dialogue alone. *)
LEMMA ToolDialogue ==
    ASSUME DialogueInv, NEW q \in Requests, NEW t \in ToolsOf[q],
           Create(q, t) \/ Reward(q, t) \/ Release(q, t)
    PROVE  DialogueInv'
<1>1. Valid(req[q]) /\ Poised(req[q]) /\ Running /\ error = "none" /\ DOMAIN req = Requests
  BY DEF DialogueInv, Create, Reward, Release, Running
<1>2. PICK s \in ToolStates : req' = [req EXCEPT ![q].tools[t] = s]
  BY DEF Create, Reward, Release, ToolStates
<1> DEFINE tools == [req[q].tools EXCEPT ![t] = s]
           r == [req[q] EXCEPT !.tools = tools]
<1>3. req' = [req EXCEPT ![q] = r]
  BY <1>1, <1>2
<1>4. tools \in [Tools -> ToolStates]
  BY <1>1 DEF Valid, Request
<1> HIDE DEF tools
<1>5. r \in Request /\ r.answered = req[q].answered /\ r.pc = req[q].pc
      /\ r.messages = req[q].messages /\ r.turns = req[q].turns /\ r.len = req[q].len
      /\ r.cut = req[q].cut /\ r.ends = req[q].ends /\ r.prompt = req[q].prompt
  BY <1>1, <1>4 DEF Valid, Request
<1> HIDE DEF r
<1>6. Valid(r) /\ Poised(r)
  BY <1>1, <1>5 DEF Valid, Poised, Accounted, Calls, MaxNewTokens, Room
<1>7. UNCHANGED <<batch, sampling_params, error>>
  BY DEF Create, Reward, Release
<1> QED
  BY <1>1, <1>3, <1>6, <1>7, RequestMoves DEF DialogueInv, Errors

LEMMA FinalizeDialogue ==
    ASSUME DialogueInv, NEW q \in Requests, Finalize(q)
    PROVE  DialogueInv'
<1> DEFINE r == [req[q] EXCEPT !.pc = "done", !.len = Truncated(@)]
<1>1. Valid(req[q]) /\ Running /\ DOMAIN req = Requests
  BY DEF DialogueInv, Finalize
<1>2. Truncated(req[q].len) \in Nat
  <2>1. {req[q].len, MaxModelLen, PromptLen + ResponseLen} \in SUBSET Nat
    BY <1>1, Lengths DEF Valid, Request
  <2> QED
    BY <2>1, MinOfNaturals DEF Truncated
<1>3. r \in Request /\ r.answered = req[q].answered /\ r.pc = "done"
      /\ r.messages = req[q].messages
  BY <1>1, <1>2 DEF Valid, Request, PCs
<1>4. req' = [req EXCEPT ![q] = r] /\ batch' = batch /\ sampling_params' = sampling_params
      /\ error' \in {"none", "finish"}
  BY <1>1 DEF Finalize
<1> HIDE DEF r
<1>5. Valid(r) /\ Poised(r)
  BY <1>1, <1>3 DEF Valid, Poised
<1> QED
  BY <1>1, <1>4, <1>5, RequestMoves DEF DialogueInv, Errors

LEMMA FreshDialogue ==
    ASSUME NEW p \in Prompts
    PROVE  Valid(Fresh(p)) /\ Poised(Fresh(p))
<1> DEFINE kept == Min({p.tokens, PromptLen})
           r == Fresh(p)
<1>1. p.tokens \in Nat /\ p.ends \in Ends
  BY PromptsAssumption
<1>2. kept \in Nat /\ kept <= PromptLen /\ p.tokens - kept \in Nat
  <2>1. {p.tokens, PromptLen} \in SUBSET Nat
    BY <1>1, Lengths
  <2>2. kept \in {p.tokens, PromptLen} /\ kept <= p.tokens /\ kept <= PromptLen
    BY <2>1, MinOfNaturals
  <2> HIDE DEF kept
  <2> QED
    BY <1>1, <2>2, Lengths
<1>3. r = [pc |-> "pending", turns |-> 0, finish |-> "none",
           len |-> kept, cut |-> p.tokens - kept, ends |-> p.ends, prompt |-> p.tokens,
           messages |-> <<>>, answered |-> <<>>, saved |-> "train",
           tools |-> [t \in Tools |-> "absent"]]
  BY DEF Fresh
<1> HIDE DEF kept
<1>4. /\ r \in Request /\ r.messages = <<>> /\ r.answered = <<>> /\ r.turns = 0
      /\ r.pc = "pending" /\ r.prompt = r.len + r.cut /\ r.len <= PromptLen
  BY <1>1, <1>2, <1>3, Lengths DEF Request, PCs, Modes, ToolStates
<1> HIDE DEF r
<1>5. Valid(r)
  BY <1>4 DEF Valid, Follows, Distinct
<1>6. Poised(r)
  BY <1>4, Lengths DEF Poised, Accounted
<1> QED
  BY <1>5, <1>6 DEF r

-----------------------------------------------------------------------------
LEMMA DialogueInitially == Init => DialogueInv
<1>1. 1 \in DOMAIN Batches
  BY BatchesAssumption
<1> QED
  BY <1>1, FreshDialogue DEF Init, FreshRequests, DialogueInv, Errors, Modes

LEMMA DialogueInductive == DialogueInv /\ [Next]_vars => DialogueInv'
<1> SUFFICES ASSUME DialogueInv, [Next]_vars PROVE DialogueInv'
  OBVIOUS
<1>1. ASSUME NEW q \in Requests, Coroutine(q) PROVE DialogueInv'
  BY <1>1, StartDialogue, RunDialogue, AnswerDialogue, FailedAnswerDialogue,
     ToolsAnsweredDialogue, FinalizeDialogue DEF Coroutine
<1>2. ASSUME NEW q \in Requests, Tool(q) PROVE DialogueInv'
  <2>1. ASSUME NEW i, ExecuteRaises(q, i) PROVE DialogueInv'
    <3>1. UNCHANGED <<batch, req, sampling_params>> /\ error' = "tool raised"
      BY <2>1 DEF ExecuteRaises
    <3> QED
      BY <3>1 DEF DialogueInv, Errors, Running
  <2> QED
    BY <1>2, <2>1, ToolDialogue, ExecuteDialogue DEF Tool
<1>3. CASE NextBatch
  <2>1. /\ batch < Len(Batches) /\ batch' = batch + 1 /\ FreshRequests(req')
        /\ UNCHANGED <<sampling_params, error>> /\ error = "none"
    BY <1>3 DEF NextBatch, Running
  <2>2. batch' \in DOMAIN Batches
    BY <2>1, BatchesAssumption DEF DialogueInv
  <2>3. PICK prompts \in [Requests -> Prompts] :
            req' = [q \in Requests |-> Fresh(prompts[q])]
    BY <2>1 DEF FreshRequests
  <2>4. \A q \in Requests : Valid(req'[q]) /\ Poised(req'[q])
    BY <2>3, FreshDialogue
  <2> QED
    BY <2>1, <2>2, <2>3, <2>4 DEF DialogueInv
<1>4. CASE UNCHANGED vars
  BY <1>4 DEF vars, DialogueInv, Running
<1> QED
  BY <1>1, <1>2, <1>3, <1>4 DEF Next, Step, Finished

(* DialogueInv holds in every state of every behaviour. *)
THEOREM AsyncDialogueInvariant == Spec => []DialogueInv
  BY DialogueInitially, DialogueInductive, PTL DEF Spec

(* A reply has no more answers than calls: they are distinct calls of it. *)
LEMMA AnswersAreBounded ==
    ASSUME NEW a \in Seq(1 .. MaxCalls), Distinct(a)
    PROVE  Len(a) <= MaxCalls
<1>1. Len(a) <= Cardinality(1 .. MaxCalls)
  BY Lengths, FS_Interval, DistinctElements DEF Distinct
<1>2. Cardinality(1 .. MaxCalls) = MaxCalls
  BY Lengths, FS_Interval
<1> QED
  BY <1>1, <1>2

(* TypeOK, for all the constants: in particular no request takes more turns
   than it may, and no call of a reply is answered twice. *)
THEOREM AsyncTypeOK == Spec => []TypeOK
  <1>1. DialogueInv => TypeOK
    BY AnswersAreBounded DEF DialogueInv, Valid, Request, TypeOK, Errors, PCs
  <1> QED
    BY <1>1, AsyncDialogueInvariant, PTL

(* ResponsesFollowTheCalls, for all the constants: whatever the order in which
   the tools answer, every response stands behind the reply that asked for it,
   at the place of its call, and the model speaks again only behind the last. *)
THEOREM AsyncResponsesFollowTheCalls == Spec => []ResponsesFollowTheCalls
  <1>1. DialogueInv => ResponsesFollowTheCalls
    BY DEF DialogueInv, Valid, Follows, ResponsesFollowTheCalls
  <1> QED
    BY <1>1, AsyncDialogueInvariant, PTL

(* RefusedOnlyNearTheLimit, for all the constants: the engine refuses a prompt
   only when the prompt of the data was cut, or behind tool responses that end
   below the limit by no more than the opening mark, what was cut and the drift. *)
THEOREM AsyncRefusedOnlyNearTheLimit == Spec => []RefusedOnlyNearTheLimit
  <1>1. DialogueInv => RefusedOnlyNearTheLimit
    BY DEF DialogueInv, NearTheLimit, RefusedOnlyNearTheLimit
  <1> QED
    BY <1>1, AsyncDialogueInvariant, PTL
=============================================================================

------------------------------ MODULE RateLimit ------------------------------
(***************************************************************************)
(* The tools that run their calls in a pool of threads, and the one actor  *)
(* that limits how many of the calls of all the tools run at a time        *)
(* (verl/tools/search_tool.py, verl/tools/sandbox_fusion_tools.py).  A     *)
(* call waits for a thread of the pool of its tool, asks the actor for a   *)
(* token, executes its function, gives the token back and answers.  The    *)
(* actor executes acquire on one thread and release on others.             *)
(***************************************************************************)
EXTENDS Integers, Sequences, FiniteSets

CONSTANTS
    Tools, SearchTools, \* the others are SandboxFusionTools
    LimitedTools,       \* with enable_global_rate_limit
    Calls,
    ToolOf,             \* the tool of a call
    RateOf,             \* rate_limit of a tool
    NumWorkers          \* num_workers of a tool

ASSUME RateLimitAssumption ==
    /\ SearchTools \subseteq Tools /\ LimitedTools \subseteq Tools
    /\ IsFiniteSet(Calls)
    /\ ToolOf \in [Calls -> Tools]
    /\ RateOf \in [Tools -> Nat \ {0}]
    /\ NumWorkers \in [Tools -> Nat \ {0}]

VARIABLES
    created,        \* the tools there are
    rate_limit,     \* of the actor; 0 as long as there is no actor
    semaphore,
    acquires,       \* the calls of acquire the actor has not executed
    call,           \* how far a call is
    token           \* what it has of the bucket

vars == <<created, rate_limit, semaphore, acquires, call, token>>

Limited(c) == ToolOf[c] \in LimitedTools
Search(c) == ToolOf[c] \in SearchTools

Init ==
    /\ created = {}
    /\ rate_limit = 0
    /\ semaphore = 0
    /\ acquires = <<>>
    /\ call = [c \in Calls |-> "new"]
    /\ token = [c \in Calls |-> "none"]

-----------------------------------------------------------------------------
(* TokenBucketWorker.options(name="rate-limiter", get_if_exists=True): the
   first tool with a limit makes the actor. *)
AlwaysAnother(t) == t \in LimitedTools                         \* mutant
MakesActor(t) == t \in LimitedTools /\ rate_limit = 0

CreateTool(t) ==
    /\ t \notin created
    /\ created' = created \cup {t}
    /\ rate_limit' = IF MakesActor(t) THEN RateOf[t] ELSE rate_limit
    /\ semaphore' = IF MakesActor(t) THEN RateOf[t] ELSE semaphore
    /\ UNCHANGED <<acquires, call, token>>

(* The execute of a tool, up to its await; without queries SearchTool
   answers at once. *)
Submit(c) ==
    /\ call[c] = "new"
    /\ ToolOf[c] \in created
    /\ \/ call' = [call EXCEPT ![c] = "submitted"]
       \/ Search(c) /\ call' = [call EXCEPT ![c] = "error text"]
    /\ UNCHANGED <<created, rate_limit, semaphore, acquires, token>>

(* The execute of a worker.  That of SearchTool does without the actor when
   there is no limit; that of SandboxFusionTool looks for None.release. *)
OnThread(t) == { c \in Calls : ToolOf[c] = t /\ call[c] \in {"acquiring", "running"} }

Begin(c) ==
    /\ call[c] = "submitted"
    /\ Cardinality(OnThread(ToolOf[c])) < NumWorkers[ToolOf[c]]
    /\ \/ /\ Limited(c)
          /\ call' = [call EXCEPT ![c] = "acquiring"]
          /\ acquires' = Append(acquires, c)
       \/ /\ ~Limited(c)
          /\ call' = [call EXCEPT ![c] = IF Search(c) THEN "running" ELSE "raised"]
          /\ UNCHANGED acquires
    /\ UNCHANGED <<created, rate_limit, semaphore, token>>

Acquire ==
    /\ acquires # <<>>
    /\ semaphore > 0
    /\ semaphore' = semaphore - 1
    /\ acquires' = Tail(acquires)
    /\ call' = [call EXCEPT ![Head(acquires)] = "running"]
    /\ token' = [token EXCEPT ![Head(acquires)] = "held"]
    /\ UNCHANGED <<created, rate_limit>>

(* The function returns or raises; whichever it does, the ExitStack calls
   release and does not wait for it.  An exception of the function becomes
   the result None with the limit and goes to the caller without. *)
Execute(c) ==
    /\ call[c] = "running"
    /\ \E result \in {"value", IF Limited(c) THEN "None" ELSE "exception"} :
           /\ call' = [call EXCEPT ![c] = result]
           /\ token' = [token EXCEPT ![c] = IF Limited(c) THEN "returning" ELSE @]
    /\ UNCHANGED <<created, rate_limit, semaphore, acquires>>

AcquireThreadIsFree == acquires = <<>>                         \* mutant
ReleaseThreadIsFree == TRUE

Release(c) ==
    /\ token[c] = "returning"
    /\ ReleaseThreadIsFree
    /\ semaphore' = semaphore + 1
    /\ token' = [token EXCEPT ![c] = "none"]
    /\ UNCHANGED <<created, rate_limit, acquires, call>>

(* The rest of the execute of a tool.  SearchTool turns the exception, and
   the failure to unpack None, into a text; SandboxFusionTool does not. *)
Answer(c) ==
    /\ \/ /\ call[c] = "value"
          /\ call' = [call EXCEPT ![c] = "answered"]
       \/ /\ call[c] \in {"None", "exception"}
          /\ call' = [call EXCEPT ![c] = IF Search(c) THEN "error text" ELSE "raised"]
    /\ UNCHANGED <<created, rate_limit, semaphore, acquires, token>>

Next ==
    \/ \E t \in Tools : CreateTool(t)
    \/ Acquire
    \/ \E c \in Calls : Submit(c) \/ Begin(c) \/ Execute(c) \/ Release(c) \/ Answer(c)

(* Functions end: the tools give their requests a timeout. *)
Fairness ==
    /\ WF_vars(Acquire)
    /\ \A c \in Calls : WF_vars(Begin(c) \/ Execute(c) \/ Answer(c)) /\ WF_vars(Release(c))

Spec == Init /\ [][Next]_vars
FairSpec == Spec /\ Fairness

-----------------------------------------------------------------------------
Ended == {"answered", "error text", "raised"}

TypeOK ==
    /\ created \subseteq Tools
    /\ rate_limit \in Nat
    /\ semaphore \in Nat
    /\ acquires \in Seq(Calls)
    /\ call \in [Calls -> {"new", "submitted", "acquiring", "running",
                           "value", "None", "exception"} \cup Ended]
    /\ token \in [Calls -> {"none", "held", "returning"}]

(* The actor and its clients keep the promise of a bucket: the calls that
   have a token, and those whose token is on its way back, never exceed the
   limit of the first tool, and the tokens go to the calls in the order in
   which these asked for them, whatever tool they come from. *)
WithToken == { c \in Calls : token[c] # "none" }
Bucket == INSTANCE TokenBucket WITH
    Limits <- Nat, limit <- rate_limit, waiting <- acquires, inside <- WithToken
ImplementsBucket == Bucket!Spec

(* No call waits for ever: neither for a thread nor for a token, also when
   functions raise and when one thread waits in acquire for all that follow. *)
EveryCallEnds == \A c \in Calls : call[c] = "submitted" ~> call[c] \in Ended
=============================================================================

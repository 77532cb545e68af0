-------------------------- MODULE RateLimitProofs --------------------------
(***************************************************************************)
(* RateLimit for every set of tools and of calls, and every limit: the     *)
(* semaphore and the tokens given out add up to the limit, and so the      *)
(* limiter implements a token bucket.                                      *)
(***************************************************************************)
EXTENDS RateLimit, FiniteSetTheorems, TLAPS

(* No token is lost and none comes from nowhere. *)
TokensAddUp == semaphore + Cardinality(WithToken) = rate_limit

(* Only a call with a limit has a token, and only after it has asked once. *)
OneTokenEach ==
    /\ \A c \in Calls : call[c] \in {"new", "submitted", "acquiring"} => token[c] = "none"
    /\ \A c \in Calls : call[c] = "running" /\ Limited(c) => token[c] = "held"
    /\ \A j \in DOMAIN acquires : call[acquires[j]] = "acquiring"
    /\ \A j, k \in DOMAIN acquires : acquires[j] = acquires[k] => j = k

LimiterInv == TypeOK /\ TokensAddUp /\ OneTokenEach

-----------------------------------------------------------------------------
LEMMA WithTokenIsFinite == IsFiniteSet(WithToken) /\ Cardinality(WithToken) \in Nat
<1>1. WithToken \subseteq Calls
  BY DEF WithToken
<1> QED
  BY <1>1, RateLimitAssumption, FS_Subset, FS_CardinalityType

(* The same for the next state. *)
LEMMA WithTokenIsFinite2 ==
    ASSUME NEW T, T \subseteq Calls
    PROVE  IsFiniteSet(T) /\ Cardinality(T) \in Nat
BY RateLimitAssumption, FS_Subset, FS_CardinalityType

LEMMA InitInv == Init => LimiterInv
<1> SUFFICES ASSUME Init PROVE LimiterInv
  OBVIOUS
<1>1. TypeOK
  BY DEF Init, TypeOK, Ended
<1>2. WithToken = {}
  BY DEF Init, WithToken
<1>3. TokensAddUp
  BY <1>2, FS_EmptySet DEF Init, TokensAddUp
<1>4. OneTokenEach
  BY DEF Init, OneTokenEach
<1> QED
  BY <1>1, <1>3, <1>4 DEF LimiterInv

LEMMA HeadAndTail ==
    ASSUME NEW S, NEW s \in Seq(S), s # <<>>
    PROVE  Head(s) \in S /\ Tail(s) \in Seq(S)
OBVIOUS

LEMMA TypeStep == TypeOK /\ [Next]_vars => TypeOK'
<1> SUFFICES ASSUME TypeOK, [Next]_vars PROVE TypeOK'
  OBVIOUS
<1> DEFINE Where == {"new", "submitted", "acquiring", "running", "value", "None", "exception"}
                    \cup Ended
           Has == {"none", "held", "returning"}
<1>1. /\ call \in [Calls -> Where] /\ token \in [Calls -> Has]
      /\ created \subseteq Tools /\ rate_limit \in Nat /\ semaphore \in Nat
      /\ acquires \in Seq(Calls)
  BY DEF TypeOK
<1>0. /\ \A w \in {"submitted", "acquiring", "running", "value", "None", "exception",
                    "answered", "error text", "raised"} : w \in Where
      /\ \A h \in {"none", "held", "returning"} : h \in Has
  BY DEF Ended
<1>2. /\ \A c \in Calls, w \in Where : [call EXCEPT ![c] = w] \in [Calls -> Where]
      /\ \A c \in Calls, h \in Has : [token EXCEPT ![c] = h] \in [Calls -> Has]
  BY <1>1
<1> HIDE DEF Where, Has
<1>3. ASSUME NEW t \in Tools, CreateTool(t) PROVE TypeOK'
  <2>1. RateOf[t] \in Nat
    BY RateLimitAssumption
  <2> QED
    BY <1>1, <1>3, <2>1 DEF CreateTool, TypeOK, Where, Has
<1>4. ASSUME Acquire PROVE TypeOK'
  <2>1. Head(acquires) \in Calls /\ Tail(acquires) \in Seq(Calls)
    BY <1>1, <1>4, HeadAndTail DEF Acquire
  <2>2. semaphore > 0 /\ semaphore' = semaphore - 1
    BY <1>4 DEF Acquire
  <2>3. semaphore' \in Nat
    BY <1>1, <2>2
  <2>4. call' \in [Calls -> Where] /\ token' \in [Calls -> Has]
    BY <1>0, <1>2, <1>4, <2>1 DEF Acquire
  <2>5. UNCHANGED <<created, rate_limit>> /\ acquires' = Tail(acquires)
    BY <1>4 DEF Acquire
  <2> QED
    BY <1>1, <2>1, <2>3, <2>4, <2>5 DEF TypeOK, Where, Has
<1>5. ASSUME NEW c \in Calls, Submit(c) PROVE TypeOK'
  <2>1. call' \in [Calls -> Where]
    BY <1>0, <1>2, <1>5 DEF Submit
  <2> QED
    BY <1>1, <1>5, <2>1 DEF Submit, TypeOK, Where, Has
<1>6. ASSUME NEW c \in Calls, Begin(c) PROVE TypeOK'
  <2>1. call' \in [Calls -> Where]
    <3>1. PICK w \in {"acquiring", "running", "raised"} : call' = [call EXCEPT ![c] = w]
      BY <1>6 DEF Begin
    <3>2. w \in Where
      BY <1>0, <3>1
    <3> QED
      BY <1>2, <3>1, <3>2
  <2>2. acquires' \in Seq(Calls)
    <3>1. acquires' = Append(acquires, c) \/ acquires' = acquires
      BY <1>6 DEF Begin
    <3>2. Append(acquires, c) \in Seq(Calls)
      BY <1>1
    <3> QED
      BY <1>1, <3>1, <3>2
  <2> QED
    BY <1>1, <1>6, <2>1, <2>2 DEF Begin, TypeOK, Where, Has
<1>7. ASSUME NEW c \in Calls, Execute(c) PROVE TypeOK'
  <2>1. PICK result \in {"value", "None", "exception"} :
            /\ call' = [call EXCEPT ![c] = result]
            /\ token' = [token EXCEPT ![c] = IF Limited(c) THEN "returning" ELSE token[c]]
    BY <1>7 DEF Execute
  <2>2. token[c] \in Has
    BY <1>1
  <2>3. call' \in [Calls -> Where] /\ token' \in [Calls -> Has]
    BY <1>0, <1>2, <2>1, <2>2
  <2> QED
    BY <1>1, <1>7, <2>3 DEF Execute, TypeOK, Where, Has
<1>8. ASSUME NEW c \in Calls, Release(c) PROVE TypeOK'
  <2>1. token' \in [Calls -> Has]
    BY <1>0, <1>2, <1>8 DEF Release
  <2>2. semaphore' = semaphore + 1 /\ semaphore \in Nat
    BY <1>1, <1>8 DEF Release
  <2> QED
    BY <1>1, <1>8, <2>1, <2>2 DEF Release, TypeOK, Where, Has
<1>9. ASSUME NEW c \in Calls, Answer(c) PROVE TypeOK'
  <2>1. call' \in [Calls -> Where]
    <3>1. PICK w \in {"answered", "error text", "raised"} : call' = [call EXCEPT ![c] = w]
      BY <1>9 DEF Answer
    <3>2. w \in Where
      BY <1>0, <3>1
    <3> QED
      BY <1>2, <3>1, <3>2
  <2> QED
    BY <1>1, <1>9, <2>1 DEF Answer, TypeOK, Where, Has
<1>10. CASE UNCHANGED vars
  BY <1>1, <1>10 DEF vars, TypeOK, Where, Has
<1> QED
  BY <1>3, <1>4, <1>5, <1>6, <1>7, <1>8, <1>9, <1>10 DEF Next

-----------------------------------------------------------------------------
(* What every step does to the tokens. *)
LEMMA CreateToolSets ==
    ASSUME LimiterInv, NEW t \in Tools, CreateTool(t)
    PROVE  /\ WithToken' = WithToken /\ acquires' = acquires
           /\ TokensAddUp'
           /\ rate_limit' = rate_limit \/ (rate_limit = 0 /\ rate_limit' \in Nat)
<1>1. WithToken' = WithToken
  BY DEF CreateTool, WithToken
<1>2. CASE MakesActor(t)
  <2>1. rate_limit' = RateOf[t] /\ semaphore' = RateOf[t] /\ RateOf[t] \in Nat
    BY <1>2, RateLimitAssumption DEF CreateTool
  <2>2. rate_limit = 0 /\ Cardinality(WithToken) = 0
    BY <1>2, WithTokenIsFinite DEF LimiterInv, TokensAddUp, TypeOK, MakesActor
  <2> QED
    BY <1>1, <2>1, <2>2 DEF TokensAddUp, CreateTool
<1>3. CASE ~MakesActor(t)
  BY <1>1, <1>3 DEF CreateTool, LimiterInv, TokensAddUp
<1> QED
  BY <1>1, <1>2, <1>3 DEF CreateTool

LEMMA AcquireTakes ==
    ASSUME LimiterInv, Acquire
    PROVE  /\ WithToken' = WithToken \cup {Head(acquires)}
           /\ Cardinality(WithToken) < rate_limit
           /\ TokensAddUp'
           /\ OneTokenEach'
<1> DEFINE c == Head(acquires)
<1>1. acquires # <<>> /\ acquires \in Seq(Calls) /\ c = acquires[1] /\ 1 \in DOMAIN acquires
  BY DEF Acquire, LimiterInv, TypeOK
<1>2. c \in Calls /\ call[c] = "acquiring" /\ token[c] = "none"
  BY <1>1 DEF LimiterInv, OneTokenEach
<1>3. /\ call' = [call EXCEPT ![c] = "running"]
      /\ token' = [token EXCEPT ![c] = "held"]
      /\ acquires' = Tail(acquires)
      /\ semaphore' = semaphore - 1 /\ semaphore > 0 /\ semaphore \in Nat
      /\ rate_limit' = rate_limit /\ rate_limit \in Nat
  BY DEF Acquire, LimiterInv, TypeOK
<1>4. DOMAIN token = Calls /\ DOMAIN call = Calls
  BY DEF LimiterInv, TypeOK
<1> HIDE DEF c
<1>5. WithToken' = WithToken \cup {c} /\ c \notin WithToken
  BY <1>2, <1>3, <1>4 DEF WithToken
<1>6. Cardinality(WithToken') = Cardinality(WithToken) + 1
  BY <1>5, WithTokenIsFinite, FS_AddElement
<1>7. TokensAddUp' /\ Cardinality(WithToken) < rate_limit
  BY <1>3, <1>6, WithTokenIsFinite DEF LimiterInv, TokensAddUp
<1>8. \A j \in DOMAIN acquires' : j + 1 \in DOMAIN acquires /\ acquires'[j] = acquires[j + 1]
  BY <1>1, <1>3
<1>9. OneTokenEach'
  <2>1. \A d \in Calls : d # c => call'[d] = call[d] /\ token'[d] = token[d]
    BY <1>3, <1>4
  <2>2. call'[c] = "running" /\ token'[c] = "held"
    BY <1>2, <1>3, <1>4
  <2>3. \A j \in DOMAIN acquires' : acquires'[j] # c /\ call'[acquires'[j]] = "acquiring"
    <3> SUFFICES ASSUME NEW j \in DOMAIN acquires'
                 PROVE  acquires'[j] # c /\ call'[acquires'[j]] = "acquiring"
      OBVIOUS
    <3>1. j \in Nat /\ j + 1 # 1 /\ j + 1 \in DOMAIN acquires /\ acquires'[j] = acquires[j + 1]
      BY <1>1, <1>3, <1>8
    <3>2. acquires[j + 1] # c /\ call[acquires[j + 1]] = "acquiring" /\ acquires[j + 1] \in Calls
      BY <1>1, <3>1 DEF LimiterInv, OneTokenEach
    <3> QED
      BY <2>1, <3>1, <3>2
  <2>4. \A j, k \in DOMAIN acquires' : acquires'[j] = acquires'[k] => j = k
    <3> SUFFICES ASSUME NEW j \in DOMAIN acquires', NEW k \in DOMAIN acquires',
                        acquires'[j] = acquires'[k]
                 PROVE  j = k
      OBVIOUS
    <3>1. j + 1 = k + 1
      BY <1>8 DEF LimiterInv, OneTokenEach
    <3>2. j \in Nat /\ k \in Nat
      BY <1>1, <1>3
    <3> QED
      BY <3>1, <3>2
  <2>5. ASSUME NEW d \in Calls
        PROVE  /\ call'[d] \in {"new", "submitted", "acquiring"} => token'[d] = "none"
               /\ call'[d] = "running" /\ Limited(d) => token'[d] = "held"
    BY <2>1, <2>2 DEF LimiterInv, OneTokenEach
  <2> QED
    BY <2>3, <2>4, <2>5 DEF OneTokenEach, Limited
<1> QED
  BY <1>5, <1>7, <1>9 DEF c

LEMMA BeginAsks ==
    ASSUME LimiterInv, NEW c \in Calls, Begin(c)
    PROVE  /\ WithToken' = WithToken /\ rate_limit' = rate_limit
           /\ acquires' = Append(acquires, c) \/ acquires' = acquires
           /\ TokensAddUp'
           /\ OneTokenEach'
<1>1. WithToken' = WithToken /\ rate_limit' = rate_limit /\ semaphore' = semaphore
  BY DEF Begin, WithToken
<1>2. TokensAddUp'
  BY <1>1 DEF LimiterInv, TokensAddUp
<1>3. DOMAIN call = Calls /\ acquires \in Seq(Calls) /\ call[c] = "submitted" /\ token' = token
  BY DEF LimiterInv, TypeOK, Begin
<1>4. CASE Limited(c) /\ call' = [call EXCEPT ![c] = "acquiring"] /\ acquires' = Append(acquires, c)
  <2>1. \A j \in DOMAIN acquires : acquires[j] # c /\ acquires[j] \in Calls
    BY <1>3 DEF LimiterInv, OneTokenEach
  <2>2. /\ DOMAIN acquires' = 1 .. Len(acquires) + 1 /\ DOMAIN acquires = 1 .. Len(acquires)
        /\ acquires'[Len(acquires) + 1] = c
        /\ \A j \in DOMAIN acquires : acquires'[j] = acquires[j]
    BY <1>3, <1>4
  <2>3. call'[c] = "acquiring" /\ \A d \in Calls : d # c => call'[d] = call[d]
    BY <1>3, <1>4
  <2>4. \A j \in DOMAIN acquires' : call'[acquires'[j]] = "acquiring"
    BY <2>1, <2>2, <2>3 DEF LimiterInv, OneTokenEach
  <2>5. \A j, k \in DOMAIN acquires' : acquires'[j] = acquires'[k] => j = k
    BY <2>1, <2>2 DEF LimiterInv, OneTokenEach
  <2> QED
    BY <1>1, <1>2, <1>3, <1>4, <2>3, <2>4, <2>5 DEF LimiterInv, OneTokenEach, Limited
<1>5. CASE ~Limited(c) /\ acquires' = acquires
           /\ call' = [call EXCEPT ![c] = IF Search(c) THEN "running" ELSE "raised"]
  <2>1. \A d \in Calls : d # c => call'[d] = call[d]
    BY <1>3, <1>5
  <2>2. call'[c] \in {"running", "raised"}
    BY <1>3, <1>5
  <2>3. \A j \in DOMAIN acquires : acquires[j] # c /\ acquires[j] \in Calls
    BY <1>3 DEF LimiterInv, OneTokenEach
  <2> QED
    BY <1>1, <1>2, <1>3, <1>5, <2>1, <2>2, <2>3 DEF LimiterInv, OneTokenEach, Limited
<1> QED
  BY <1>4, <1>5 DEF Begin

LEMMA ExecuteKeeps ==
    ASSUME LimiterInv, NEW c \in Calls, Execute(c)
    PROVE  /\ WithToken' = WithToken /\ rate_limit' = rate_limit /\ acquires' = acquires
           /\ TokensAddUp'
           /\ OneTokenEach'
<1>1. PICK result \in {"value", "None", "exception"} :
          /\ call' = [call EXCEPT ![c] = result]
          /\ token' = [token EXCEPT ![c] = IF Limited(c) THEN "returning" ELSE token[c]]
  BY DEF Execute
<1>2. /\ DOMAIN call = Calls /\ DOMAIN token = Calls /\ acquires \in Seq(Calls)
      /\ call[c] = "running"
      /\ rate_limit' = rate_limit /\ semaphore' = semaphore /\ acquires' = acquires
  BY DEF LimiterInv, TypeOK, Execute
<1>3. Limited(c) => token[c] = "held"
  BY <1>2 DEF LimiterInv, OneTokenEach
<1>4. \A d \in Calls : d # c => call'[d] = call[d] /\ token'[d] = token[d]
  BY <1>1, <1>2
<1>5. /\ call'[c] \in {"value", "None", "exception"}
      /\ token'[c] # "none" <=> token[c] # "none"
  BY <1>1, <1>2, <1>3
<1>6. WithToken' = WithToken
  BY <1>4, <1>5 DEF WithToken
<1>7. TokensAddUp'
  BY <1>2, <1>6 DEF LimiterInv, TokensAddUp
<1>8. \A j \in DOMAIN acquires : acquires[j] # c /\ acquires[j] \in Calls
  BY <1>2 DEF LimiterInv, OneTokenEach
<1>9. OneTokenEach'
  BY <1>2, <1>4, <1>5, <1>8 DEF LimiterInv, OneTokenEach, Limited
<1> QED
  BY <1>2, <1>6, <1>7, <1>9

LEMMA ReleaseGives ==
    ASSUME LimiterInv, NEW c \in Calls, Release(c)
    PROVE  /\ WithToken' = WithToken \ {c} /\ rate_limit' = rate_limit /\ acquires' = acquires
           /\ TokensAddUp'
           /\ OneTokenEach'
<1>1. /\ DOMAIN call = Calls /\ DOMAIN token = Calls
      /\ token[c] = "returning" /\ token' = [token EXCEPT ![c] = "none"]
      /\ semaphore \in Nat /\ rate_limit \in Nat
      /\ semaphore' = semaphore + 1
      /\ rate_limit' = rate_limit /\ acquires' = acquires /\ call' = call
  BY DEF LimiterInv, TypeOK, Release
<1>2. WithToken' = WithToken \ {c} /\ c \in WithToken
  BY <1>1 DEF WithToken
<1>3. Cardinality(WithToken') = Cardinality(WithToken) - 1
  BY <1>2, WithTokenIsFinite, FS_RemoveElement
<1>4. TokensAddUp'
  BY <1>1, <1>3, WithTokenIsFinite DEF LimiterInv, TokensAddUp
<1>5. ~(call[c] = "running" /\ Limited(c))
  BY <1>1 DEF LimiterInv, OneTokenEach
<1>6. OneTokenEach'
  BY <1>1, <1>5 DEF LimiterInv, OneTokenEach, Limited
<1> QED
  BY <1>1, <1>2, <1>4, <1>6

(* The steps that have nothing to do with the tokens. *)
LEMMA OthersKeep ==
    ASSUME LimiterInv, NEW c \in Calls, Submit(c) \/ Answer(c)
    PROVE  /\ WithToken' = WithToken /\ rate_limit' = rate_limit /\ acquires' = acquires
           /\ TokensAddUp'
           /\ OneTokenEach'
<1>1. /\ DOMAIN call = Calls /\ acquires \in Seq(Calls)
      /\ token' = token /\ rate_limit' = rate_limit /\ semaphore' = semaphore
      /\ acquires' = acquires
  BY DEF LimiterInv, TypeOK, Submit, Answer
<1>2. /\ call[c] \notin {"acquiring", "running"}
      /\ call'[c] \notin {"new", "acquiring", "running"}
      /\ call'[c] = "submitted" => call[c] = "new"
      /\ \A d \in Calls : d # c => call'[d] = call[d]
  BY <1>1 DEF Submit, Answer
<1>3. WithToken' = WithToken
  BY <1>1 DEF WithToken
<1>4. TokensAddUp'
  BY <1>1, <1>3 DEF LimiterInv, TokensAddUp
<1>5. \A j \in DOMAIN acquires : acquires[j] # c /\ acquires[j] \in Calls
  BY <1>1, <1>2 DEF LimiterInv, OneTokenEach
<1>6. OneTokenEach'
  BY <1>1, <1>2, <1>5 DEF LimiterInv, OneTokenEach, Limited
<1> QED
  BY <1>1, <1>3, <1>4, <1>6

LEMMA StepInv == LimiterInv /\ [Next]_vars => LimiterInv'
<1> SUFFICES ASSUME LimiterInv, [Next]_vars PROVE LimiterInv'
  OBVIOUS
<1>1. TypeOK'
  BY TypeStep DEF LimiterInv
<1>2. TokensAddUp' /\ OneTokenEach'
  <2>1. ASSUME NEW t \in Tools, CreateTool(t) PROVE TokensAddUp' /\ OneTokenEach'
    <3>1. OneTokenEach'
      BY <2>1 DEF CreateTool, LimiterInv, OneTokenEach, Limited
    <3> QED
      BY <2>1, <3>1, CreateToolSets
  <2>2. CASE UNCHANGED vars
    BY <2>2 DEF vars, LimiterInv, TokensAddUp, OneTokenEach, WithToken, Limited
  <2> QED
    BY <2>1, <2>2, AcquireTakes, BeginAsks, ExecuteKeeps, ReleaseGives, OthersKeep DEF Next
<1> QED
  BY <1>1, <1>2 DEF LimiterInv

-----------------------------------------------------------------------------
(* The semaphore and the tokens given out add up to the limit in every state,
   whatever the tools, their limits and the number of their threads: a token
   is neither lost when a function raises nor given back twice. *)
THEOREM LimiterInvariant == Spec => []LimiterInv
BY InitInv, StepInv, PTL DEF Spec

(* Every state of the limiter is one that its type allows. *)
THEOREM LimiterTypeOK == Spec => []TypeOK
<1>1. LimiterInv => TypeOK
  BY DEF LimiterInv
<1> QED
  BY <1>1, LimiterInvariant, PTL

(* At no time do more calls have a token than the limit of the first tool
   allows, and they get them in the order in which they asked. *)
THEOREM LimiterIsABucket == Spec => ImplementsBucket
<1>1. Init => Bucket!Init
  BY DEF Init, Bucket!Init, WithToken
<1>2. LimiterInv /\ [Next]_vars => [Bucket!Next]_<<rate_limit, acquires, WithToken>>
  <2> SUFFICES ASSUME LimiterInv, [Next]_vars
               PROVE  [Bucket!Next]_<<rate_limit, acquires, WithToken>>
    OBVIOUS
  <2> USE DEF Bucket!Next
  <2>1. ASSUME NEW t \in Tools, CreateTool(t)
        PROVE  Bucket!SetLimit \/ UNCHANGED <<rate_limit, acquires, WithToken>>
    BY <2>1, CreateToolSets DEF Bucket!SetLimit
  <2>2. ASSUME Acquire PROVE Bucket!Enter
    <3>1. acquires # <<>> /\ acquires' = Tail(acquires) /\ rate_limit' = rate_limit
      BY <2>2 DEF Acquire
    <3>2. WithToken' = WithToken \cup {Head(acquires)} /\ Cardinality(WithToken) < rate_limit
      BY <2>2, AcquireTakes
    <3>3. Bucket!Cardinality(WithToken) = Cardinality(WithToken)
      BY DEF Bucket!Cardinality, Cardinality
    <3> QED
      BY <3>1, <3>2, <3>3 DEF Bucket!Enter
  <2>3. ASSUME NEW c \in Calls, Begin(c)
        PROVE  Bucket!Ask(c) \/ UNCHANGED <<rate_limit, acquires, WithToken>>
    BY <2>3, BeginAsks DEF Bucket!Ask
  <2>4. ASSUME NEW c \in Calls, Execute(c)
        PROVE  UNCHANGED <<rate_limit, acquires, WithToken>>
    BY <2>4, ExecuteKeeps
  <2>5. ASSUME NEW c \in Calls, Release(c) PROVE Bucket!Leave(c)
    BY <2>5, ReleaseGives DEF Bucket!Leave
  <2>6. ASSUME NEW c \in Calls, Submit(c) \/ Answer(c)
        PROVE  UNCHANGED <<rate_limit, acquires, WithToken>>
    BY <2>6, OthersKeep
  <2>7. CASE UNCHANGED vars
    BY <2>7 DEF vars, WithToken
  <2> QED
    BY <2>1, <2>2, <2>3, <2>4, <2>5, <2>6, <2>7 DEF Next
<1> QED
  BY <1>1, <1>2, LimiterInvariant, PTL DEF Spec, ImplementsBucket, Bucket!Spec
=============================================================================

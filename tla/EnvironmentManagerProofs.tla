---------------------- MODULE EnvironmentManagerProofs ----------------------
(***************************************************************************)
(* EnvironmentManager for every set of managers, history length, size of   *)
(* the pool and number of steps: the memory of an environment is the story *)
(* of its running episode, and so the prompts tell it.                     *)
(***************************************************************************)
EXTENDS EnvironmentManager, TLAPS

Text == Int \X Int \X Int
Record == [obs : Text, action : Text]

(* What the memory holds of the k-th step of episode e, and what a prompt
   should show of it. *)
RecordOf(i, e, k) ==
    [obs    |-> <<i, e, IF manager \in {"Search", "AppWorld"} THEN k ELSE k - 1>>,
     action |-> <<i, e, k - 1>>]
HappenedIn(i, e, k) ==
    [step |-> k, obs |-> RecordOf(i, e, k).obs, action |-> RecordOf(i, e, k).action]

TypeOK ==
    /\ manager \in Managers
    /\ history_length \in Nat
    /\ episode \in Nat
    /\ turn \in Nat

(* Once there are prompts, every environment that has one is in the memory
   with all the steps of its episode, and the manager knows its task and the
   observation it is waiting with. *)
Story ==
    prompts # None =>
        \E batch \in Nat :
            /\ DOMAIN prompts = 1 .. batch
            /\ Len(prompts) = batch
            /\ memory = [ i \in 1 .. batch |-> [ k \in 1 .. turn |-> RecordOf(i, episode, k) ] ]
            /\ pre_text_obs = [ i \in 1 .. batch |-> <<i, episode, turn>> ]
            /\ tasks = [ i \in 1 .. batch |-> <<i, episode, 0>> ]

EnvironmentInv == TypeOK /\ Story /\ PromptsTellTheEpisode

-----------------------------------------------------------------------------
LEMMA SubSeqIs ==
    ASSUME NEW S, NEW s \in Seq(S), NEW m \in 1 .. Len(s)
    PROVE  LET t == SubSeq(s, Len(s) - m + 1, Len(s))
           IN  /\ Len(t) = m
               /\ \A j \in 1 .. m : t[j] = s[Len(s) - m + j]
OBVIOUS

LEMMA SeqIsFunction ==
    ASSUME NEW S, NEW s \in Seq(S)
    PROVE  s = [ j \in 1 .. Len(s) |-> s[j] ]
OBVIOUS

(* A memory that is written as a function is a sequence of records. *)
LEMMA StoryIsSeq ==
    ASSUME NEW n \in Nat, NEW R, NEW f, f = [ k \in 1 .. n |-> f[k] ],
           \A k \in 1 .. n : f[k] \in R
    PROVE  f \in Seq(R) /\ Len(f) = n
OBVIOUS

(* How many records are fetched: all of them, or the last history_length. *)
Fetched(n) == IF history_length = 0 \/ history_length > n THEN n ELSE history_length

(* fetch returns the last records, in their order and with their numbers. *)
LEMMA FetchIsTheEnd ==
    ASSUME NEW R, NEW data \in Seq(R), history_length \in Nat
    PROVE  LET n == Len(data)
               m == Fetched(n)
           IN  fetch(data) =
                 [ j \in 1 .. m |-> [step |-> n - m + j, obs |-> data[n - m + j].obs,
                                     action |-> data[n - m + j].action] ]
<1> DEFINE n == Len(data)
           m == Fetched(n)
<1>1. n \in Nat /\ m \in 0 .. n
  BY DEF Fetched
<1>2. Len(Slice(data)) = m /\ \A j \in 1 .. m : Slice(data)[j] = data[n - m + j]
  <2>1. CASE history_length = 0 \/ history_length > n
    <3>1. Slice(data) = data /\ m = n
      BY <2>1 DEF Slice, Fetched
    <3>2. \A j \in 1 .. n : n - n + j = j
      BY <1>1
    <3> QED
      BY <3>1, <3>2
  <2>2. CASE ~(history_length = 0 \/ history_length > n)
    BY <2>2, <1>1, SubSeqIs DEF Slice, Fetched
  <2> QED
    BY <2>1, <2>2
<1> QED
  BY <1>1, <1>2 DEF fetch

(* What the memory holds of an episode is fetched as the last steps that
   happened in it. *)
LEMMA StoryIsFetched ==
    ASSUME history_length \in Nat, NEW n \in Nat, NEW e \in Int, NEW i \in Int
    PROVE  LET data == [ k \in 1 .. n |-> RecordOf(i, e, k) ]
           IN  /\ Fetched(n) \in 0 .. n
               /\ Len(data) = n
               /\ fetch(data) = [ j \in 1 .. Fetched(n) |-> HappenedIn(i, e, n - Fetched(n) + j) ]
<1> DEFINE data == [ k \in 1 .. n |-> RecordOf(i, e, k) ]
           m == Fetched(n)
<1>1. m \in 0 .. n
  BY DEF Fetched
<1>2. data \in Seq(Record) /\ Len(data) = n
  <2>1. ASSUME NEW k \in 1 .. n PROVE RecordOf(i, e, k) \in Record
    <3>1. \A c \in Int : <<i, e, c>> \in Text
      BY DEF Text
    <3>2. k \in Int /\ k - 1 \in Int
      OBVIOUS
    <3> QED
      BY <3>1, <3>2 DEF RecordOf, Record
  <2> QED
    BY <2>1
<1> HIDE DEF data
<1>3. fetch(data) =
        [ j \in 1 .. m |-> [step |-> n - m + j, obs |-> data[n - m + j].obs,
                            action |-> data[n - m + j].action] ]
  BY <1>2, FetchIsTheEnd
<1>4. \A j \in 1 .. m :
        /\ n - m + j \in 1 .. n
        /\ [step |-> n - m + j, obs |-> data[n - m + j].obs,
            action |-> data[n - m + j].action] = HappenedIn(i, e, n - m + j)
  <2> SUFFICES ASSUME NEW j \in 1 .. m
               PROVE  /\ n - m + j \in 1 .. n
                      /\ [step |-> n - m + j, obs |-> data[n - m + j].obs,
                          action |-> data[n - m + j].action] = HappenedIn(i, e, n - m + j)
    OBVIOUS
  <2>1. n - m + j \in 1 .. n
    BY <1>1
  <2>2. data[n - m + j] = RecordOf(i, e, n - m + j)
    BY <2>1 DEF data
  <2> QED
    BY <2>1, <2>2 DEF HappenedIn
<1> QED
  BY <1>1, <1>2, <1>3, <1>4 DEF data

(* The last steps that a history tells, cut once more. *)
LEMMA CutIsTheEnd ==
    ASSUME NEW n \in Nat, NEW e, NEW i, NEW m \in 0 .. n, NEW kept \in 1 .. m
    PROVE  LET h == [ j \in 1 .. m |-> HappenedIn(i, e, n - m + j) ]
           IN  SubSeq(h, m - kept + 1, m) = [ j \in 1 .. kept |-> HappenedIn(i, e, n - kept + j) ]
<1> DEFINE S == { HappenedIn(i, e, k) : k \in 1 .. n }
           h == [ j \in 1 .. m |-> HappenedIn(i, e, n - m + j) ]
<1>1. \A j \in 1 .. m : n - m + j \in 1 .. n
  OBVIOUS
<1>2. h \in Seq(S) /\ Len(h) = m
  BY <1>1
<1>3. SubSeq(h, m - kept + 1, m) \in Seq(S)
  BY <1>2
<1>4. /\ Len(SubSeq(h, m - kept + 1, m)) = kept
      /\ \A j \in 1 .. kept : SubSeq(h, m - kept + 1, m)[j] = h[m - kept + j]
  BY <1>2, SubSeqIs
<1>5. \A j \in 1 .. kept : m - kept + j \in 1 .. m /\ n - m + (m - kept + j) = n - kept + j
  OBVIOUS
<1>6. \A j \in 1 .. kept : h[m - kept + j] = HappenedIn(i, e, n - kept + j)
  BY <1>5
<1> HIDE DEF h, S
<1>7. SubSeq(h, m - kept + 1, m) =
        [ j \in 1 .. kept |-> SubSeq(h, m - kept + 1, m)[j] ]
  BY <1>3, <1>4, SeqIsFunction
<1>8. SubSeq(h, m - kept + 1, m) = [ j \in 1 .. kept |-> HappenedIn(i, e, n - kept + j) ]
  BY <1>4, <1>6, <1>7
<1> QED
  BY <1>8 DEF h

-----------------------------------------------------------------------------
(* What PromptsTellTheEpisode says of one prompt, of environment i after n
   steps of episode e. *)
ToShow(n) ==
    IF \/ manager \in {"SokobanVisual", "GymCard"}
       \/ history_length = 0 /\ manager # "AppWorld"
    THEN 0
    ELSE IF history_length = 0 \/ n <= history_length THEN n ELSE history_length

Tells(prompt, i, e, n) ==
    /\ prompt.task \in {None, <<i, e, 0>>}
    /\ prompt.current \in {None, <<i, e, n>>}
    /\ \E m \in 0 .. n :
          /\ prompt.history = [ j \in 1 .. m |-> HappenedIn(i, e, n - m + j) ]
          /\ m = ToShow(n) \/ (MayBeCut /\ m < ToShow(n))
    /\ prompt.step_count \in {0, n}
    /\ history_length > 0 /\ manager \notin {"SokobanVisual", "GymCard"} =>
          \/ prompt.current = <<i, e, n>>
          \/ n = 0 /\ prompt.task = <<i, e, n>>
          \/ prompt.history # <<>> /\ prompt.history[Len(prompt.history)].obs = <<i, e, n>>

LEMMA NoHistoryIsTheEnd ==
    ASSUME NEW n \in Nat, NEW e, NEW i
    PROVE  <<>> = [ j \in 1 .. 0 |-> HappenedIn(i, e, n - 0 + j) ]
OBVIOUS

(* A text without a history tells what there is to be told at the beginning,
   when the history is not asked for, and when it had to be given up. *)
LEMMA WithoutHistoryTells ==
    ASSUME NEW n \in Nat, NEW e, NEW i,
           NEW task \in {None, <<i, e, 0>>}, NEW current \in {None, <<i, e, n>>},
           ToShow(n) = 0 \/ (MayBeCut /\ 0 < ToShow(n)),
           history_length > 0 /\ manager \notin {"SokobanVisual", "GymCard"} =>
               current = <<i, e, n>> \/ (n = 0 /\ task = <<i, e, n>>)
    PROVE  Tells(WithoutHistory(task, current), i, e, n)
BY NoHistoryIsTheEnd DEF Tells, WithoutHistory

(* A text with the history tells all that is asked for. *)
LEMMA WithHistoryTells ==
    ASSUME NEW n \in Nat \ {0}, NEW e \in Int, NEW i \in Int, history_length \in Nat,
           NEW task \in {None, <<i, e, 0>>}, NEW current \in {None, <<i, e, n>>},
           ToShow(n) = Fetched(n),
           current = <<i, e, n>> \/ manager \in {"Search", "AppWorld"}
    PROVE  Tells(WithHistory(task, [ k \in 1 .. n |-> RecordOf(i, e, k) ], current), i, e, n)
<1> DEFINE data == [ k \in 1 .. n |-> RecordOf(i, e, k) ]
           m == Fetched(n)
           text == WithHistory(task, data, current)
<1>1. /\ m \in 0 .. n
      /\ Len(data) = n
      /\ fetch(data) = [ j \in 1 .. m |-> HappenedIn(i, e, n - m + j) ]
  BY StoryIsFetched
<1>2. /\ text.task = task
      /\ text.current = current
      /\ text.step_count = n
      /\ text.history = [ j \in 1 .. m |-> HappenedIn(i, e, n - m + j) ]
  BY <1>1 DEF WithHistory
<1>3. ASSUME manager \in {"Search", "AppWorld"}
      PROVE  text.history # <<>> /\ text.history[Len(text.history)].obs = <<i, e, n>>
  <2>1. m \in 1 .. n
    BY <1>1 DEF Fetched
  <2>2. Len(text.history) = m /\ text.history[m] = HappenedIn(i, e, n)
    BY <2>1, <1>2, SMTT(30)
  <2>3. text.history # <<>>
    BY <2>1, <2>2
  <2>4. HappenedIn(i, e, n).obs = <<i, e, n>>
    BY <1>3 DEF HappenedIn, RecordOf
  <2> HIDE DEF text
  <2> QED
    BY <2>2, <2>3, <2>4
<1> HIDE DEF text, data
<1>4. \E k \in 0 .. n :
          /\ text.history = [ j \in 1 .. k |-> HappenedIn(i, e, n - k + j) ]
          /\ k = ToShow(n) \/ (MayBeCut /\ k < ToShow(n))
  BY <1>1, <1>2
<1>5. Tells(text, i, e, n)
  BY <1>2, <1>3, <1>4 DEF Tells
<1> QED
  BY <1>5 DEF text, data

ManagerNames == {"AlfWorld", "ScienceWorld", "TextWorldExpress", "Jericho", "Webshop",
                 "Sokoban", "SokobanVisual", "Search", "AppWorld", "GymCard"}

(* The first text, whatever is left in the memory. *)
LEMMA FirstTextTells ==
    ASSUME TypeOK, NEW e \in Int, NEW i \in Int, NEW data
    PROVE  Tells(build_text_obs(<<i, e, 0>>, data, <<i, e, 0>>, TRUE, 0), i, e, 0)
<1>1. manager \in ManagerNames /\ history_length \in Nat
  BY EnvironmentManagerAssumption DEF TypeOK, ManagerNames
<1>2. ToShow(0) = 0
  BY <1>1 DEF ToShow
<1>3. NoHistory(TRUE)
  BY DEF NoHistory
<1>4. \E task \in {None, <<i, e, 0>>}, current \in {None, <<i, e, 0>>} :
          /\ build_text_obs(<<i, e, 0>>, data, <<i, e, 0>>, TRUE, 0) = WithoutHistory(task, current)
          /\ manager \notin {"SokobanVisual", "GymCard"} =>
                 current = <<i, e, 0>> \/ task = <<i, e, 0>>
  <2>1. CASE manager = "AlfWorld"
    BY <2>1, <1>3 DEF build_text_obs, AlfWorldText
  <2>2. CASE manager = "ScienceWorld"
    BY <2>2, <1>3 DEF build_text_obs, ScienceWorldText
  <2>3. CASE manager = "TextWorldExpress"
    BY <2>3, <1>3 DEF build_text_obs, TextWorldExpressText, ScienceWorldText
  <2>4. CASE manager = "Jericho"
    BY <2>4, <1>3 DEF build_text_obs, JerichoText, ScienceWorldText
  <2>5. CASE manager = "Webshop"
    BY <2>5, <1>3 DEF build_text_obs, WebshopText
  <2>6. CASE manager = "Sokoban"
    BY <2>6, <1>3 DEF build_text_obs, SokobanText
  <2>7. CASE manager = "Search"
    BY <2>7, <1>3 DEF build_text_obs, SearchText
  <2>8. CASE manager = "AppWorld"
    BY <2>8 DEF build_text_obs, AppWorldText
  <2>9. CASE manager \in {"SokobanVisual", "GymCard"}
    BY <2>9 DEF build_text_obs
  <2> QED
    BY <1>1, <2>1, <2>2, <2>3, <2>4, <2>5, <2>6, <2>7, <2>8, <2>9 DEF ManagerNames
<1> QED
  BY <1>2, <1>4, WithoutHistoryTells

(* The text of AppWorld, which may have lost its beginning. *)
LEMMA AppWorldTextTells ==
    ASSUME TypeOK, manager = "AppWorld", NEW n \in Nat \ {0}, NEW e \in Int, NEW i \in Int,
           NEW cut \in Nat
    PROVE  Tells(AppWorldText(<<i, e, 0>>, [ k \in 1 .. n |-> RecordOf(i, e, k) ], FALSE, cut),
                 i, e, n)
<1> DEFINE data == [ k \in 1 .. n |-> RecordOf(i, e, k) ]
           m == Fetched(n)
           text == WithHistory(<<i, e, 0>>, data, None)
           kept == IF cut < m THEN m - cut ELSE 1
           end == [ j \in 1 .. kept |-> HappenedIn(i, e, n - kept + j) ]
           result == AppWorldText(<<i, e, 0>>, data, FALSE, cut)
<1>1. m \in 1 .. n /\ ToShow(n) = m
  BY DEF Fetched, ToShow, TypeOK
<1>2. kept \in 1 .. m
  BY <1>1
<1>3. text = [task |-> <<i, e, 0>>, step_count |-> n,
              history |-> [ j \in 1 .. m |-> HappenedIn(i, e, n - m + j) ], current |-> None]
  BY StoryIsFetched DEF WithHistory, TypeOK
<1>4. Len(text.history) = m
  BY <1>1, <1>3
<1>5. SubSeq(text.history, m - kept + 1, m) = end
  <2>1. SubSeq([ j \in 1 .. m |-> HappenedIn(i, e, n - m + j) ], m - kept + 1, m) = end
    <3> HIDE DEF kept, m
    <3> QED
      BY <1>1, <1>2, CutIsTheEnd
  <2> HIDE DEF text, kept, m, end
  <2> QED
    BY <1>3, <2>1
<1>6. result = [text EXCEPT !.history = SubSeq(@, m - kept + 1, m)]
  BY <1>4 DEF AppWorldText
<1>7. result = [task |-> <<i, e, 0>>, step_count |-> n, history |-> end, current |-> None]
  <2> HIDE DEF text, data, end, result
  <2> QED
    BY <1>3, <1>5, <1>6
<1>8. end # <<>> /\ end[Len(end)].obs = <<i, e, n>>
  <2>1. Len(end) = kept /\ end[kept] = HappenedIn(i, e, n)
    BY <1>1, <1>2
  <2>2. HappenedIn(i, e, n).obs = <<i, e, n>>
    BY DEF HappenedIn, RecordOf
  <2>3. end # <<>>
    <3>1. Len(<<>>) = 0
      OBVIOUS
    <3> HIDE DEF end, kept
    <3> QED
      BY <1>2, <2>1, <3>1
  <2> HIDE DEF end, kept
  <2> QED
    BY <2>1, <2>2, <2>3
<1>9. kept \in 0 .. n /\ (kept = ToShow(n) \/ (MayBeCut /\ kept < ToShow(n)))
  BY <1>1, <1>2 DEF MayBeCut
<1>10. \E k \in 0 .. n :
          /\ end = [ j \in 1 .. k |-> HappenedIn(i, e, n - k + j) ]
          /\ k = ToShow(n) \/ (MayBeCut /\ k < ToShow(n))
  BY <1>9
<1> HIDE DEF end, result, kept, data, text
<1>11. Tells(result, i, e, n)
  BY <1>7, <1>8, <1>10 DEF Tells
<1> QED
  BY <1>11 DEF result, data

(* The text after a step. *)
LEMMA TextTells ==
    ASSUME TypeOK, NEW n \in Nat \ {0}, NEW e \in Int, NEW i \in Int, NEW cut \in Nat
    PROVE  Tells(build_text_obs(<<i, e, 0>>, [ k \in 1 .. n |-> RecordOf(i, e, k) ],
                                <<i, e, n>>, FALSE, cut), i, e, n)
<1> DEFINE data == [ k \in 1 .. n |-> RecordOf(i, e, k) ]
           text == build_text_obs(<<i, e, 0>>, data, <<i, e, n>>, FALSE, cut)
           Plain == \E task \in {None, <<i, e, 0>>}, current \in {None, <<i, e, n>>} :
               /\ text = WithoutHistory(task, current)
               /\ ToShow(n) = 0 \/ (MayBeCut /\ 0 < ToShow(n))
               /\ history_length > 0 /\ manager \notin {"SokobanVisual", "GymCard"} =>
                     current = <<i, e, n>>
           Full == \E task \in {None, <<i, e, 0>>}, current \in {None, <<i, e, n>>} :
               /\ text = WithHistory(task, data, current)
               /\ ToShow(n) = Fetched(n)
               /\ current = <<i, e, n>> \/ manager \in {"Search", "AppWorld"}
<1>1. manager \in ManagerNames /\ history_length \in Nat
  BY EnvironmentManagerAssumption DEF TypeOK, ManagerNames
<1>2. NoHistory(FALSE) <=> history_length = 0
  BY DEF NoHistory
<1>3. history_length # 0 /\ manager \notin {"SokobanVisual", "GymCard"} =>
          ToShow(n) = Fetched(n) /\ 0 < ToShow(n)
  BY <1>1 DEF ToShow, Fetched
<1>4. history_length = 0 /\ manager # "AppWorld" => ToShow(n) = 0
  <2>1. CASE manager \in {"SokobanVisual", "GymCard"}
    BY <2>1 DEF ToShow
  <2>2. CASE manager \notin {"SokobanVisual", "GymCard"}
    BY <2>2 DEF ToShow
  <2> QED
    BY <2>1, <2>2
<1> HIDE DEF data
<1>5. manager # "AppWorld" => Plain \/ Full
  <2>1. CASE manager = "AlfWorld"
    BY <2>1, <1>2, <1>3, <1>4 DEF build_text_obs, AlfWorldText
  <2>2. CASE manager = "ScienceWorld"
    BY <2>2, <1>2, <1>3, <1>4 DEF build_text_obs, ScienceWorldText
  <2>3. CASE manager = "TextWorldExpress"
    BY <2>3, <1>2, <1>3, <1>4 DEF build_text_obs, TextWorldExpressText, ScienceWorldText
  <2>4. CASE manager = "Jericho"
    BY <2>4, <1>2, <1>3, <1>4 DEF build_text_obs, JerichoText, ScienceWorldText
  <2>5. CASE manager = "Webshop"
    BY <2>5, <1>2, <1>3, <1>4 DEF build_text_obs, WebshopText, MayBeCut
  <2>6. CASE manager = "Sokoban"
    BY <2>6, <1>2, <1>3, <1>4 DEF build_text_obs, SokobanText
  <2>7. CASE manager = "Search"
    <3>1. text = SearchText(<<i, e, 0>>, data, FALSE)
      BY <2>7 DEF build_text_obs
    <3>2. CASE history_length = 0
      <4>1. text = WithoutHistory(<<i, e, 0>>, None)
        BY <1>2, <3>1, <3>2 DEF SearchText
      <4>2. ToShow(n) = 0
        BY <1>4, <2>7, <3>2
      <4> HIDE DEF text
      <4> QED
        BY <3>2, <4>1, <4>2
    <3>3. CASE history_length # 0
      BY <2>7, <1>2, <1>3, <3>1, <3>3 DEF SearchText
    <3> QED
      BY <3>2, <3>3
  <2>8. CASE manager \in {"SokobanVisual", "GymCard"}
    <3>1. text = WithoutHistory(None, None)
      BY <2>8 DEF build_text_obs
    <3>2. ToShow(n) = 0
      BY <2>8 DEF ToShow
    <3> QED
      BY <2>8, <3>1, <3>2
  <2> QED
    BY <1>1, <2>1, <2>2, <2>3, <2>4, <2>5, <2>6, <2>7, <2>8 DEF ManagerNames
<1>6. manager = "AppWorld" => text = AppWorldText(<<i, e, 0>>, data, FALSE, cut)
  BY DEF build_text_obs
<1>7. Plain => Tells(text, i, e, n)
  BY WithoutHistoryTells, ZenonT(30)
<1>8. Full => Tells(text, i, e, n)
  BY WithHistoryTells, <1>1 DEF data
<1>9. manager = "AppWorld" => Tells(text, i, e, n)
  BY <1>6, AppWorldTextTells DEF data
<1> QED
  BY <1>5, <1>7, <1>8, <1>9 DEF data

-----------------------------------------------------------------------------
(* PromptsTellTheEpisode speaks of each prompt, after a step as before. *)
LEMMA TellsEach ==
    ASSUME manager' = manager, history_length' = history_length,
           \A i \in DOMAIN prompts' : Tells(prompts'[i], i, episode', turn')
    PROVE  PromptsTellTheEpisode'
<1>1. \A i, k : HappenedAt(i, k)' = HappenedIn(i, episode', k)
  BY DEF HappenedAt, HappenedIn, RecordOf
<1>2. \A i, m : LastSteps(i, m)' = [ j \in 1 .. m |-> HappenedIn(i, episode', turn' - m + j) ]
  BY DEF LastSteps, HappenedAt, HappenedIn, RecordOf
<1>3. StepsToShow' = ToShow(turn') /\ MayBeCut' = MayBeCut
  BY DEF StepsToShow, ToShow, MayBeCut
<1> QED
  BY <1>2, <1>3 DEF PromptsTellTheEpisode, Tells

LEMMA InitInv == Init => EnvironmentInv
<1> SUFFICES ASSUME Init PROVE EnvironmentInv
  OBVIOUS
<1>1. TypeOK
  BY EnvironmentManagerAssumption DEF Init, TypeOK
<1>2. Story
  BY DEF Init, Story
<1>3. prompts = <<>>
  BY DEF Init, None
<1>4. DOMAIN prompts = {}
  BY <1>3
<1>5. PromptsTellTheEpisode
  BY <1>4 DEF PromptsTellTheEpisode
<1> QED
  BY <1>1, <1>2, <1>5 DEF EnvironmentInv

(* All the memories start afresh, with the episode. *)
LEMMA ResetInv == EnvironmentInv /\ Reset => EnvironmentInv'
<1> SUFFICES ASSUME EnvironmentInv, Reset PROVE EnvironmentInv'
  OBVIOUS
<1>1. TypeOK /\ TypeOK'
  BY DEF EnvironmentInv, TypeOK, Reset
<1>2. PICK batch \in Batches :
          /\ memory' = reset(batch)
          /\ pre_text_obs' = Observe(batch, episode', 0)
          /\ tasks' = Observe(batch, episode', 0)
          /\ prompts' = [ i \in 1 .. batch |-> FirstText(i, Observe(batch, episode', 0)) ]
  BY DEF Reset
<1>3. batch \in Nat
  BY <1>2, EnvironmentManagerAssumption DEF Batches, Pool
<1>4. /\ manager' = manager /\ history_length' = history_length
      /\ turn' = 0 /\ episode' \in Nat
  BY <1>1 DEF Reset, TypeOK
<1>5. DOMAIN prompts' = 1 .. batch /\ Len(prompts') = batch
  BY <1>2, <1>3
<1>6. Story'
  <2>1. memory' = [ i \in 1 .. batch |-> [ k \in 1 .. turn' |-> RecordOf(i, episode', k) ] ]
    <3>1. \A i \in 1 .. batch : [ k \in 1 .. turn' |-> RecordOf(i, episode', k) ] = <<>>
      BY <1>4
    <3> QED
      BY <1>2, <3>1 DEF reset
  <2>2. /\ pre_text_obs' = [ i \in 1 .. batch |-> <<i, episode', turn'>> ]
        /\ tasks' = [ i \in 1 .. batch |-> <<i, episode', 0>> ]
    BY <1>2, <1>4 DEF Observe
  <2>3. \A i, k : RecordOf(i, episode, k)' = RecordOf(i, episode', k)
    BY <1>4 DEF RecordOf
  <2> QED
    BY <1>3, <1>5, <2>1, <2>2, <2>3 DEF Story
<1>7. ASSUME NEW i \in DOMAIN prompts' PROVE Tells(prompts'[i], i, episode', turn')
  <2>1. i \in 1 .. batch
    BY <1>5, <1>7
  <2>2. Observe(batch, episode', 0)[i] = <<i, episode', 0>>
    BY <2>1 DEF Observe
  <2>3. prompts'[i] = FirstText(i, Observe(batch, episode', 0))
    BY <1>2, <2>1
  <2>4. i \in Int /\ episode' \in Int
    BY <1>4, <2>1
  <2> QED
    BY <1>1, <1>4, <2>2, <2>3, <2>4, FirstTextTells DEF FirstText
<1> QED
  BY <1>1, <1>4, <1>6, <1>7, TellsEach DEF EnvironmentInv

(* Each memory grows by the step just made. *)
LEMMA StoryGrows ==
    ASSUME NEW n \in Nat, NEW e \in Int, NEW i \in Int
    PROVE  Append([ k \in 1 .. n |-> RecordOf(i, e, k) ], RecordOf(i, e, n + 1))
             = [ k \in 1 .. n + 1 |-> RecordOf(i, e, k) ]
<1> DEFINE S == { RecordOf(i, e, k) : k \in 1 .. n + 1 }
           old == [ k \in 1 .. n |-> RecordOf(i, e, k) ]
           new == Append(old, RecordOf(i, e, n + 1))
<1>1. old \in Seq(S) /\ Len(old) = n
  OBVIOUS
<1>2. RecordOf(i, e, n + 1) \in S
  OBVIOUS
<1> HIDE DEF S, old
<1>3. /\ new \in Seq(S) /\ Len(new) = n + 1
      /\ new[n + 1] = RecordOf(i, e, n + 1)
      /\ \A k \in 1 .. n : new[k] = old[k]
  BY <1>1, <1>2
<1>4. \A k \in 1 .. n + 1 : new[k] = RecordOf(i, e, k)
  BY <1>3 DEF old
<1>5. new = [ k \in 1 .. n + 1 |-> new[k] ]
  <2> HIDE DEF new
  <2> QED
    BY <1>3, SeqIsFunction
<1>6. new = [ k \in 1 .. n + 1 |-> RecordOf(i, e, k) ]
  <2> HIDE DEF new
  <2> QED
    BY <1>4, <1>5
<1> QED
  BY <1>6 DEF old

LEMMA NextRecord ==
    ASSUME NEW i, NEW e, NEW n \in Nat
    PROVE  RecordOf(i, e, n + 1) =
             [obs    |-> <<i, e, IF manager \in {"Search", "AppWorld"} THEN n + 1 ELSE n>>,
              action |-> <<i, e, n>>]
<1>1. n + 1 - 1 = n
  OBVIOUS
<1>2. CASE manager \in {"Search", "AppWorld"}
  <2>1. RecordOf(i, e, n + 1) = [obs |-> <<i, e, n + 1>>, action |-> <<i, e, n + 1 - 1>>]
    BY <1>2 DEF RecordOf
  <2> QED
    BY <1>1, <1>2, <2>1
<1>3. CASE manager \notin {"Search", "AppWorld"}
  <2>1. RecordOf(i, e, n + 1) = [obs |-> <<i, e, n + 1 - 1>>, action |-> <<i, e, n + 1 - 1>>]
    BY <1>3 DEF RecordOf
  <2> QED
    BY <1>1, <1>3, <2>1
<1> QED
  BY <1>2, <1>3

LEMMA StepInv == EnvironmentInv /\ Step => EnvironmentInv'
<1> SUFFICES ASSUME EnvironmentInv, Step PROVE EnvironmentInv'
  OBVIOUS
<1>1. TypeOK /\ TypeOK'
  BY DEF EnvironmentInv, TypeOK, Step
<1>2. PICK batch \in Nat :
          /\ Len(prompts) = batch
          /\ memory = [ i \in 1 .. batch |-> [ k \in 1 .. turn |-> RecordOf(i, episode, k) ] ]
          /\ pre_text_obs = [ i \in 1 .. batch |-> <<i, episode, turn>> ]
          /\ tasks = [ i \in 1 .. batch |-> <<i, episode, 0>> ]
  BY DEF EnvironmentInv, Story, Step
<1> DEFINE actions == Observe(batch, episode, turn)
           next_obs == Observe(batch, episode, turn')
<1>3. /\ manager' = manager /\ history_length' = history_length
      /\ turn' = turn + 1 /\ turn \in Nat /\ episode' = episode /\ episode \in Nat
      /\ tasks' = tasks
      /\ memory' = store(Remembered(next_obs), actions)
      /\ pre_text_obs' = next_obs
  BY <1>1, <1>2 DEF Step, TypeOK
<1>4. PICK cut \in [1 .. batch -> 0 .. turn] :
          prompts' = [ i \in 1 .. batch |->
              build_text_obs(tasks[i], memory'[i], next_obs[i], FALSE, cut[i]) ]
  BY <1>2 DEF Step
<1>5. DOMAIN prompts' = 1 .. batch /\ Len(prompts') = batch
  BY <1>4
<1>6. ASSUME NEW i \in 1 .. batch
      PROVE  /\ [obs |-> Remembered(next_obs)[i], action |-> actions[i]]
                   = RecordOf(i, episode, turn + 1)
             /\ next_obs[i] = <<i, episode, turn + 1>>
  <2>1. actions[i] = <<i, episode, turn>> /\ next_obs[i] = <<i, episode, turn + 1>>
    BY <1>3 DEF Observe
  <2>3. Remembered(next_obs)[i] =
          <<i, episode, IF manager \in {"Search", "AppWorld"} THEN turn + 1 ELSE turn>>
    <3> HIDE DEF next_obs
    <3> QED
      BY <1>2, <2>1 DEF Remembered
  <2>2. RecordOf(i, episode, turn + 1) =
          [obs    |-> <<i, episode, IF manager \in {"Search", "AppWorld"} THEN turn + 1 ELSE turn>>,
           action |-> <<i, episode, turn>>]
    BY <1>3, NextRecord
  <2> HIDE DEF next_obs, actions
  <2> QED
    BY <2>1, <2>2, <2>3
<1>7. memory' = [ i \in 1 .. batch |-> [ k \in 1 .. turn + 1 |-> RecordOf(i, episode, k) ] ]
  <2>1. memory' = [ i \in 1 .. batch |->
                      Append(memory[i], [obs |-> Remembered(next_obs)[i], action |-> actions[i]]) ]
    BY <1>2, <1>3 DEF store
  <2>2. ASSUME NEW i \in 1 .. batch
        PROVE  Append(memory[i], [obs |-> Remembered(next_obs)[i], action |-> actions[i]])
                 = [ k \in 1 .. turn + 1 |-> RecordOf(i, episode, k) ]
    <3>1. memory[i] = [ k \in 1 .. turn |-> RecordOf(i, episode, k) ]
      BY <1>2, <2>2
    <3>2. [obs |-> Remembered(next_obs)[i], action |-> actions[i]]
            = RecordOf(i, episode, turn + 1)
      BY <1>6, <2>2
    <3>3. i \in Int /\ turn \in Nat /\ episode \in Int
      BY <1>2, <1>3, <2>2
    <3> HIDE DEF next_obs, actions
    <3> QED
      BY <3>1, <3>2, <3>3, StoryGrows
  <2> HIDE DEF next_obs, actions
  <2> QED
    BY <2>1, <2>2
<1>8. Story'
  <2>1. \A i, k : RecordOf(i, episode, k)' = RecordOf(i, episode, k)
    BY <1>3 DEF RecordOf
  <2>2. memory' = [ i \in 1 .. batch |-> [ k \in 1 .. turn' |-> RecordOf(i, episode, k)' ] ]
    <3>1. turn' = turn + 1
      BY <1>3
    <3>2. [ i \in 1 .. batch |-> [ k \in 1 .. turn' |-> RecordOf(i, episode, k)' ] ]
            = [ i \in 1 .. batch |-> [ k \in 1 .. turn + 1 |-> RecordOf(i, episode, k) ] ]
      BY <2>1, <3>1, Zenon
    <3> QED
      BY <1>7, <3>2, Zenon
  <2>3. /\ pre_text_obs' = [ i \in 1 .. batch |-> <<i, episode', turn'>> ]
        /\ tasks' = [ i \in 1 .. batch |-> <<i, episode', 0>> ]
    BY <1>2, <1>3 DEF Observe
  <2> QED
    BY <1>5, <2>2, <2>3 DEF Story
<1>9. ASSUME NEW i \in DOMAIN prompts' PROVE Tells(prompts'[i], i, episode', turn')
  <2>1. i \in 1 .. batch
    BY <1>5, <1>9
  <2>2. /\ tasks[i] = <<i, episode, 0>>
        /\ memory'[i] = [ k \in 1 .. turn + 1 |-> RecordOf(i, episode, k) ]
        /\ next_obs[i] = <<i, episode, turn + 1>>
    BY <1>2, <1>6, <1>7, <2>1
  <2>3. prompts'[i] = build_text_obs(tasks[i], memory'[i], next_obs[i], FALSE, cut[i])
    BY <1>4, <2>1
  <2>4. cut[i] \in Nat /\ i \in Int /\ episode \in Int /\ turn + 1 \in Nat \ {0}
    BY <1>3, <1>4, <2>1
  <2> HIDE DEF next_obs
  <2>5. prompts'[i] =
          build_text_obs(<<i, episode, 0>>, [ k \in 1 .. turn + 1 |-> RecordOf(i, episode, k) ],
                         <<i, episode, turn + 1>>, FALSE, cut[i])
    BY <2>2, <2>3
  <2>6. Tells(prompts'[i], i, episode, turn + 1)
    BY <1>1, <2>4, <2>5, TextTells
  <2> QED
    BY <1>3, <2>6
<1> QED
  BY <1>1, <1>3, <1>8, <1>9, TellsEach DEF EnvironmentInv

-----------------------------------------------------------------------------
(* The invariant holds in every state that the managers can get into. *)
THEOREM EnvironmentInvariant == Spec => []EnvironmentInv
<1>1. EnvironmentInv /\ UNCHANGED vars => EnvironmentInv'
  <2> SUFFICES ASSUME EnvironmentInv, UNCHANGED vars PROVE EnvironmentInv'
    OBVIOUS
  <2>1. TypeOK'
    BY DEF EnvironmentInv, TypeOK, vars
  <2>2. Story'
    BY DEF EnvironmentInv, Story, RecordOf, vars
  <2>3. PromptsTellTheEpisode'
    <3>1. StepsToShow' = StepsToShow /\ MayBeCut' = MayBeCut
      BY DEF StepsToShow, MayBeCut, vars
    <3>2. \A i, m : LastSteps(i, m)' = LastSteps(i, m)
      BY DEF LastSteps, HappenedAt, vars
    <3> QED
      BY <3>1, <3>2 DEF EnvironmentInv, PromptsTellTheEpisode, vars
  <2> QED
    BY <2>1, <2>2, <2>3 DEF EnvironmentInv
<1>2. EnvironmentInv /\ [Next]_vars => EnvironmentInv'
  BY <1>1, ResetInv, StepInv DEF Next
<1> QED
  BY <1>2, InitInv, PTL DEF Spec

(* Whichever the manager, the pool and the length of the history, a prompt is
   the story of its own environment, of the running episode, up to now. *)
THEOREM EnvironmentPrompts == Spec => []PromptsTellTheEpisode
<1>1. EnvironmentInv => PromptsTellTheEpisode
  BY DEF EnvironmentInv
<1> QED
  BY <1>1, EnvironmentInvariant, PTL
=============================================================================

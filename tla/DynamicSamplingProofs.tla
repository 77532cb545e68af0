----------------------- MODULE DynamicSamplingProofs -----------------------
(***************************************************************************)
(* Dynamic sampling for every batch size, group size, number of tries and  *)
(* rewards.  The inductive invariant reads what was collected as a         *)
(* sequence of whole groups, each of one try.                              *)
(***************************************************************************)
EXTENDS DynamicSampling, DataLemmas

(* The groups that may have been collected by the end of a number of tries. *)
Whole(block, g, try) ==
    \A i \in 1 .. GroupN : block[i].try = try /\ block[i].env = g * GroupN + i
Flat(block) == \A i \in 1 .. GroupN : block[i].reward = block[1].reward
Collectible(tries) ==
    { block \in [1 .. GroupN -> Trajectory] :
          \E g \in Groups, try \in 1 .. tries :
              Whole(block, g, try) /\ (Flat(block) => try = MaxTries) }

Collected(t, k, tries) == t \in Seq(Trajectory) /\ InBlocks(t, GroupN, k, Collectible(tries))

Rates == [i \in DOMAIN total_success |-> total_success[i]["success_rate"]]

SamplingInv ==
    /\ pc \in {"sampling", "done", "failed"}
    /\ try_count \in 0 .. MaxTries
    /\ env_kwargs \in {"present", "unused", "popped"}
    /\ \E k \in 0 .. 2 * BatchSize - 1 : Collected(total, k, try_count)
    /\ (try_count = MaxTries \/ pc = "done") => Len(total) >= Target
    /\ total_success \in Seq(Range(total_success))
    /\ Len(total_success) = try_count
    /\ \A i \in DOMAIN total_success : "success_rate" \in DOMAIN total_success[i]
    /\ Rates \in Seq(Seq(Trajectory))
    /\ FlattenSeq(Rates) = total

-----------------------------------------------------------------------------
LEMMA Sizes ==
    /\ BatchSize \in Nat \ {0} /\ GroupN \in Nat \ {0} /\ MaxTries \in Nat \ {0}
    /\ NumEnvs \in Nat \ {0} /\ NumEnvs = BatchSize * GroupN /\ Target = NumEnvs
BY SizesAssumption DEF NumEnvs, Target

LEMMA GroupFacts ==
    ASSUME NEW g \in Groups, NEW i \in 1 .. GroupN
    PROVE  g * GroupN + i \in 1 .. NumEnvs /\ g * GroupN + i \in GroupIndices(g)
<1>1. g \in 0 .. BatchSize - 1 /\ g \in Nat
  BY Sizes DEF Groups
<1>2. g * GroupN + i \in 1 .. BatchSize * GroupN
  BY <1>1, Sizes, BlockIndex
<1>3. (g + 1) * GroupN = g * GroupN + GroupN /\ g * GroupN \in Nat
  BY <1>1, Sizes
<1> QED
  BY <1>2, <1>3, Sizes DEF GroupIndices

LEMMA GroupIndexOf ==
    ASSUME NEW g \in Groups, NEW j \in GroupIndices(g)
    PROVE  j - g * GroupN \in 1 .. GroupN
<1>1. g \in Nat /\ g * GroupN \in Nat /\ (g + 1) * GroupN = g * GroupN + GroupN
  BY Sizes DEF Groups
<1> QED
  BY <1>1, Sizes DEF GroupIndices

(* keep_indices: whole groups whose rewards differ, at most all of them. *)
KeptGroup(rewards) ==
    { block \in [1 .. GroupN -> 1 .. NumEnvs] :
          \E g \in Groups : /\ Differ(rewards, g)
                            /\ \A i \in 1 .. GroupN : block[i] = g * GroupN + i }

LEMMA KeepLoop ==
    ASSUME NEW rewards
    PROVE  \E f \in [0 .. BatchSize -> Seq(1 .. NumEnvs)] :
               /\ KeepIndices(rewards) = f[BatchSize]
               /\ f[0] = <<>>
               /\ \A n \in 1 .. BatchSize :
                      f[n] = IF Differ(rewards, n - 1)
                             THEN f[n - 1] \o [k \in 1 .. GroupN |-> (n - 1) * GroupN + k]
                             ELSE f[n - 1]
<1> DEFINE V == Seq(1 .. NumEnvs)
           Group(n) == [k \in 1 .. GroupN |-> (n - 1) * GroupN + k]
           step == [p \in (1 .. BatchSize) \X V |->
                       IF Differ(rewards, p[1] - 1) THEN p[2] \o Group(p[1]) ELSE p[2]]
           Eq(g) == g = [n \in 0 .. BatchSize |->
                            IF n = 0 THEN <<>>
                            ELSE IF Differ(rewards, n - 1) THEN g[n - 1] \o Group(n) ELSE g[n - 1]]
           keep == CHOOSE g : Eq(g)
<1>1. KeepIndices(rewards) = keep[BatchSize]
  BY DEF KeepIndices
<1>2. BatchSize \in Nat /\ GroupN \in Nat
  BY Sizes
<1>3. \A n \in 1 .. BatchSize : Group(n) \in V
  <2> TAKE n \in 1 .. BatchSize
  <2>1. n - 1 \in Groups
    BY <1>2 DEF Groups
  <2>2. \A k \in 1 .. GroupN : (n - 1) * GroupN + k \in 1 .. NumEnvs
    BY <2>1, GroupFacts
  <2> QED
    BY <1>2, <2>2
<1>4. <<>> \in V /\ \A s, t \in V : s \o t \in V
  OBVIOUS
<1> HIDE DEF V, Group
<1>5. step \in [(1 .. BatchSize) \X V -> V]
  BY <1>3, <1>4
<1>6. \A n \in 1 .. BatchSize, s \in V :
          step[<<n, s>>] = IF Differ(rewards, n - 1) THEN s \o Group(n) ELSE s
  OBVIOUS
<1> HIDE DEF step
<1>7. Recursions(BatchSize, V, <<>>, step) # {}
  BY <1>2, <1>4, <1>5, RecursionUpTo
<1>8. PICK f \in [0 .. BatchSize -> V] :
          f[0] = <<>> /\ \A n \in 1 .. BatchSize : f[n] = step[<<n, f[n - 1]>>]
  BY <1>7 DEF Recursions
<1>9. \A n \in 1 .. BatchSize : n - 1 \in 0 .. BatchSize /\ n # 0
  BY <1>2
<1>10. \A n \in 1 .. BatchSize :
           f[n] = IF Differ(rewards, n - 1) THEN f[n - 1] \o Group(n) ELSE f[n - 1]
  BY <1>6, <1>8, <1>9
<1>11. \A n \in 0 .. BatchSize : n = 0 \/ n \in 1 .. BatchSize
  BY <1>2
<1>12. Eq(f)
  <2>1. \A n \in 0 .. BatchSize :
            f[n] = IF n = 0 THEN <<>>
                   ELSE IF Differ(rewards, n - 1) THEN f[n - 1] \o Group(n) ELSE f[n - 1]
    BY <1>8, <1>9, <1>10, <1>11
  <2> QED
    BY <1>8, <2>1
<1>13. Eq(keep)
  <2> HIDE DEF Eq
  <2> QED
    BY <1>12
<1> HIDE DEF keep
<1>14. \A n \in 0 .. BatchSize :
           keep[n] = IF n = 0 THEN <<>>
                     ELSE IF Differ(rewards, n - 1) THEN keep[n - 1] \o Group(n) ELSE keep[n - 1]
  BY <1>13
<1> DEFINE P == { n \in Nat : keep[n] = f[n] }
<1>15. 0 \in P
  BY <1>2, <1>8, <1>14
<1>16. ASSUME NEW n \in 1 .. BatchSize, n - 1 \in P PROVE n \in P
  BY <1>2, <1>9, <1>10, <1>14, <1>16
<1> HIDE DEF P
<1>17. \A n \in 0 .. BatchSize : n \in P
  BY <1>2, <1>15, <1>16, UpToInduction
<1>18. keep[BatchSize] = f[BatchSize]
  BY <1>2, <1>17 DEF P
<1> QED
  BY <1>1, <1>8, <1>10, <1>18 DEF V, Group

LEMMA KeptGroups ==
    ASSUME NEW rewards
    PROVE  /\ KeepIndices(rewards) \in Seq(1 .. NumEnvs)
           /\ \E k \in 0 .. BatchSize :
                  InBlocks(KeepIndices(rewards), GroupN, k, KeptGroup(rewards))
<1>1. PICK f \in [0 .. BatchSize -> Seq(1 .. NumEnvs)] :
               /\ KeepIndices(rewards) = f[BatchSize]
               /\ f[0] = <<>>
               /\ \A n \in 1 .. BatchSize :
                      f[n] = IF Differ(rewards, n - 1)
                             THEN f[n - 1] \o [k \in 1 .. GroupN |-> (n - 1) * GroupN + k]
                             ELSE f[n - 1]
  BY KeepLoop
<1> DEFINE P == { n \in Nat : n <= BatchSize =>
                      \E k \in 0 .. n : InBlocks(f[n], GroupN, k, KeptGroup(rewards)) }
<1>2. 0 \in P
  <2>1. Len(<<>>) = 0 * GroupN /\ 0 .. 0 - 1 = {} /\ 0 \in 0 .. 0
    BY Sizes
  <2>2. InBlocks(<<>>, GroupN, 0, KeptGroup(rewards))
    BY <2>1 DEF InBlocks
  <2> QED
    BY <1>1, <2>1, <2>2
<1>3. ASSUME NEW n \in 1 .. BatchSize, n - 1 \in P PROVE n \in P
  <2>1. n - 1 \in Groups /\ n - 1 \in 0 .. BatchSize /\ n - 1 <= BatchSize /\ n \in Nat
    BY Sizes DEF Groups
  <2>2. PICK k \in 0 .. n - 1 : InBlocks(f[n - 1], GroupN, k, KeptGroup(rewards))
    BY <1>3, <2>1
  <2>3. CASE ~Differ(rewards, n - 1)
    <3>1. f[n] = f[n - 1]
      BY <1>1, <2>3
    <3>2. k \in 0 .. n
      BY <2>1
    <3> QED
      BY <2>1, <2>2, <3>1, <3>2
  <2>4. CASE Differ(rewards, n - 1)
    <3> DEFINE group == [i \in 1 .. GroupN |-> (n - 1) * GroupN + i]
    <3>1. \A i \in 1 .. GroupN : group[i] \in 1 .. NumEnvs
      BY <2>1, GroupFacts
    <3>2. group \in Seq(1 .. NumEnvs) /\ Len(group) = GroupN
      BY <3>1, Sizes
    <3>3. \A i \in 1 .. GroupN : group[0 * GroupN + i] = group[i]
      BY Sizes
    <3>4. Block(group, GroupN, 0) \in KeptGroup(rewards)
      <4>1. Block(group, GroupN, 0) = group
        BY <3>3 DEF Block
      <4> QED
        BY <2>1, <2>4, <3>1, <4>1 DEF KeptGroup
    <3>5. f[n] = f[n - 1] \o group
      BY <1>1, <2>4
    <3> HIDE DEF group
    <3>6. InBlocks(group, GroupN, 1, KeptGroup(rewards))
      <4>1. 1 * GroupN = GroupN /\ \A b \in 0 .. 1 - 1 : b = 0
        BY Sizes
      <4> QED
        BY <3>2, <3>4, <4>1 DEF InBlocks
    <3>7. f[n - 1] \in Seq(1 .. NumEnvs) /\ k \in Nat
      BY <1>1, <2>1
    <3>8. InBlocks(f[n - 1] \o group, GroupN, k + 1, KeptGroup(rewards))
      BY <2>2, <3>2, <3>6, <3>7, Sizes, BlocksJoined
    <3>9. k + 1 \in 0 .. n
      BY <2>1
    <3> QED
      BY <2>1, <3>5, <3>8, <3>9
  <2> QED
    BY <2>3, <2>4
<1> HIDE DEF P
<1>4. \A n \in 0 .. BatchSize : n \in P
  BY <1>2, <1>3, Sizes, UpToInduction
<1>5. BatchSize \in P /\ BatchSize \in 0 .. BatchSize
  BY <1>4, Sizes
<1> QED
  BY <1>1, <1>5 DEF P

-----------------------------------------------------------------------------
(* One try. *)
LEMMA TrajectoriesFacts ==
    ASSUME try_count \in 0 .. MaxTries - 1, NEW rewards \in [1 .. NumEnvs -> RewardValues]
    PROVE  /\ Trajectories(rewards) \in Seq(Trajectory)
           /\ Len(Trajectories(rewards)) = NumEnvs
           /\ \A i \in 1 .. NumEnvs :
                  /\ Trajectories(rewards)[i] \in Trajectory
                  /\ Trajectories(rewards)[i].try = try_count + 1
                  /\ Trajectories(rewards)[i].env = i
                  /\ Trajectories(rewards)[i].reward = rewards[i]
<1>1. \A i \in 1 .. NumEnvs :
          [try |-> try_count + 1, env |-> i, reward |-> rewards[i]] \in Trajectory
  BY Sizes DEF Trajectory
<1> QED
  BY <1>1, Sizes DEF Trajectories

(* The last try is kept as it is. *)
LEMMA AllGroups ==
    ASSUME try_count \in 0 .. MaxTries - 1, LastTry,
           NEW rewards \in [1 .. NumEnvs -> RewardValues]
    PROVE  Collected(Trajectories(rewards), BatchSize, try_count + 1)
<1> DEFINE t == Trajectories(rewards)
<1>1. try_count + 1 = MaxTries /\ try_count + 1 \in 1 .. try_count + 1
  BY DEF LastTry
<1>2. /\ t \in Seq(Trajectory) /\ Len(t) = BatchSize * GroupN
      /\ \A i \in 1 .. NumEnvs : t[i] \in Trajectory /\ t[i].try = try_count + 1 /\ t[i].env = i
  BY TrajectoriesFacts, Sizes
<1> HIDE DEF t
<1>3. ASSUME NEW g \in 0 .. BatchSize - 1 PROVE Block(t, GroupN, g) \in Collectible(try_count + 1)
  <2>1. g \in Groups
    BY DEF Groups
  <2>2. \A i \in 1 .. GroupN : g * GroupN + i \in 1 .. NumEnvs
    BY <2>1, GroupFacts
  <2>3. Block(t, GroupN, g) \in [1 .. GroupN -> Trajectory]
    BY <1>2, <2>2 DEF Block
  <2>4. Whole(Block(t, GroupN, g), g, try_count + 1)
    BY <1>2, <2>2 DEF Block, Whole
  <2> QED
    BY <1>1, <2>1, <2>3, <2>4 DEF Collectible
<1> QED
  BY <1>2, <1>3 DEF Collected, InBlocks, t

(* ... and of the others the groups whose rewards differ. *)
LEMMA DifferingGroups ==
    ASSUME try_count \in 0 .. MaxTries - 1, NEW rewards \in [1 .. NumEnvs -> RewardValues]
    PROVE  \E k \in 0 .. BatchSize :
               Collected(Filtered(Trajectories(rewards), KeepIndices(rewards)), k, try_count + 1)
<1> DEFINE t == Trajectories(rewards)
           keep == KeepIndices(rewards)
           u == Filtered(t, keep)
<1>1. try_count + 1 \in 1 .. try_count + 1 /\ try_count + 1 \in Nat
  BY Sizes
<1>2. \A i \in 1 .. NumEnvs :
          /\ t[i] \in Trajectory /\ t[i].try = try_count + 1
          /\ t[i].env = i /\ t[i].reward = rewards[i]
  BY TrajectoriesFacts
<1>3. keep \in Seq(1 .. NumEnvs)
  BY KeptGroups
<1>4. PICK k \in 0 .. BatchSize : InBlocks(keep, GroupN, k, KeptGroup(rewards))
  BY KeptGroups
<1> HIDE DEF t, keep
<1>5. u \in Seq(Trajectory) /\ Len(u) = Len(keep) /\ \A i \in 1 .. Len(keep) : u[i] = t[keep[i]]
  <2>1. DOMAIN keep = 1 .. Len(keep) /\ Len(keep) \in Nat
        /\ \A i \in 1 .. Len(keep) : keep[i] \in 1 .. NumEnvs
    <3> DEFINE Envs == 1 .. NumEnvs
    <3>1. keep \in Seq(Envs)
      BY <1>3
    <3> HIDE DEF Envs
    <3>2. DOMAIN keep = 1 .. Len(keep) /\ Len(keep) \in Nat
          /\ \A i \in 1 .. Len(keep) : keep[i] \in Envs
      BY <3>1
    <3> QED
      BY <3>2 DEF Envs
  <2>2. \A i \in 1 .. Len(keep) : t[keep[i]] \in Trajectory
    BY <1>2, <2>1
  <2> QED
    BY <2>1, <2>2 DEF Filtered
<1> HIDE DEF u
<1>6. ASSUME NEW b \in 0 .. k - 1 PROVE Block(u, GroupN, b) \in Collectible(try_count + 1)
  <2> DEFINE block == Block(u, GroupN, b)
  <2>1. PICK g \in Groups : /\ Differ(rewards, g)
                            /\ \A i \in 1 .. GroupN : Block(keep, GroupN, b)[i] = g * GroupN + i
    BY <1>4 DEF InBlocks, KeptGroup
  <2>2. \A i \in 1 .. GroupN : keep[b * GroupN + i] = g * GroupN + i
    BY <2>1 DEF Block
  <2>3. \A i \in 1 .. GroupN : b * GroupN + i \in 1 .. Len(keep)
    BY <1>4, Sizes, BlockIndex DEF InBlocks
  <2>4. \A i \in 1 .. GroupN : block[i] = t[g * GroupN + i] /\ g * GroupN + i \in 1 .. NumEnvs
    BY <1>5, <2>2, <2>3, GroupFacts DEF Block
  <2>5. block \in [1 .. GroupN -> Trajectory]
    <3>1. block = [i \in 1 .. GroupN |-> block[i]]
      BY DEF Block
    <3> HIDE DEF block
    <3> QED
      BY <1>2, <2>4, <3>1
  <2>6. Whole(block, g, try_count + 1)
    BY <1>2, <2>4 DEF Whole
  <2>7. ~Flat(block)
    <3>1. PICK i, j \in GroupIndices(g) : rewards[i] # rewards[j]
      BY <2>1 DEF Differ
    <3> DEFINE a == i - g * GroupN
               c == j - g * GroupN
    <3>2. a \in 1 .. GroupN /\ c \in 1 .. GroupN
      BY GroupIndexOf
    <3>3. i = g * GroupN + a /\ j = g * GroupN + c
      BY Sizes DEF GroupIndices, Groups
    <3> HIDE DEF a, c
    <3>4. block[a].reward = rewards[i] /\ block[c].reward = rewards[j]
      BY <1>2, <2>4, <3>2, <3>3
    <3> QED
      BY <3>1, <3>2, <3>4 DEF Flat
  <2> HIDE DEF block
  <2> QED
    BY <1>1, <2>5, <2>6, <2>7 DEF Collectible, block
<1> QED
  BY <1>4, <1>5, <1>6 DEF Collected, InBlocks, u, t, keep

LEMMA MoreTries ==
    ASSUME NEW t, NEW k \in Nat, NEW n \in Nat, NEW m \in Nat, n <= m, Collected(t, k, n)
    PROVE  Collected(t, k, m)
<1>1. 1 .. n \subseteq 1 .. m
  OBVIOUS
<1>2. Collectible(n) \subseteq Collectible(m)
  BY <1>1 DEF Collectible
<1> QED
  BY <1>2 DEF Collected, InBlocks

LEMMA CollectedJoined ==
    ASSUME NEW s, NEW t, NEW k \in Nat, NEW l \in Nat, NEW n \in Nat,
           Collected(s, k, n), Collected(t, l, n)
    PROVE  Collected(s \o t, k + l, n)
BY Sizes, BlocksJoined DEF Collected

-----------------------------------------------------------------------------
(* The success that is reported for the trajectories. *)
LEMMA RateOfTry ==
    ASSUME try_count \in 0 .. MaxTries - 1, NEW rewards \in [1 .. NumEnvs -> RewardValues],
           NEW tasks
    PROVE  LET batch == Trajectories(rewards)
               success == Success(batch, tasks)
               keep == KeepIndices(rewards)
           IN  /\ "success_rate" \in DOMAIN success /\ success["success_rate"] = batch
               /\ "success_rate" \in DOMAIN FilteredSuccess(success, keep)
               /\ FilteredSuccess(success, keep)["success_rate"] = Filtered(batch, keep)
<1> DEFINE batch == Trajectories(rewards)
           success == Success(batch, tasks)
<1>1. Len(batch) = NumEnvs
  BY TrajectoriesFacts
<1> HIDE DEF batch
<1>2. "success_rate" \in DOMAIN success /\ success["success_rate"] = batch
  BY DEF Success
<1> HIDE DEF success
<1>3. "success_rate" \in { k \in DOMAIN success : Len(success[k]) = NumEnvs }
  BY <1>1, <1>2
<1> QED
  BY <1>2, <1>3 DEF FilteredSuccess, batch, success

LEMMA SampleKeeps ==
    ASSUME SamplingInv, Sample
    PROVE  SamplingInv'
<1>1. pc = "sampling" /\ Len(total) < Target /\ try_count < MaxTries /\ try_count \in Nat
      /\ try_count \in 0 .. MaxTries - 1
  BY Sizes DEF Sample, KeepOn, SamplingInv
<1>2. PICK rewards \in [1 .. NumEnvs -> RewardValues], tasks \in [Groups -> Tasks] :
           LET batch == Trajectories(rewards)
               success == Success(batch, tasks)
               keep == KeepIndices(rewards)
           IN  /\ total' = total \o (IF LastTry THEN batch ELSE Filtered(batch, keep))
               /\ total_success' = Append(total_success,
                      IF LastTry THEN success ELSE FilteredSuccess(success, keep))
  BY DEF Sample
<1> DEFINE batch == Trajectories(rewards)
           success == Success(batch, tasks)
           keep == KeepIndices(rewards)
           rows == IF LastTry THEN batch ELSE Filtered(batch, keep)
           rate == IF LastTry THEN success ELSE FilteredSuccess(success, keep)
<1>3. total' = total \o rows /\ total_success' = Append(total_success, rate)
  BY <1>2
<1>4. rate["success_rate"] = rows
  BY <1>1, RateOfTry
<1>5. PICK l \in 0 .. BatchSize : Collected(rows, l, try_count + 1) /\ (LastTry => l = BatchSize)
  <2>1. BatchSize \in 0 .. BatchSize
    BY Sizes
  <2> QED
    BY <1>1, <2>1, AllGroups, DifferingGroups
<1> HIDE DEF batch, success, keep, rows, rate
<1>6. PICK k \in 0 .. 2 * BatchSize - 1 : Collected(total, k, try_count)
  BY DEF SamplingInv
<1>7. k < BatchSize
  <2>1. Len(total) = k * GroupN /\ k \in Nat
    BY <1>6 DEF Collected, InBlocks
  <2>2. k * GroupN < BatchSize * GroupN
    BY <1>1, <2>1, Sizes
  <2>3. k >= BatchSize => (k - BatchSize) * GroupN >= 0
    BY <2>1, Sizes
  <2>4. (k - BatchSize) * GroupN = k * GroupN - BatchSize * GroupN
    BY <2>1, Sizes
  <2>5. k * GroupN \in Int /\ BatchSize * GroupN \in Int
    BY <2>1, Sizes
  <2> QED
    BY <2>1, <2>2, <2>3, <2>4, <2>5, Sizes
<1>8. k + l \in 0 .. 2 * BatchSize - 1 /\ k \in Nat /\ l \in Nat
  BY <1>7, Sizes
<1>9. Collected(total, k, try_count + 1)
  BY <1>1, <1>6, <1>8, MoreTries
<1>10. Collected(total', k + l, try_count + 1)
  BY <1>1, <1>3, <1>5, <1>8, <1>9, CollectedJoined
<1>11. try_count' = try_count + 1 /\ try_count' \in 0 .. MaxTries /\ pc' = pc
       /\ env_kwargs' \in {"present", "unused", "popped"}
  BY <1>1, Sizes DEF Sample, SamplingInv
<1>12. \E m \in 0 .. 2 * BatchSize - 1 : Collected(total', m, try_count')
  BY <1>8, <1>10, <1>11
<1>13. try_count' = MaxTries => Len(total') >= Target
  <2> SUFFICES ASSUME try_count' = MaxTries PROVE Len(total') >= Target
    OBVIOUS
  <2>1. l = BatchSize
    BY <1>5, <1>11 DEF LastTry
  <2>2. Len(total') = (k + l) * GroupN
    BY <1>10 DEF Collected, InBlocks
  <2>3. (k + l) * GroupN = k * GroupN + BatchSize * GroupN /\ k * GroupN \in Nat
    BY <1>8, <2>1, Sizes
  <2>4. BatchSize * GroupN \in Nat
    BY Sizes
  <2> QED
    BY <2>2, <2>3, <2>4, Sizes
<1>14. Len(total_success) \in Nat /\ DOMAIN total_success = 1 .. Len(total_success)
       /\ Len(total_success) = try_count
  BY DEF SamplingInv
<1>15. /\ Len(total_success') = try_count + 1
       /\ DOMAIN total_success' = 1 .. try_count + 1
       /\ \A i \in 1 .. try_count : total_success'[i] = total_success[i]
       /\ total_success'[try_count + 1] = rate
       /\ total_success' = [i \in 1 .. try_count + 1 |-> total_success'[i]]
  <2> DEFINE before == total_success
             after == Append(before, rate)
             X == Range(total_success)
  <2>1. before \in Seq(X) /\ Len(before) = try_count
    BY <1>14 DEF SamplingInv
  <2> HIDE DEF before, X
  <2>2. /\ Len(after) = try_count + 1 /\ DOMAIN after = 1 .. try_count + 1
        /\ \A i \in 1 .. try_count : after[i] = before[i]
        /\ after[try_count + 1] = rate
    BY <2>1, AppendIs
  <2>3. after = [i \in 1 .. try_count + 1 |-> after[i]]
    <3>1. after \in Seq(X \cup {rate})
      BY <2>1, AppendIs
    <3> HIDE DEF after
    <3>2. after = [i \in 1 .. Len(after) |-> after[i]]
      BY <3>1, SeqIsFunction
    <3> QED
      BY <2>2, <3>2
  <2> HIDE DEF after
  <2> QED
    BY <1>3, <2>2, <2>3 DEF before, after
<1>16. total_success' \in Seq(Range(total_success'))
  <2>1. \A i \in 1 .. try_count + 1 : total_success'[i] \in Range(total_success')
    BY <1>15 DEF Range
  <2>2. [i \in 1 .. try_count + 1 |-> total_success'[i]] \in Seq(Range(total_success'))
    BY <1>1, <2>1
  <2> QED
    BY <1>15, <2>2
<1>17. "success_rate" \in DOMAIN rate
  BY <1>1, RateOfTry DEF rate, success, batch, keep
<1>18. \A i \in DOMAIN total_success' : "success_rate" \in DOMAIN total_success'[i]
  <2>1. \A i \in 1 .. try_count + 1 : i \in 1 .. try_count \/ i = try_count + 1
    BY <1>1
  <2> QED
    BY <1>14, <1>15, <1>17, <2>1 DEF SamplingInv
<1>19. rows \in Seq(Trajectory) /\ Rates \in Seq(Seq(Trajectory))
  BY <1>5 DEF Collected, SamplingInv
<1>20. Rates' = Append(Rates, rows)
  <2>1. Rates = [i \in 1 .. try_count |-> total_success[i]["success_rate"]]
    BY <1>14 DEF Rates
  <2>2. Rates' = [i \in 1 .. try_count + 1 |-> total_success'[i]["success_rate"]]
    BY <1>15 DEF Rates
  <2>3. Len(Rates) = try_count
    BY <1>1, <1>19, <2>1
  <2>4. \A i \in 1 .. try_count : Rates'[i] = Rates[i]
    BY <1>1, <1>15, <2>1, <2>2
  <2>5. Rates'[try_count + 1] = rows
    BY <1>1, <1>4, <1>15, <2>2 DEF rate, rows, success, batch, keep
  <2> DEFINE before == Rates
             after == Append(before, rows)
  <2>6. /\ \A i \in 1 .. try_count : after[i] = before[i]
        /\ after[try_count + 1] = rows
        /\ after = [i \in 1 .. try_count + 1 |-> after[i]]
    <3> DEFINE Rows == Seq(Trajectory)
    <3>1. before \in Seq(Rows) /\ Len(before) = try_count
      BY <1>19, <2>3
    <3> HIDE DEF before, Rates, rows, Rows
    <3>2. /\ \A i \in 1 .. Len(before) : Append(before, rows)[i] = before[i]
          /\ Append(before, rows)[Len(before) + 1] = rows
      BY ONLY <3>1, AppendIs
    <3>3. after \in Seq(Rows) /\ Len(after) = Len(before) + 1
      BY <1>19, <3>1 DEF Rows
    <3> HIDE DEF after
    <3>4. after = [i \in 1 .. Len(after) |-> after[i]]
      BY <3>3, SeqIsFunction
    <3>5. after = [i \in 1 .. Len(before) + 1 |-> after[i]]
      BY <3>3, <3>4
    <3> QED
      BY <3>1, <3>2, <3>5 DEF after
  <2>7. \A i \in 1 .. try_count + 1 : i = try_count + 1 \/ i \in 1 .. try_count
    BY <1>1
  <2>8. Rates' = [i \in 1 .. try_count + 1 |-> Rates'[i]]
    BY <2>2
  <2> HIDE DEF Rates, after
  <2>9. \A i \in 1 .. try_count + 1 : Rates'[i] = after[i]
    BY <2>4, <2>5, <2>6, <2>7 DEF before
  <2>10. Rates' = after
    BY <2>6, <2>8, <2>9
  <2> QED
    BY <2>10 DEF after, before
<1>21. Rates' \in Seq(Seq(Trajectory))
  BY <1>19, <1>20
<1>22. FlattenSeq(Rates') = total'
  <2>1. FlattenSeq(Append(Rates, rows)) = FlattenSeq(Rates) \o rows
    BY <1>19, FlattenAppend
  <2> QED
    BY <1>3, <1>20, <2>1 DEF SamplingInv
<1> QED
  BY <1>1, <1>11, <1>12, <1>13, <1>15, <1>16, <1>18, <1>21, <1>22 DEF SamplingInv

-----------------------------------------------------------------------------
LEMMA SamplingInvInitially == Init => SamplingInv
<1> SUFFICES ASSUME Init PROVE SamplingInv
  OBVIOUS
<1>1. total = <<>> /\ total_success = <<>> /\ try_count = 0 /\ pc = "sampling"
      /\ env_kwargs \in {"present", "unused", "popped"}
  BY KwargsAssumption DEF Init
<1>2. Collected(total, 0, 0)
  <2>1. Len(<<>>) = 0 * GroupN /\ 0 .. 0 - 1 = {}
    BY Sizes
  <2> QED
    BY <1>1, <2>1 DEF Collected, InBlocks
<1>3. 0 \in 0 .. 2 * BatchSize - 1 /\ try_count \in 0 .. MaxTries /\ try_count # MaxTries
  BY <1>1, Sizes
<1>4. Rates = <<>>
  BY <1>1 DEF Rates
<1>5. FlattenSeq(Rates) = total
  BY <1>1, <1>4 DEF FlattenSeq
<1>6. Rates \in Seq(Seq(Trajectory)) /\ total_success \in Seq(Range(total_success))
      /\ Len(total_success) = 0 /\ DOMAIN total_success = {}
  BY <1>1, <1>4
<1> QED
  BY <1>1, <1>2, <1>3, <1>5, <1>6 DEF SamplingInv

LEMMA SamplingInvInductive == SamplingInv /\ [Next]_vars => SamplingInv'
<1> SUFFICES ASSUME SamplingInv, [Next]_vars PROVE SamplingInv'
  OBVIOUS
<1>1. ASSUME UNCHANGED <<try_count, env_kwargs, total, total_success>>,
             pc' \in {"sampling", "done", "failed"},
             pc' = "done" => Len(total) >= Target
      PROVE  SamplingInv'
  <2>1. Rates' = Rates
    BY <1>1 DEF Rates
  <2> QED
    BY <1>1, <2>1 DEF SamplingInv
<1>2. CASE Concatenate
  <2>1. Len(total) >= Target
    <3>1. try_count >= MaxTries => try_count = MaxTries
      BY Sizes DEF SamplingInv
    <3>2. Len(total) \in Int /\ Target \in Int /\ try_count \in Int
      BY Sizes DEF SamplingInv, Collected
    <3> QED
      BY <1>2, <3>1, <3>2, Sizes DEF Concatenate, KeepOn, SamplingInv
  <2> QED
    BY <1>1, <1>2, <2>1 DEF Concatenate
<1>3. CASE ResetFails
  BY <1>1, <1>3 DEF ResetFails
<1>4. CASE UNCHANGED vars
  BY <1>1, <1>4 DEF vars, SamplingInv
<1> QED
  BY <1>2, <1>3, <1>4, SampleKeeps DEF Next, Returned

(* SamplingInv holds in every state of every behaviour. *)
THEOREM SamplingInvariant == Spec => []SamplingInv
  BY SamplingInvInitially, SamplingInvInductive, PTL DEF Spec

(* TypeOK, for all the constants. *)
THEOREM SamplingTypeOK == Spec => []TypeOK
  <1>1. SamplingInv => TypeOK
    BY DEF SamplingInv, Collected, TypeOK
  <1> QED
    BY <1>1, SamplingInvariant, PTL

(* TargetIsMet, for all the constants: what dynamic_multi_turn_loop returns
   holds at least a full batch. *)
THEOREM SamplingTargetIsMet == Spec => []TargetIsMet
  <1>1. SamplingInv => TargetIsMet
    BY DEF SamplingInv, TargetIsMet
  <1> QED
    BY <1>1, SamplingInvariant, PTL

(* SurplusIsBounded, for all the constants: there is never as much as a whole
   second batch. *)
THEOREM SamplingSurplusIsBounded == Spec => []SurplusIsBounded
  <1>1. ASSUME SamplingInv PROVE SurplusIsBounded
    <2>1. PICK k \in 0 .. 2 * BatchSize - 1 : Len(total) = k * GroupN
      BY <1>1 DEF SamplingInv, Collected, InBlocks
    <2>2. (2 * BatchSize - 1 - k) * GroupN \in Nat
      BY <2>1, Sizes
    <2>3. (2 * BatchSize - 1 - k) * GroupN = 2 * (BatchSize * GroupN) - GroupN - k * GroupN
      BY <2>1, Sizes
    <2>4. BatchSize * GroupN \in Nat /\ k * GroupN \in Nat /\ GroupN \in Nat
      BY <2>1, Sizes
    <2> QED
      BY <2>1, <2>2, <2>3, <2>4, Sizes DEF SurplusIsBounded
  <1> QED
    BY <1>1, SamplingInvariant, PTL

(* A block of what was collected. *)
LEMMA CollectedBlock ==
    ASSUME SamplingInv, NEW b \in 0 .. (Len(total) \div GroupN) - 1
    PROVE  \E g \in Groups, try \in 1 .. try_count :
               /\ \A i \in 1 .. GroupN : /\ total[b * GroupN + i].try = try
                                         /\ total[b * GroupN + i].env = g * GroupN + i
               /\ (\A i \in 1 .. GroupN :
                      total[b * GroupN + i].reward = total[b * GroupN + 1].reward)
                    => try = MaxTries
<1>1. PICK k \in 0 .. 2 * BatchSize - 1 : Collected(total, k, try_count)
  BY DEF SamplingInv
<1>2. Len(total) = k * GroupN + 0 /\ k \in Nat
  BY <1>1, Sizes DEF Collected, InBlocks
<1>3. Len(total) \div GroupN = k
  BY <1>2, Sizes, QuotientOf
<1>4. Block(total, GroupN, b) \in Collectible(try_count)
  BY <1>1, <1>3 DEF Collected, InBlocks
<1>5. \A i \in 1 .. GroupN : Block(total, GroupN, b)[i] = total[b * GroupN + i]
  BY DEF Block
<1>6. 1 \in 1 .. GroupN
  BY Sizes
<1> QED
  BY <1>4, <1>5, <1>6 DEF Collectible, Whole, Flat

(* GroupsAreWhole, for all the constants: the groups that the advantages are
   computed over are collected whole, in order, each from a single try. *)
THEOREM SamplingGroupsAreWhole == Spec => []GroupsAreWhole
  <1>1. ASSUME SamplingInv PROVE GroupsAreWhole
    <2>1. Len(total) % GroupN = 0
      <3>1. PICK k \in 0 .. 2 * BatchSize - 1 : Len(total) = k * GroupN
        BY <1>1 DEF SamplingInv, Collected, InBlocks
      <3>2. k \in Int /\ 0 \in 0 .. GroupN - 1 /\ k * GroupN + 0 = k * GroupN
        BY <3>1, Sizes
      <3>3. (k * GroupN + 0) % GroupN = 0
        BY <3>2, Sizes, QuotientOf
      <3> QED
        BY <3>1, <3>2, <3>3
    <2>2. ASSUME NEW b \in 0 .. (Len(total) \div GroupN) - 1
          PROVE  LET first == total[b * GroupN + 1]
                 IN  /\ first.env % GroupN = 1 % GroupN
                     /\ \A i \in 1 .. GroupN :
                            /\ total[b * GroupN + i].try = first.try
                            /\ total[b * GroupN + i].env = first.env + i - 1
      <3>1. PICK g \in Groups, try \in 1 .. try_count :
                \A i \in 1 .. GroupN : /\ total[b * GroupN + i].try = try
                                       /\ total[b * GroupN + i].env = g * GroupN + i
        BY <1>1, <2>2, CollectedBlock
      <3>2. total[b * GroupN + 1].try = try /\ total[b * GroupN + 1].env = g * GroupN + 1
        BY <3>1, Sizes
      <3>3. (g * GroupN + 1) % GroupN = 1 % GroupN
        <4>1. g \in Int /\ (g + 1) * GroupN + 0 = g * GroupN + GroupN
              /\ 0 * GroupN + 1 = 1 /\ 1 * GroupN + 0 = GroupN
          BY Sizes DEF Groups
        <4>2. CASE GroupN = 1
          <5>1. (g * GroupN + 1) % GroupN = 0
            BY <4>1, <4>2, Sizes, QuotientOf
          <5>2. 1 % GroupN = 0
            BY <4>1, <4>2, Sizes, QuotientOf
          <5> QED
            BY <5>1, <5>2
        <4>3. CASE GroupN > 1
          <5>1. 1 \in 0 .. GroupN - 1
            BY <4>3, Sizes
          <5>2. (g * GroupN + 1) % GroupN = 1
            BY <4>1, <5>1, Sizes, QuotientOf
          <5>3. 1 % GroupN = 1
            BY <4>1, <5>1, Sizes, QuotientOf
          <5> QED
            BY <5>2, <5>3
        <4> QED
          BY <4>2, <4>3, Sizes
      <3>4. \A i \in 1 .. GroupN : g * GroupN + i = (g * GroupN + 1) + i - 1
        BY Sizes DEF Groups
      <3> QED
        BY <3>1, <3>2, <3>3, <3>4
    <2> QED
      BY <2>1, <2>2 DEF GroupsAreWhole
  <1> QED
    BY <1>1, SamplingInvariant, PTL

(* FlatGroupsOnlyAtTheEnd, for all the constants: a group whose episodes have
   one reward is there only because the tries ran out. *)
THEOREM SamplingFlatGroupsOnlyAtTheEnd == Spec => []FlatGroupsOnlyAtTheEnd
  <1>1. ASSUME SamplingInv PROVE FlatGroupsOnlyAtTheEnd
    <2> SUFFICES ASSUME NEW b \in 0 .. (Len(total) \div GroupN) - 1,
                        \A i \in 1 .. GroupN :
                            total[b * GroupN + i].reward = total[b * GroupN + 1].reward
                 PROVE  try_count = MaxTries /\ total[b * GroupN + 1].try = MaxTries
      BY DEF FlatGroupsOnlyAtTheEnd
    <2>1. PICK try \in 1 .. try_count :
              /\ \A i \in 1 .. GroupN : total[b * GroupN + i].try = try
              /\ try = MaxTries
      BY <1>1, CollectedBlock
    <2>2. 1 \in 1 .. GroupN /\ try_count \in 0 .. MaxTries
      BY <1>1, Sizes DEF SamplingInv
    <2> QED
      BY <2>1, <2>2, Sizes
  <1> QED
    BY <1>1, SamplingInvariant, PTL

(* SuccessMatchesTrajectories, for all the constants: over all the tries the
   success rates are those of the trajectories that were kept, in their order. *)
THEOREM SamplingSuccessMatchesTrajectories == Spec => []SuccessMatchesTrajectories
  <1>1. SamplingInv => SuccessMatchesTrajectories
    BY DEF SamplingInv, Rates, SuccessRates, SuccessMatchesTrajectories
  <1> QED
    BY <1>1, SamplingInvariant, PTL
=============================================================================

----------------------------- MODULE DataLemmas -----------------------------
(***************************************************************************)
(* Facts about folds, recursive functions and sequences that the proofs    *)
(* share.  The induction principles are stated with sets in place of       *)
(* predicates, so that they can be cited with any set that is defined by   *)
(* a predicate.  In the second half: sequences in another order, sequences *)
(* joined and flattened, and the weight of the elements of a sequence.     *)
(***************************************************************************)
EXTENDS Integers, Sequences, SequencesExt, FiniteSetTheorems, TLAPS

(* Induction over the natural numbers. *)
LEMMA NatSetInduction ==
    ASSUME NEW P, 0 \in P, \A n \in Nat : n \in P => n + 1 \in P
    PROVE  Nat \subseteq P
<1> SUFFICES ASSUME Nat \ P # {} PROVE FALSE
  OBVIOUS
<1>1. PICK n \in Nat \ P : \A m \in Nat \ P : <<m, n>> \notin OpToRel(<, Nat)
  BY NatLessThanWellFounded, WFMin
<1>2. \A m \in Nat \ P : ~(m < n)
  BY <1>1 DEF OpToRel
<1>3. n # 0 /\ n - 1 \in Nat /\ n - 1 < n
  OBVIOUS
<1>4. n - 1 \in P
  BY <1>2, <1>3
<1> QED
  BY <1>3, <1>4

(* ... and up to a number. *)
LEMMA UpToInduction ==
    ASSUME NEW N \in Nat, NEW P, 0 \in P, \A n \in 1 .. N : n - 1 \in P => n \in P
    PROVE  \A n \in 0 .. N : n \in P
<1> DEFINE Q == { n \in Nat : n <= N => n \in P }
<1>1. 0 \in Q
  OBVIOUS
<1>2. ASSUME NEW n \in Nat, n \in Q PROVE n + 1 \in Q
  <2>1. n + 1 <= N => n + 1 \in 1 .. N /\ (n + 1) - 1 = n /\ n \in P
    BY <1>2
  <2> QED
    BY <2>1
<1> HIDE DEF Q
<1>3. Nat \subseteq Q
  BY <1>1, <1>2, NatSetInduction
<1> QED
  BY <1>3 DEF Q

(* A set of natural numbers has a smallest one. *)
LEMMA MinOfNaturals ==
    ASSUME NEW S \in SUBSET Nat, S # {}
    PROVE  Min(S) \in S /\ \A y \in S : Min(S) <= y
<1>1. PICK n \in S : \A m \in S : <<m, n>> \notin OpToRel(<, Nat)
  BY NatLessThanWellFounded, WFMin
<1>2. \A m \in S : ~(m < n)
  BY <1>1 DEF OpToRel
<1>3. \A m \in S : n <= m
  BY <1>2
<1> QED
  BY <1>3 DEF Min

(* Induction over the subsets of a finite set. *)
LEMMA SubsetInduction ==
    ASSUME NEW S, IsFiniteSet(S), NEW P, {} \in P,
           \A T \in SUBSET S : T # {} /\ (\A x \in T : T \ {x} \in P) => T \in P
    PROVE  \A T \in SUBSET S : T \in P
<1> DEFINE Q == { n \in Nat : \A T \in SUBSET S : Cardinality(T) = n => T \in P }
<1>1. \A T \in SUBSET S : IsFiniteSet(T) /\ Cardinality(T) \in Nat
  BY FS_Subset, FS_CardinalityType
<1>2. 0 \in Q
  BY <1>1, FS_EmptySet
<1>3. ASSUME NEW n \in Nat, n \in Q PROVE n + 1 \in Q
  <2> SUFFICES ASSUME NEW T \in SUBSET S, Cardinality(T) = n + 1 PROVE T \in P
    OBVIOUS
  <2>0. Cardinality(T) # 0
    OBVIOUS
  <2>1. T # {}
    BY <2>0, FS_EmptySet
  <2>2. \A x \in T : Cardinality(T \ {x}) = n
    BY <1>1, FS_RemoveElement
  <2>3. \A x \in T : T \ {x} \in P
    BY <1>3, <2>2
  <2> QED
    BY <2>1, <2>3
<1> HIDE DEF Q
<1>4. Nat \subseteq Q
  BY <1>2, <1>3, NatSetInduction
<1> QED
  BY <1>1, <1>4 DEF Q

-----------------------------------------------------------------------------
(* A function on 0 .. N may be defined by its value at 0 and by a step. *)
Recursions(N, V, base, step) ==
    { f \in [0 .. N -> V] : f[0] = base /\ \A n \in 1 .. N : f[n] = step[<<n, f[n - 1]>>] }

LEMMA RecursionUpTo ==
    ASSUME NEW N \in Nat, NEW V, NEW base \in V, NEW step \in [(1 .. N) \X V -> V]
    PROVE  Recursions(N, V, base, step) # {}
<1> SUFFICES \E f \in [0 .. N -> V] :
                 f[0] = base /\ \A n \in 1 .. N : f[n] = step[<<n, f[n - 1]>>]
  BY DEF Recursions
<1> DEFINE P == { k \in Nat : k <= N => \E f \in [0 .. k -> V] :
                      f[0] = base /\ \A n \in 1 .. k : f[n] = step[<<n, f[n - 1]>>] }
<1>1. 0 \in P
  <2> DEFINE f == [n \in 0 .. 0 |-> base]
  <2>1. f \in [0 .. 0 -> V] /\ f[0] = base
    OBVIOUS
  <2>2. 1 .. 0 = {}
    OBVIOUS
  <2> HIDE DEF f
  <2>3. \E h \in [0 .. 0 -> V] :
            h[0] = base /\ \A n \in 1 .. 0 : h[n] = step[<<n, h[n - 1]>>]
    BY <2>1, <2>2
  <2> QED
    BY <2>3
<1>2. ASSUME NEW k \in Nat, k \in P PROVE k + 1 \in P
  <2> SUFFICES ASSUME k + 1 <= N
               PROVE  \E f \in [0 .. k + 1 -> V] : f[0] = base
                          /\ \A n \in 1 .. k + 1 : f[n] = step[<<n, f[n - 1]>>]
    OBVIOUS
  <2>1. PICK f \in [0 .. k -> V] :
            f[0] = base /\ \A n \in 1 .. k : f[n] = step[<<n, f[n - 1]>>]
    BY <1>2
  <2> DEFINE g == [n \in 0 .. k + 1 |-> IF n = k + 1 THEN step[<<n, f[k]>>] ELSE f[n]]
  <2>2. f[k] \in V /\ k + 1 \in 1 .. N
    BY <2>1
  <2>3. step[<<k + 1, f[k]>>] \in V
    BY <2>2
  <2>4. g \in [0 .. k + 1 -> V]
    BY <2>1, <2>3
  <2>5. g[0] = base
    BY <2>1
  <2>6. ASSUME NEW n \in 1 .. k + 1 PROVE g[n] = step[<<n, g[n - 1]>>]
    <3>1. CASE n = k + 1
      BY <3>1
    <3>2. CASE n \in 1 .. k
      <4>1. g[n] = f[n] /\ g[n - 1] = f[n - 1]
        BY <3>2
      <4> QED
        BY <2>1, <3>2, <4>1
    <3> QED
      BY <3>1, <3>2
  <2> HIDE DEF g
  <2> QED
    BY <2>4, <2>5, <2>6
<1> HIDE DEF P
<1>3. Nat \subseteq P
  BY <1>1, <1>2, NatSetInduction
<1> QED
  BY <1>3 DEF P

(* The function behind a fold over a finite set exists. *)
Picks(S, pick) == \A T \in SUBSET S : T # {} => pick[T] \in T
FoldFunctions(S, V, base, step, pick) ==
    { g \in [SUBSET S -> V] : \A T \in SUBSET S :
          g[T] = IF T = {} THEN base ELSE step[<<pick[T], g[T \ {pick[T]}]>>] }

LEMMA FoldExists ==
    ASSUME NEW S, IsFiniteSet(S), NEW V, NEW base \in V, NEW step \in [S \X V -> V],
           NEW pick, Picks(S, pick)
    PROVE  FoldFunctions(S, V, base, step, pick) # {}
<1> USE DEF Picks, FoldFunctions
<1> DEFINE Small(k) == { T \in SUBSET S : Cardinality(T) <= k }
           P == { k \in Nat : \E g \in [Small(k) -> V] : \A T \in Small(k) :
                      g[T] = IF T = {} THEN base ELSE step[<<pick[T], g[T \ {pick[T]}]>>] }
<1>1. \A T \in SUBSET S : IsFiniteSet(T) /\ Cardinality(T) \in Nat
  BY FS_Subset, FS_CardinalityType
<1>2. \A T \in SUBSET S : T # {} =>
          /\ T \ {pick[T]} \in SUBSET S
          /\ Cardinality(T \ {pick[T]}) = Cardinality(T) - 1
  BY <1>1, FS_RemoveElement
<1>3. 0 \in P
  <2>1. \A T \in Small(0) : T = {}
    BY <1>1, FS_EmptySet
  <2>2. [T \in Small(0) |-> base] \in [Small(0) -> V]
    OBVIOUS
  <2> QED
    BY <2>1, <2>2
<1>4. ASSUME NEW k \in Nat, k \in P PROVE k + 1 \in P
  <2>1. PICK f \in [Small(k) -> V] : \A T \in Small(k) :
            f[T] = IF T = {} THEN base ELSE step[<<pick[T], f[T \ {pick[T]}]>>]
    BY <1>4
  <2> DEFINE g == [T \in Small(k + 1) |->
                      IF T = {} THEN base ELSE step[<<pick[T], f[T \ {pick[T]}]>>]]
  <2>2. \A T \in Small(k + 1) : T # {} => T \ {pick[T]} \in Small(k)
    BY <1>1, <1>2
  <2>3. g \in [Small(k + 1) -> V]
    BY <2>1, <2>2
  <2>4. \A T \in Small(k) : T \in Small(k + 1) /\ g[T] = f[T]
    BY <1>1, <2>1
  <2>5. \A T \in Small(k + 1) :
            g[T] = IF T = {} THEN base ELSE step[<<pick[T], g[T \ {pick[T]}]>>]
    BY <2>2, <2>4
  <2> HIDE DEF g, Small
  <2>6. \E h \in [Small(k + 1) -> V] : \A T \in Small(k + 1) :
            h[T] = IF T = {} THEN base ELSE step[<<pick[T], h[T \ {pick[T]}]>>]
    BY <2>3, <2>5, Zenon
  <2>7. k + 1 \in Nat
    OBVIOUS
  <2> QED
    BY <2>6, <2>7, Zenon
<1> HIDE DEF P
<1>5. Cardinality(S) \in P
  BY <1>1, <1>3, <1>4, NatSetInduction
<1>6. Small(Cardinality(S)) = SUBSET S
  BY <1>1, FS_Subset
<1> HIDE DEF Small
<1> QED
  BY <1>5, <1>6 DEF P

(* A sum of natural numbers is one. *)
SumFunctions(S, fun, pick) ==
    { g \in [SUBSET S -> Nat] : \A T \in SUBSET S :
          g[T] = IF T = {} THEN 0 ELSE fun[pick[T]] + g[T \ {pick[T]}] }

LEMMA SumFunctionExists ==
    ASSUME NEW S, IsFiniteSet(S), NEW fun, \A i \in S : fun[i] \in Nat,
           NEW pick, Picks(S, pick)
    PROVE  SumFunctions(S, fun, pick) # {}
<1> DEFINE step == [p \in S \X Nat |-> fun[p[1]] + p[2]]
<1>1. step \in [S \X Nat -> Nat]
  OBVIOUS
<1>2. 0 \in Nat
  OBVIOUS
<1>3. \A x \in S, n \in Nat : step[<<x, n>>] = fun[x] + n
  OBVIOUS
<1> HIDE DEF step
<1>1a. FoldFunctions(S, Nat, 0, step, pick) # {}
  BY <1>1, <1>2, FoldExists
<1>4. PICK g \in [SUBSET S -> Nat] : \A T \in SUBSET S :
          g[T] = IF T = {} THEN 0 ELSE step[<<pick[T], g[T \ {pick[T]}]>>]
  BY <1>1a DEF FoldFunctions
<1>5. ASSUME NEW T \in SUBSET S, T # {} PROVE g[T] = fun[pick[T]] + g[T \ {pick[T]}]
  <2>1. pick[T] \in S /\ T \ {pick[T]} \in SUBSET S
    BY <1>5 DEF Picks
  <2>2. g[T \ {pick[T]}] \in Nat
    BY <2>1
  <2>3. g[T] = step[<<pick[T], g[T \ {pick[T]}]>>]
    BY <1>4, <1>5
  <2> QED
    BY <1>3, <2>1, <2>2, <2>3
<1> QED
  BY <1>4, <1>5 DEF SumFunctions

LEMMA SumOfNaturals ==
    ASSUME NEW S, IsFiniteSet(S), NEW fun, \A i \in S : fun[i] \in Nat
    PROVE  FoldFunctionOnSet(+, 0, fun, S) \in Nat
<1> DEFINE pick == [T \in SUBSET S |-> CHOOSE x \in T : TRUE]
           Eq(g) == g = [T \in SUBSET S |->
                            IF T = {} THEN 0
                            ELSE fun[CHOOSE x \in T : TRUE] + g[T \ {CHOOSE x \in T : TRUE}]]
           sum == CHOOSE g : Eq(g)
<1>1. FoldFunctionOnSet(+, 0, fun, S) = sum[S]
  BY DEF FoldFunctionOnSet, MapThenFoldSet
<1>2. Picks(S, pick)
  BY DEF Picks
<1>3. \A T \in SUBSET S : pick[T] = CHOOSE x \in T : TRUE
  OBVIOUS
<1>4. \E g : Eq(g)
  <2> HIDE DEF pick
  <2>1. PICK g \in [SUBSET S -> Nat] : \A T \in SUBSET S :
            g[T] = IF T = {} THEN 0 ELSE fun[pick[T]] + g[T \ {pick[T]}]
    <3>1. SumFunctions(S, fun, pick) # {}
      BY <1>2, SumFunctionExists
    <3> QED
      BY <3>1 DEF SumFunctions
  <2>2. Eq(g)
    BY <1>3, <2>1
  <2> QED
    BY <2>2
<1>5. Eq(sum)
  <2> HIDE DEF Eq
  <2> QED
    BY <1>4
<1> HIDE DEF sum
<1>6. \A T \in SUBSET S : sum[T] = IF T = {} THEN 0 ELSE fun[pick[T]] + sum[T \ {pick[T]}]
  BY <1>3, <1>5
<1> DEFINE P == { T \in SUBSET S : sum[T] \in Nat }
<1>7. {} \in P
  <2>1. {} \in SUBSET S
    OBVIOUS
  <2>2. sum[{}] = 0
    BY <1>6, <2>1
  <2> QED
    BY <2>1, <2>2
<1>8. ASSUME NEW T \in SUBSET S, T # {}, \A x \in T : T \ {x} \in P PROVE T \in P
  <2>1. pick[T] \in T
    BY <1>2, <1>8 DEF Picks
  <2>2. sum[T] = fun[pick[T]] + sum[T \ {pick[T]}]
    BY <1>6, <1>8
  <2>3. sum[T \ {pick[T]}] \in Nat /\ fun[pick[T]] \in Nat
    BY <1>8, <2>1
  <2> QED
    BY <2>2, <2>3
<1> HIDE DEF P, pick, Eq
<1>9. \A T \in SUBSET S : T \in P
  BY ONLY IsFiniteSet(S), <1>7, <1>8, SubsetInduction
<1> QED
  BY <1>1, <1>9 DEF P

-----------------------------------------------------------------------------
LEMMA SeqIsFunction ==
    ASSUME NEW X, NEW s \in Seq(X)
    PROVE  s = [i \in 1 .. Len(s) |-> s[i]]
OBVIOUS

LEMMA AppendIs ==
    ASSUME NEW X, NEW s \in Seq(X), NEW e
    PROVE  /\ Append(s, e) \in Seq(X \cup {e})
           /\ Len(s) \in Nat /\ Len(Append(s, e)) = Len(s) + 1
           /\ DOMAIN Append(s, e) = 1 .. Len(s) + 1
           /\ \A i \in 1 .. Len(s) : Append(s, e)[i] = s[i]
           /\ Append(s, e)[Len(s) + 1] = e
           /\ Append(s, e) = [i \in 1 .. Len(s) + 1 |-> Append(s, e)[i]]
<1>1. s \in Seq(X \cup {e}) /\ e \in X \cup {e}
  OBVIOUS
<1>2. /\ Append(s, e) \in Seq(X \cup {e})
      /\ Len(s) \in Nat /\ Len(Append(s, e)) = Len(s) + 1
      /\ \A i \in 1 .. Len(s) : Append(s, e)[i] = s[i]
      /\ Append(s, e)[Len(s) + 1] = e
  BY <1>1
<1>3. DOMAIN Append(s, e) = 1 .. Len(s) + 1
  BY <1>2
<1>4. Append(s, e) = [i \in 1 .. Len(s) + 1 |-> Append(s, e)[i]]
  BY <1>2, SeqIsFunction
<1> QED
  BY <1>2, <1>3, <1>4

(* A sequence of distinct elements of a set is no longer than the set, and a
   set is no larger than a sequence that has all its elements. *)
LEMMA DistinctElements ==
    ASSUME NEW S, IsFiniteSet(S), NEW s \in Seq(S),
           \A j, k \in DOMAIN s : s[j] = s[k] => j = k
    PROVE  Len(s) <= Cardinality(S)
<1>1. Len(s) \in Nat /\ s \in [1 .. Len(s) -> S] /\ DOMAIN s = 1 .. Len(s)
  OBVIOUS
<1>a. Cardinality(1 .. Len(s)) = Len(s)
  BY <1>1, FS_Interval
<1>2. s \in Injection(1 .. Len(s), S)
  BY <1>1 DEF Injection, IsInjective
<1>3. Cardinality(1 .. Len(s)) <= Cardinality(S)
  BY <1>2, FS_Injection
<1> QED
  BY <1>3, <1>a

LEMMA ElementsOf ==
    ASSUME NEW S, NEW s \in Seq(S), \A x \in S : \E k \in DOMAIN s : s[k] = x
    PROVE  IsFiniteSet(S) /\ Cardinality(S) <= Len(s)
<1>1. Len(s) \in Nat /\ s \in [1 .. Len(s) -> S] /\ DOMAIN s = 1 .. Len(s)
  OBVIOUS
<1>2. s \in Surjection(1 .. Len(s), S)
  BY <1>1 DEF Surjection
<1>3. IsFiniteSet(1 .. Len(s)) /\ Cardinality(1 .. Len(s)) = Len(s)
  BY <1>1, FS_Interval
<1> QED
  BY <1>2, <1>3, FS_Surjection

-----------------------------------------------------------------------------
(* Division by a parameter. *)
LEMMA Division ==
    ASSUME NEW n \in Nat \ {0}, NEW a \in Int
    PROVE  /\ a \div n \in Int /\ a % n \in 0 .. n - 1
           /\ a % n = a - n * (a \div n)
OBVIOUS

(* The quotient and the remainder of a multiple and a rest. *)
LEMMA QuotientOf ==
    ASSUME NEW n \in Nat \ {0}, NEW q \in Int, NEW r \in 0 .. n - 1
    PROVE  (q * n + r) \div n = q /\ (q * n + r) % n = r
<1> DEFINE a == q * n + r
<1>1. a \in Int /\ q * n \in Int /\ (q + 1) * n = q * n + n /\ n \in Int /\ n > 0 /\ n * q = q * n
  OBVIOUS
<1>2. q * n <= a /\ a < (q + 1) * n
  BY <1>1
<1>a. r = a - q * n
  BY <1>1
<1> HIDE DEF a
<1>3. a \div n = q
  BY <1>1, <1>2
<1>4. a % n = a - n * q
  BY <1>1, <1>3, Division
<1> QED
  BY <1>1, <1>3, <1>4, <1>a DEF a

-----------------------------------------------------------------------------
(* FlattenSeq joins the sequences one after the other. *)
LEMMA FlattenSteps ==
    ASSUME NEW X, NEW ss \in Seq(Seq(X))
    PROVE  \E f \in [0 .. Len(ss) -> Seq(X)] :
               f[0] = <<>> /\ \A n \in 1 .. Len(ss) : f[n] = f[n - 1] \o ss[n]
<1> DEFINE N == Len(ss)
           V == Seq(X)
           step == [p \in (1 .. N) \X V |-> p[2] \o ss[p[1]]]
<1>1. N \in Nat /\ <<>> \in V /\ \A n \in 1 .. N : ss[n] \in V
  OBVIOUS
<1>2. \A s, t \in V : s \o t \in V
  OBVIOUS
<1> HIDE DEF N, V
<1>3. step \in [(1 .. N) \X V -> V]
  BY <1>1, <1>2
<1>4. \A n \in 1 .. N, s \in V : step[<<n, s>>] = s \o ss[n]
  OBVIOUS
<1> HIDE DEF step
<1>5. Recursions(N, V, <<>>, step) # {}
  BY <1>1, <1>3, RecursionUpTo
<1>6. PICK f \in [0 .. N -> V] :
          f[0] = <<>> /\ \A n \in 1 .. N : f[n] = step[<<n, f[n - 1]>>]
  BY <1>5 DEF Recursions
<1>7. \A n \in 1 .. N : f[n - 1] \in V
  BY <1>1, <1>6
<1>8. \A n \in 1 .. N : f[n] = f[n - 1] \o ss[n]
  BY <1>4, <1>6, <1>7
<1> QED
  BY <1>6, <1>8 DEF N, V

(* Both ways to write the recursion give the same sequences. *)
FromZero(N, ss, f) == f[0] = <<>> /\ \A n \in 1 .. N : f[n] = f[n - 1] \o ss[n]
FromOne(N, ss, g) == \A n \in 1 .. N : g[n] = IF n = 1 THEN ss[n] ELSE g[n - 1] \o ss[n]

LEMMA FlattenFromOne ==
    ASSUME NEW N \in Nat, NEW ss, NEW f, NEW g, FromZero(N, ss, f), FromOne(N, ss, g),
           \A n \in 1 .. N : <<>> \o ss[n] = ss[n]
    PROVE  \A n \in 1 .. N : g[n] = f[n]
<1> USE DEF FromZero, FromOne
<1> DEFINE P == { n \in Nat : n = 0 \/ g[n] = f[n] }
<1>1. 0 \in P
  OBVIOUS
<1>2. ASSUME NEW n \in 1 .. N, n - 1 \in P PROVE n \in P
  <2>1. CASE n = 1
    <3>1. 1 \in 1 .. N /\ 1 - 1 = 0
      BY <2>1
    <3>2. f[1] = f[0] \o ss[1] /\ g[1] = ss[1] /\ <<>> \o ss[1] = ss[1]
      BY <3>1
    <3> QED
      BY <2>1, <3>2
  <2>2. CASE n # 1
    <3>1. g[n - 1] = f[n - 1] /\ n \in Nat
      BY <1>2, <2>2
    <3>2. g[n] = g[n - 1] \o ss[n] /\ f[n] = f[n - 1] \o ss[n]
      BY <2>2
    <3> QED
      BY <3>1, <3>2
  <2> QED
    BY <2>1, <2>2
<1>3. \A n \in 0 .. N : n \in P
  <2> HIDE DEF P
  <2> QED
    BY <1>1, <1>2, UpToInduction
<1> QED
  BY <1>3

LEMMA FlattenIs ==
    ASSUME NEW X, NEW ss \in Seq(Seq(X)), NEW f, f[0] = <<>>,
           \A n \in 1 .. Len(ss) : f[n] = f[n - 1] \o ss[n]
    PROVE  FlattenSeq(ss) = f[Len(ss)]
<1> DEFINE N == Len(ss)
           Eq(g) == g = [i \in 1 .. N |-> IF i = 1 THEN ss[i] ELSE g[i - 1] \o ss[i]]
           flatten == CHOOSE g : Eq(g)
<1>1. N \in Nat /\ \A n \in 1 .. N : ss[n] \in Seq(X)
  OBVIOUS
<1>2. \A s \in Seq(X) : <<>> \o s = s
  OBVIOUS
<1>3. \A n \in 1 .. N : <<>> \o ss[n] = ss[n]
  BY <1>1, <1>2
<1>4. CASE N = 0
  BY <1>4 DEF FlattenSeq
<1>5. CASE N # 0
  <2>1. FlattenSeq(ss) = flatten[N]
    BY <1>5 DEF FlattenSeq
  <2>2. \E g : Eq(g)
    <3> DEFINE g == [i \in 1 .. N |-> f[i]]
    <3>1. ASSUME NEW i \in 1 .. N
          PROVE  g[i] = IF i = 1 THEN ss[i] ELSE g[i - 1] \o ss[i]
      <4>1. CASE i = 1
        <5>1. f[1] = <<>> \o ss[1]
          <6>1. 1 \in 1 .. Len(ss) /\ 1 - 1 = 0
            BY <4>1
          <6> QED
            BY <6>1
        <5> QED
          BY <1>3, <4>1, <5>1
      <4>2. CASE i # 1
        <5>1. i - 1 \in 1 .. N
          BY <1>1, <4>2
        <5>2. f[i] = f[i - 1] \o ss[i]
          OBVIOUS
        <5> QED
          BY <4>2, <5>1, <5>2
      <4> QED
        BY <4>1, <4>2
    <3>2. g = [i \in 1 .. N |-> IF i = 1 THEN ss[i] ELSE g[i - 1] \o ss[i]]
      BY <3>1, Zenon
    <3>3. Eq(g)
      BY <3>2
    <3> QED
      BY <3>3
  <2>3. Eq(flatten)
    <3> HIDE DEF Eq
    <3> QED
      BY <2>2
  <2> HIDE DEF flatten
  <2>4. \A i \in 1 .. N : flatten[i] = IF i = 1 THEN ss[i] ELSE flatten[i - 1] \o ss[i]
    BY <2>3
  <2>5. FromZero(N, ss, f) /\ FromOne(N, ss, flatten)
    BY <2>4 DEF FromZero, FromOne
  <2> HIDE DEF N
  <2>6. \A n \in 1 .. N : flatten[n] = f[n]
    BY <1>1, <1>3, <2>5, FlattenFromOne
  <2>7. N \in 1 .. N
    BY <1>1, <1>5
  <2> QED
    BY <2>1, <2>6, <2>7 DEF N
<1> QED
  BY <1>4, <1>5

LEMMA FlattenType ==
    ASSUME NEW X, NEW ss \in Seq(Seq(X))
    PROVE  FlattenSeq(ss) \in Seq(X)
<1>1. PICK f \in [0 .. Len(ss) -> Seq(X)] :
          f[0] = <<>> /\ \A n \in 1 .. Len(ss) : f[n] = f[n - 1] \o ss[n]
  BY FlattenSteps
<1>2. FlattenSeq(ss) = f[Len(ss)]
  BY <1>1, FlattenIs
<1> QED
  BY <1>2

LEMMA FlattenAppend ==
    ASSUME NEW X, NEW ss \in Seq(Seq(X)), NEW s \in Seq(X)
    PROVE  FlattenSeq(Append(ss, s)) = FlattenSeq(ss) \o s
<1> DEFINE tt == Append(ss, s)
<1>1. tt \in Seq(Seq(X)) /\ Len(tt) = Len(ss) + 1 /\ Len(ss) \in Nat /\ tt[Len(tt)] = s
      /\ \A n \in 1 .. Len(ss) : tt[n] = ss[n]
  OBVIOUS
<1> HIDE DEF tt
<1>2. PICK f \in [0 .. Len(tt) -> Seq(X)] :
          f[0] = <<>> /\ \A n \in 1 .. Len(tt) : f[n] = f[n - 1] \o tt[n]
  BY <1>1, FlattenSteps
<1>3. FlattenSeq(tt) = f[Len(tt)]
  BY <1>1, <1>2, FlattenIs
<1>4. \A n \in 1 .. Len(ss) : f[n] = f[n - 1] \o ss[n]
  <2>1. \A n \in 1 .. Len(ss) : n \in 1 .. Len(tt)
    BY <1>1
  <2> QED
    BY <1>1, <1>2, <2>1
<1>5. FlattenSeq(ss) = f[Len(ss)]
  BY <1>2, <1>4, FlattenIs
<1>6. f[Len(tt)] = f[Len(ss)] \o s
  <2>1. Len(tt) \in 1 .. Len(tt) /\ Len(tt) - 1 = Len(ss)
    BY <1>1
  <2> QED
    BY <1>1, <1>2, <2>1
<1> QED
  BY <1>3, <1>5, <1>6 DEF tt

-----------------------------------------------------------------------------
(* A sequence of k blocks of n elements each, all blocks members of B. *)
Block(s, n, b) == [i \in 1 .. n |-> s[b * n + i]]
InBlocks(s, n, k, B) == Len(s) = k * n /\ \A b \in 0 .. k - 1 : Block(s, n, b) \in B

LEMMA BlockIndex ==
    ASSUME NEW n \in Nat \ {0}, NEW k \in Nat, NEW b \in 0 .. k - 1, NEW i \in 1 .. n
    PROVE  b * n + i \in 1 .. k * n
<1> DEFINE rest == (k - b - 1) * n
<1>1. k - b - 1 \in Nat /\ n \in Nat /\ b \in Nat
  OBVIOUS
<1>2. rest \in Nat
  BY <1>1
<1>3. k * n = b * n + n + rest
  BY <1>1
<1>4. b * n \in Nat
  BY <1>1
<1> HIDE DEF rest
<1> QED
  BY <1>2, <1>3, <1>4

LEMMA BlocksJoined ==
    ASSUME NEW X, NEW s \in Seq(X), NEW t \in Seq(X), NEW n \in Nat \ {0}, NEW B,
           NEW k \in Nat, InBlocks(s, n, k, B), NEW l \in Nat, InBlocks(t, n, l, B)
    PROVE  InBlocks(s \o t, n, k + l, B)
<1> DEFINE u == s \o t
<1>1. Len(s) = k * n /\ Len(t) = l * n /\ k * n \in Nat /\ l * n \in Nat
  BY DEF InBlocks
<1>2. Len(u) = k * n + l * n
      /\ (\A i \in 1 .. k * n : u[i] = s[i])
      /\ (\A i \in 1 .. l * n : u[k * n + i] = t[i])
  BY <1>1, SMTT(30)
<1> HIDE DEF u
<1>3. Len(u) = (k + l) * n
  BY <1>2
<1>4. ASSUME NEW b \in 0 .. k + l - 1 PROVE Block(u, n, b) \in B
  <2>1. CASE b < k
    <3>1. b \in 0 .. k - 1
      BY <2>1
    <3>2. \A i \in 1 .. n : u[b * n + i] = s[b * n + i]
      BY <1>2, <3>1, BlockIndex
    <3>3. Block(u, n, b) = Block(s, n, b)
      BY <3>2 DEF Block
    <3> QED
      BY <3>1, <3>3 DEF InBlocks
  <2>2. CASE b >= k
    <3>1. b - k \in 0 .. l - 1
      BY <2>2
    <3>2. \A i \in 1 .. n : b * n + i = k * n + ((b - k) * n + i)
      OBVIOUS
    <3>3. \A i \in 1 .. n : (b - k) * n + i \in 1 .. l * n
      BY <3>1, BlockIndex
    <3>4. \A i \in 1 .. n : u[b * n + i] = t[(b - k) * n + i]
      BY <1>2, <3>2, <3>3
    <3>5. Block(u, n, b) = Block(t, n, b - k)
      BY <3>4 DEF Block
    <3> QED
      BY <3>1, <3>5 DEF InBlocks
  <2> QED
    BY <2>1, <2>2
<1> QED
  BY <1>3, <1>4 DEF InBlocks, u

-----------------------------------------------------------------------------
(* Among the numbers up to n, what is injective is onto. *)
LEMMA InjectiveIsOnto ==
    ASSUME NEW n \in Nat, NEW f \in [1 .. n -> 1 .. n],
           \A i, j \in 1 .. n : f[i] = f[j] => i = j
    PROVE  \A m \in 1 .. n : \E i \in 1 .. n : f[i] = m
<1>1. f \in Injection(1 .. n, 1 .. n)
  BY DEF Injection, IsInjective
<1>2. IsFiniteSet(1 .. n)
  BY FS_Interval
<1>3. f \in Surjection(1 .. n, 1 .. n)
  BY <1>1, <1>2, FS_Injection
<1> QED
  BY <1>3 DEF Surjection

(* A bijection joins sets of the same number of elements. *)
Bijective(f, S, T) ==
    /\ f \in [S -> T]
    /\ \A x, y \in S : f[x] = f[y] => x = y
    /\ \A y \in T : \E x \in S : f[x] = y

LEMMA BijectiveSize ==
    ASSUME NEW S, NEW T, IsFiniteSet(S), NEW f, Bijective(f, S, T)
    PROVE  IsFiniteSet(T) /\ Cardinality(T) = Cardinality(S)
<1>1. f \in Bijection(S, T)
  BY DEF Bijective, Bijection, Injection, Surjection, IsInjective
<1> QED
  BY <1>1, FS_Bijection DEF ExistsBijection

LEMMA SameLength ==
    ASSUME NEW m \in Nat, NEW n \in Nat, NEW f, Bijective(f, 1 .. m, 1 .. n)
    PROVE  m = n
<1>1. IsFiniteSet(1 .. m) /\ Cardinality(1 .. m) = m /\ Cardinality(1 .. n) = n
  BY FS_Interval
<1> QED
  BY <1>1, BijectiveSize

-----------------------------------------------------------------------------
(* before[i] is what comes before i in a strict order of 1 .. n: the number
   of elements before it is the place of an element, counted from 0. *)
StrictlyOrdered(n, before) ==
    /\ before \in [1 .. n -> SUBSET (1 .. n)]
    /\ \A i \in 1 .. n : i \notin before[i]
    /\ \A i, j \in 1 .. n : j \in before[i] => before[j] \subseteq before[i]
    /\ \A i, j \in 1 .. n : i # j => i \in before[j] \/ j \in before[i]
Places(n, before) ==
    { place \in [1 .. n -> 1 .. n] :
        /\ \A m \in 1 .. n : Cardinality(before[place[m]]) = m - 1
        /\ \A m, i \in 1 .. n : Cardinality(before[i]) = m - 1 => i = place[m]
        /\ Bijective(place, 1 .. n, 1 .. n)
        /\ \A l, m \in 1 .. n : l < m => place[l] \in before[place[m]] }

LEMMA RankIsPlace ==
    ASSUME NEW n \in Nat, NEW before, StrictlyOrdered(n, before)
    PROVE  Places(n, before) # {}
<1> DEFINE rank == [i \in 1 .. n |-> Cardinality(before[i]) + 1]
<1>1. IsFiniteSet(1 .. n) /\ Cardinality(1 .. n) = n
  BY FS_Interval
<1>2. ASSUME NEW i \in 1 .. n
      PROVE  IsFiniteSet(before[i]) /\ Cardinality(before[i]) \in 0 .. n - 1
  <2>1. before[i] \in SUBSET (1 .. n) /\ before[i] # 1 .. n
    BY DEF StrictlyOrdered
  <2>2. IsFiniteSet(before[i]) /\ Cardinality(before[i]) <= n /\ Cardinality(before[i]) # n
    BY <1>1, <2>1, FS_Subset
  <2>3. Cardinality(before[i]) \in Nat
    BY <2>2, FS_CardinalityType
  <2> QED
    BY <2>2, <2>3
<1>3. rank \in [1 .. n -> 1 .. n]
  BY <1>2
<1>4. ASSUME NEW i \in 1 .. n, NEW j \in 1 .. n, j \in before[i]
      PROVE  Cardinality(before[j]) < Cardinality(before[i])
  <2>1. before[j] \in SUBSET before[i] /\ before[j] # before[i]
    BY <1>4 DEF StrictlyOrdered
  <2>2. Cardinality(before[j]) <= Cardinality(before[i])
        /\ Cardinality(before[j]) # Cardinality(before[i])
    BY <1>2, <2>1, FS_Subset
  <2>3. Cardinality(before[j]) \in Nat /\ Cardinality(before[i]) \in Nat
    BY <1>2
  <2> QED
    BY <2>2, <2>3
<1>5. \A i, j \in 1 .. n : rank[i] = rank[j] => i = j
  <2> SUFFICES ASSUME NEW i \in 1 .. n, NEW j \in 1 .. n, rank[i] = rank[j], i # j PROVE FALSE
    OBVIOUS
  <2>1. Cardinality(before[i]) = Cardinality(before[j])
        /\ Cardinality(before[j]) \in Nat /\ Cardinality(before[i]) \in Nat
    BY <1>2
  <2>2. i \in before[j] \/ j \in before[i]
    BY DEF StrictlyOrdered
  <2> QED
    BY <1>4, <2>1, <2>2
<1>6. \A m \in 1 .. n : \E i \in 1 .. n : rank[i] = m
  <2> HIDE DEF rank
  <2> QED
    BY <1>3, <1>5, InjectiveIsOnto
<1> DEFINE place == [m \in 1 .. n |-> CHOOSE i \in 1 .. n : rank[i] = m]
<1> HIDE DEF rank
<1>7. \A m \in 1 .. n : place[m] \in 1 .. n /\ rank[place[m]] = m
  BY <1>6
<1>8. place \in [1 .. n -> 1 .. n]
  BY <1>7
<1> HIDE DEF place
<1>9. \A m \in 1 .. n : Cardinality(before[place[m]]) = m - 1
  <2> TAKE m \in 1 .. n
  <2>1. place[m] \in 1 .. n /\ rank[place[m]] = m
    BY <1>7
  <2>2. Cardinality(before[place[m]]) + 1 = m /\ Cardinality(before[place[m]]) \in 0 .. n - 1
    BY <1>2, <2>1 DEF rank
  <2> QED
    BY <2>2
<1>10. \A m, i \in 1 .. n : Cardinality(before[i]) = m - 1 => i = place[m]
  <2> SUFFICES ASSUME NEW m \in 1 .. n, NEW i \in 1 .. n, Cardinality(before[i]) = m - 1
               PROVE  i = place[m]
    OBVIOUS
  <2>1. rank[i] = m
    BY DEF rank
  <2> QED
    BY <1>5, <1>7, <2>1
<1>11. Bijective(place, 1 .. n, 1 .. n)
  <2>1. \A l, m \in 1 .. n : place[l] = place[m] => l = m
    BY <1>7
  <2>2. \A i \in 1 .. n : rank[i] \in 1 .. n /\ i = place[rank[i]]
    BY <1>3, <1>5, <1>7
  <2> QED
    BY <1>8, <2>1, <2>2 DEF Bijective
<1>12. \A l, m \in 1 .. n : l < m => place[l] \in before[place[m]]
  <2> SUFFICES ASSUME NEW l \in 1 .. n, NEW m \in 1 .. n, l < m,
                      place[l] \notin before[place[m]]
               PROVE  FALSE
    OBVIOUS
  <2>1. place[l] \in 1 .. n /\ place[m] \in 1 .. n /\ place[l] # place[m]
    BY <1>7
  <2>2. place[m] \in before[place[l]]
    BY <2>1 DEF StrictlyOrdered
  <2>3. Cardinality(before[place[m]]) < Cardinality(before[place[l]])
    BY <1>4, <2>1, <2>2
  <2> QED
    BY <1>9, <2>3
<1> QED
  BY <1>8, <1>9, <1>10, <1>11, <1>12 DEF Places

-----------------------------------------------------------------------------
(* t has the elements of s, each as often as s, in some order. *)
Rearrangements(s, t) ==
    { p \in [1 .. Len(t) -> 1 .. Len(s)] :
        /\ Bijective(p, 1 .. Len(t), 1 .. Len(s))
        /\ \A i \in 1 .. Len(t) : t[i] = s[p[i]] }
Rearranged(s, t) == Rearrangements(s, t) # {}

LEMMA RearrangedLength ==
    ASSUME NEW X, NEW s \in Seq(X), NEW t \in Seq(X), Rearranged(s, t)
    PROVE  Len(t) = Len(s)
<1>1. PICK p : Bijective(p, 1 .. Len(t), 1 .. Len(s))
  BY DEF Rearranged, Rearrangements
<1> QED
  BY <1>1, SameLength

LEMMA RearrangedSelf ==
    ASSUME NEW X, NEW s \in Seq(X)
    PROVE  Rearranged(s, s)
<1> DEFINE p == [i \in 1 .. Len(s) |-> i]
<1>1. Bijective(p, 1 .. Len(s), 1 .. Len(s))
  BY DEF Bijective
<1>2. p \in Rearrangements(s, s)
  BY <1>1 DEF Rearrangements
<1> QED
  BY <1>2 DEF Rearranged

LEMMA RearrangedJoined ==
    ASSUME NEW X, NEW s \in Seq(X), NEW t \in Seq(X), NEW u \in Seq(X), NEW v \in Seq(X),
           Rearranged(s, t), Rearranged(u, v)
    PROVE  Rearranged(s \o u, t \o v)
<1>1. PICK p \in Rearrangements(s, t) : TRUE
  BY DEF Rearranged
<1>2. PICK q \in Rearrangements(u, v) : TRUE
  BY DEF Rearranged
<1> DEFINE m == Len(s)  n == Len(u)
           a == s \o u  b == t \o v
           r == [i \in 1 .. m + n |-> IF i <= m THEN p[i] ELSE m + q[i - m]]
<1>3. Len(t) = m /\ Len(v) = n /\ m \in Nat /\ n \in Nat
  BY RearrangedLength
<1>4. /\ p \in [1 .. m -> 1 .. m] /\ q \in [1 .. n -> 1 .. n]
      /\ \A i, j \in 1 .. m : p[i] = p[j] => i = j
      /\ \A i, j \in 1 .. n : q[i] = q[j] => i = j
      /\ \A y \in 1 .. m : \E x \in 1 .. m : p[x] = y
      /\ \A y \in 1 .. n : \E x \in 1 .. n : q[x] = y
      /\ \A i \in 1 .. m : t[i] = s[p[i]]
      /\ \A i \in 1 .. n : v[i] = u[q[i]]
  BY <1>1, <1>2, <1>3 DEF Rearrangements, Bijective
<1>5. /\ Len(a) = m + n /\ Len(b) = m + n
      /\ \A i \in 1 .. m + n : a[i] = IF i <= m THEN s[i] ELSE u[i - m]
      /\ \A i \in 1 .. m + n : b[i] = IF i <= m THEN t[i] ELSE v[i - m]
  BY <1>3
<1> HIDE DEF m, n, a, b
<1>6. \A i \in 1 .. m + n : i <= m => i \in 1 .. m /\ r[i] = p[i] /\ p[i] \in 1 .. m
  BY <1>3, <1>4
<1>a. \A i \in 1 .. m + n : i > m => i - m \in 1 .. n /\ r[i] = m + q[i - m]
  BY <1>3
<1>b. \A i \in 1 .. m + n : i > m => q[i - m] \in 1 .. n
  BY <1>4, <1>a
<1>7. r \in [1 .. m + n -> 1 .. m + n]
  <2>1. \A i \in 1 .. m + n : r[i] \in 1 .. m + n
    <3> TAKE i \in 1 .. m + n
    <3>1. CASE i <= m
      BY <1>3, <1>6, <3>1
    <3>2. CASE i > m
      <4>1. r[i] = m + q[i - m] /\ q[i - m] \in 1 .. n
        BY <1>a, <1>b, <3>2
      <4> HIDE DEF r
      <4> QED
        BY <1>3, <4>1
    <3> QED
      BY <1>3, <3>1, <3>2
  <2> QED
    BY <2>1
<1> HIDE DEF r
<1>8. \A i, j \in 1 .. m + n : r[i] = r[j] => i = j
  <2> SUFFICES ASSUME NEW i \in 1 .. m + n, NEW j \in 1 .. m + n, r[i] = r[j] PROVE i = j
    OBVIOUS
  <2>1. CASE i <= m /\ j <= m
    <3>1. i \in 1 .. m /\ j \in 1 .. m /\ p[i] = p[j]
      BY <1>6, <2>1
    <3> QED
      BY <1>4, <3>1
  <2>2. CASE i > m /\ j > m
    <3>3. /\ i - m \in 1 .. n /\ j - m \in 1 .. n /\ q[i - m] \in 1 .. n /\ q[j - m] \in 1 .. n
          /\ m + q[i - m] = m + q[j - m]
      BY <1>a, <1>b, <2>2
    <3>1. q[i - m] = q[j - m]
      BY <1>3, <3>3
    <3>2. i - m = j - m
      BY <1>4, <3>1, <3>3
    <3> QED
      BY <1>3, <3>2
  <2>3. CASE i <= m /\ j > m
    <3>1. r[i] \in 1 .. m /\ r[j] = m + q[j - m] /\ q[j - m] \in 1 .. n
      BY <1>6, <1>a, <1>b, <2>3
    <3> QED
      BY <1>3, <3>1
  <2>4. CASE i > m /\ j <= m
    <3>1. r[j] \in 1 .. m /\ r[i] = m + q[i - m] /\ q[i - m] \in 1 .. n
      BY <1>6, <1>a, <1>b, <2>4
    <3> QED
      BY <1>3, <3>1
  <2> QED
    BY <1>3, <2>1, <2>2, <2>3, <2>4
<1>9. \A y \in 1 .. m + n : \E x \in 1 .. m + n : r[x] = y
  <2>1. m + n \in Nat
    BY <1>3
  <2> QED
    BY <1>7, <1>8, <2>1, InjectiveIsOnto
<1>10. \A i \in 1 .. m + n : b[i] = a[r[i]]
  <2> TAKE i \in 1 .. m + n
  <2>1. CASE i <= m
    <3>1. b[i] = t[i] /\ t[i] = s[p[i]] /\ r[i] = p[i] /\ p[i] \in 1 .. m
      BY <1>4, <1>5, <1>6, <2>1
    <3>2. a[p[i]] = s[p[i]]
      BY <1>3, <1>5, <3>1
    <3> QED
      BY <3>1, <3>2
  <2>2. CASE i > m
    <3>4. i - m \in 1 .. n /\ ~(i <= m)
      BY <1>3, <1>a, <2>2
    <3>1. b[i] = v[i - m] /\ v[i - m] = u[q[i - m]]
      BY <1>4, <1>5, <3>4
    <3>2. r[i] = m + q[i - m] /\ q[i - m] \in 1 .. n /\ r[i] \in 1 .. m + n
      BY <1>a, <1>b, <1>7, <2>2
    <3>3. a[r[i]] = u[r[i] - m] /\ r[i] - m = q[i - m]
      BY <1>3, <1>5, <3>2
    <3> QED
      BY <3>1, <3>3
  <2> QED
    BY <1>3, <2>1, <2>2
<1>11. r \in Rearrangements(a, b)
  BY <1>5, <1>7, <1>8, <1>9, <1>10 DEF Rearrangements, Bijective
<1> QED
  BY <1>11 DEF Rearranged, a, b

(* Joining sequences one after the other keeps what holds of each of them. *)
LEMMA FlattenRearranged ==
    ASSUME NEW X, NEW ss \in Seq(Seq(X)), NEW tt \in Seq(Seq(X)), Len(ss) = Len(tt),
           \A i \in 1 .. Len(ss) : Rearranged(ss[i], tt[i])
    PROVE  Rearranged(FlattenSeq(ss), FlattenSeq(tt))
<1> DEFINE N == Len(ss)
<1>1. N \in Nat /\ \A n \in 1 .. N : ss[n] \in Seq(X) /\ tt[n] \in Seq(X)
  OBVIOUS
<1>2. PICK f \in [0 .. N -> Seq(X)] :
          f[0] = <<>> /\ \A n \in 1 .. N : f[n] = f[n - 1] \o ss[n]
  BY FlattenSteps
<1>3. PICK g \in [0 .. N -> Seq(X)] :
          g[0] = <<>> /\ \A n \in 1 .. N : g[n] = g[n - 1] \o tt[n]
  BY FlattenSteps
<1>4. FlattenSeq(ss) = f[N] /\ FlattenSeq(tt) = g[N]
  BY <1>2, <1>3, FlattenIs
<1> DEFINE P == { n \in 0 .. N : Rearranged(f[n], g[n]) }
<1> HIDE DEF N
<1>5. 0 \in P
  <2>1. <<>> \in Seq(X) /\ f[0] = <<>> /\ g[0] = <<>> /\ 0 \in 0 .. N
    BY <1>1, <1>2, <1>3
  <2>2. Rearranged(<<>>, <<>>)
    BY ONLY <2>1, RearrangedSelf
  <2> QED
    BY <2>1, <2>2
<1>6. ASSUME NEW n \in 1 .. N, n - 1 \in P PROVE n \in P
  <2>1. n \in 0 .. N /\ n - 1 \in 0 .. N
    BY <1>1
  <2>2. f[n - 1] \in Seq(X) /\ g[n - 1] \in Seq(X) /\ ss[n] \in Seq(X) /\ tt[n] \in Seq(X)
    BY <1>1, <1>2, <1>3, <2>1
  <2>3. Rearranged(f[n - 1], g[n - 1]) /\ Rearranged(ss[n], tt[n])
    BY <1>6 DEF N
  <2>4. Rearranged(f[n - 1] \o ss[n], g[n - 1] \o tt[n])
    BY <2>2, <2>3, RearrangedJoined
  <2> QED
    BY <1>2, <1>3, <2>1, <2>4
<1> HIDE DEF P
<1>7. \A n \in 0 .. N : n \in P
  BY <1>1, <1>5, <1>6, UpToInduction
<1> QED
  BY <1>1, <1>4, <1>7 DEF P

Mapped(s, g) == [j \in 1 .. Len(s) |-> g[s[j]]]

Maps(Y, X) == [Y -> X]

LEMMA MappedType ==
    ASSUME NEW X, NEW Y, NEW g \in Maps(Y, X), NEW s \in Seq(Y)
    PROVE  Mapped(s, g) \in Seq(X) /\ Len(Mapped(s, g)) = Len(s)
BY DEF Mapped, Maps

JoinOf(s, t, u) ==
    /\ Len(u) = Len(s) + Len(t)
    /\ \A i \in 1 .. Len(s) : u[i] = s[i]
    /\ \A i \in 1 .. Len(t) : u[Len(s) + i] = t[i]

LEMMA JoinedAt ==
    ASSUME NEW X, NEW s \in Seq(X), NEW t \in Seq(X), NEW u, u = s \o t
    PROVE  u \in Seq(X) /\ JoinOf(s, t, u)
BY DEF JoinOf

LEMMA MappedJoined ==
    ASSUME NEW X, NEW Y, NEW g \in Maps(Y, X), NEW s \in Seq(Y), NEW t \in Seq(Y)
    PROVE  Mapped(s \o t, g) = Mapped(s, g) \o Mapped(t, g)
<1>1. \A r \in Seq(Y) : Mapped(r, g) \in Seq(X) /\ Len(Mapped(r, g)) = Len(r)
  BY MappedType
<1> DEFINE a == Mapped(s \o t, g)  b == Mapped(s, g) \o Mapped(t, g)  m == Len(s)  n == Len(t)
<1>2. s \o t \in Seq(Y) /\ Len(s \o t) = m + n /\ m \in Nat /\ n \in Nat
      /\ \A i \in 1 .. m + n : (s \o t)[i] = IF i <= m THEN s[i] ELSE t[i - m]
  OBVIOUS
<1>3. a \in Seq(X) /\ Len(a) = m + n
  BY <1>1, <1>2
<1>4. b \in Seq(X) /\ Len(b) = m + n
      /\ \A i \in 1 .. m + n : b[i] = IF i <= m THEN Mapped(s, g)[i] ELSE Mapped(t, g)[i - m]
  <2> DEFINE u == Mapped(s, g)  v == Mapped(t, g)
  <2>1. u \in Seq(X) /\ Len(u) = m /\ v \in Seq(X) /\ Len(v) = n
    BY <1>1
  <2> HIDE DEF u, v
  <2>2. u \o v \in Seq(X) /\ Len(u \o v) = m + n
        /\ \A i \in 1 .. m + n : (u \o v)[i] = IF i <= m THEN u[i] ELSE v[i - m]
    BY <2>1
  <2> QED
    BY <2>2 DEF u, v
<1>5. \A i \in 1 .. m + n : a[i] = b[i]
  <2> TAKE i \in 1 .. m + n
  <2>1. a[i] = g[(s \o t)[i]]
    BY <1>2 DEF Mapped
  <2>2. CASE i <= m
    <3>1. Mapped(s, g)[i] = g[s[i]]
      BY <1>2, <2>2 DEF Mapped
    <3> QED
      BY <1>2, <1>4, <2>1, <2>2, <3>1
  <2>3. CASE ~(i <= m)
    <3>1. i - m \in 1 .. n
      BY <1>2, <2>3
    <3>2. Mapped(t, g)[i - m] = g[t[i - m]]
      BY <3>1 DEF Mapped
    <3> QED
      BY <1>2, <1>4, <2>1, <2>3, <3>2
  <2> QED
    BY <2>2, <2>3
<1>6. a = b
  <2> HIDE DEF a, b, m, n
  <2>1. a = [i \in 1 .. m + n |-> a[i]] /\ b = [i \in 1 .. m + n |-> b[i]]
    BY <1>3, <1>4
  <2> QED
    BY <1>5, <2>1
<1> QED
  BY <1>6

LEMMA FlattenMapped ==
    ASSUME NEW X, NEW Y, NEW g \in Maps(Y, X), NEW ss \in Seq(Seq(Y)), NEW tt \in Seq(Seq(X)),
           Len(tt) = Len(ss), \A n \in 1 .. Len(ss) : tt[n] = Mapped(ss[n], g)
    PROVE  FlattenSeq(tt) = Mapped(FlattenSeq(ss), g)
<1> DEFINE N == Len(ss)
<1>1. N \in Nat /\ \A n \in 1 .. N : ss[n] \in Seq(Y)
  OBVIOUS
<1>2. PICK f \in [0 .. N -> Seq(Y)] :
          f[0] = <<>> /\ \A n \in 1 .. N : f[n] = f[n - 1] \o ss[n]
  BY FlattenSteps
<1>3. FlattenSeq(ss) = f[N]
  BY <1>2, FlattenIs
<1> DEFINE h == [n \in 0 .. N |-> Mapped(f[n], g)]
<1>a. \A n \in 1 .. N : tt[n] = Mapped(ss[n], g)
  OBVIOUS
<1>b. Len(tt) = N
  OBVIOUS
<1> HIDE DEF N
<1>4. h[0] = <<>>
  BY <1>1, <1>2 DEF Mapped
<1>5. \A n \in 1 .. N : h[n] = h[n - 1] \o tt[n]
  <2> TAKE n \in 1 .. N
  <2>0. n \in 0 .. N /\ n - 1 \in 0 .. N
    BY <1>1
  <2>1. n \in 0 .. N /\ n - 1 \in 0 .. N /\ f[n - 1] \in Seq(Y) /\ ss[n] \in Seq(Y)
        /\ f[n] = f[n - 1] \o ss[n]
    BY <1>1, <1>2, <2>0
  <2>2. \A u, v \in Seq(Y) : Mapped(u \o v, g) = Mapped(u, g) \o Mapped(v, g)
    <3> TAKE u \in Seq(Y), v \in Seq(Y)
    <3> QED
      BY MappedJoined
  <2> QED
    BY <1>a, <2>0, <2>1, <2>2
<1> HIDE DEF h
<1>6. FlattenSeq(tt) = h[Len(tt)]
  BY <1>4, <1>5, <1>b, FlattenIs
<1> QED
  BY <1>1, <1>3, <1>6, <1>b DEF h

(* No element occurs twice in the sequences of ss. *)
Apart(ss) ==
    \A p, q \in 1 .. Len(ss) : \A i \in 1 .. Len(ss[p]) : \A j \in 1 .. Len(ss[q]) :
        ss[p][i] = ss[q][j] => p = q /\ i = j
IsIn(s, x) == \E j \in 1 .. Len(s) : s[j] = x
Once(s) == \A i, j \in 1 .. Len(s) : s[i] = s[j] => i = j

LEMMA JoinedElements ==
    ASSUME NEW X, NEW s \in Seq(X), NEW t \in Seq(X)
    PROVE  /\ \A x : IsIn(s \o t, x) <=> IsIn(s, x) \/ IsIn(t, x)
           /\ Once(s) /\ Once(t) /\ (\A x : ~(IsIn(s, x) /\ IsIn(t, x))) => Once(s \o t)
<1> DEFINE a == s \o t  m == Len(s)  n == Len(t)
<1>1. Len(a) = m + n /\ m \in Nat /\ n \in Nat
      /\ (\A i \in 1 .. m : a[i] = s[i]) /\ (\A i \in 1 .. n : a[m + i] = t[i])
  OBVIOUS
<1> HIDE DEF a
<1>2. \A i \in 1 .. m + n : i \in 1 .. m \/ (i - m \in 1 .. n /\ m + (i - m) = i)
  BY <1>1
<1>3. \A i \in 1 .. m + n : (i \in 1 .. m /\ a[i] = s[i]) \/ (i - m \in 1 .. n /\ a[i] = t[i - m])
  BY <1>1, <1>2
<1>4. ASSUME NEW x PROVE IsIn(a, x) <=> IsIn(s, x) \/ IsIn(t, x)
  <2>1. ASSUME IsIn(a, x) PROVE IsIn(s, x) \/ IsIn(t, x)
    BY <1>1, <1>3, <2>1 DEF IsIn
  <2>2. ASSUME IsIn(s, x) PROVE IsIn(a, x)
    <3>1. PICK j \in 1 .. m : s[j] = x
      BY <2>2 DEF IsIn
    <3>2. j \in 1 .. m + n /\ a[j] = x
      BY <1>1, <3>1
    <3> QED
      BY <1>1, <3>2 DEF IsIn
  <2>3. ASSUME IsIn(t, x) PROVE IsIn(a, x)
    <3>1. PICK j \in 1 .. n : t[j] = x
      BY <2>3 DEF IsIn
    <3>2. m + j \in 1 .. m + n /\ a[m + j] = x
      BY <1>1, <3>1
    <3> QED
      BY <1>1, <3>2 DEF IsIn
  <2> QED
    BY <2>1, <2>2, <2>3
<1>5. ASSUME Once(s), Once(t), \A x : ~(IsIn(s, x) /\ IsIn(t, x)) PROVE Once(a)
  <2> SUFFICES ASSUME NEW i \in 1 .. m + n, NEW j \in 1 .. m + n, a[i] = a[j] PROVE i = j
    BY <1>1 DEF Once
  <2>1. CASE i \in 1 .. m /\ a[i] = s[i] /\ j \in 1 .. m /\ a[j] = s[j]
    BY <1>5, <2>1 DEF Once
  <2>2. CASE i - m \in 1 .. n /\ a[i] = t[i - m] /\ j - m \in 1 .. n /\ a[j] = t[j - m]
    <3>1. i - m = j - m
      BY <1>5, <2>2 DEF Once
    <3> QED
      BY <1>1, <3>1
  <2>3. CASE i \in 1 .. m /\ a[i] = s[i] /\ j - m \in 1 .. n /\ a[j] = t[j - m]
    <3>1. IsIn(s, a[i]) /\ IsIn(t, a[i])
      BY <2>3 DEF IsIn
    <3> QED
      BY <1>5, <3>1
  <2>4. CASE j \in 1 .. m /\ a[j] = s[j] /\ i - m \in 1 .. n /\ a[i] = t[i - m]
    <3>1. IsIn(s, a[i]) /\ IsIn(t, a[i])
      BY <2>4 DEF IsIn
    <3> QED
      BY <1>5, <3>1
  <2> QED
    BY <1>3, <2>1, <2>2, <2>3, <2>4
<1> QED
  BY <1>4, <1>5 DEF a

LEMMA FlattenOnce ==
    ASSUME NEW X, NEW ss \in Seq(Seq(X)), Apart(ss)
    PROVE  /\ Once(FlattenSeq(ss))
           /\ \A x : IsIn(FlattenSeq(ss), x) <=> \E p \in 1 .. Len(ss) : IsIn(ss[p], x)
<1> DEFINE N == Len(ss)
<1>1. N \in Nat /\ \A n \in 1 .. N : ss[n] \in Seq(X)
  OBVIOUS
<1>2. PICK f \in [0 .. N -> Seq(X)] :
          f[0] = <<>> /\ \A n \in 1 .. N : f[n] = f[n - 1] \o ss[n]
  BY FlattenSteps
<1>3. FlattenSeq(ss) = f[N]
  BY <1>2, FlattenIs
<1> DEFINE P == { n \in 0 .. N : Once(f[n])
                                 /\ \A x : IsIn(f[n], x) <=> \E p \in 1 .. n : IsIn(ss[p], x) }
<1>a. \A p, q \in 1 .. N : \A i \in 1 .. Len(ss[p]) : \A j \in 1 .. Len(ss[q]) :
          ss[p][i] = ss[q][j] => p = q /\ i = j
  BY DEF Apart
<1> HIDE DEF N
<1>4. 0 \in P
  <2>1. 0 \in 0 .. N /\ f[0] = <<>> /\ Len(<<>>) = 0 /\ 1 .. 0 = {}
    BY <1>1, <1>2
  <2>2. Once(f[0])
    BY <2>1 DEF Once
  <2>3. ASSUME NEW x PROVE IsIn(f[0], x) <=> \E p \in 1 .. 0 : IsIn(ss[p], x)
    BY <2>1 DEF IsIn
  <2> QED
    BY <2>1, <2>2, <2>3
<1>5. ASSUME NEW n \in 1 .. N, n - 1 \in P PROVE n \in P
  <2>0. n \in 0 .. N /\ n - 1 \in 0 .. N
    BY <1>1
  <2>1. n \in 0 .. N /\ n - 1 \in 0 .. N /\ f[n - 1] \in Seq(X) /\ ss[n] \in Seq(X)
        /\ f[n] = f[n - 1] \o ss[n]
    BY <1>1, <1>2, <2>0
  <2>2. Once(f[n - 1]) /\ \A x : IsIn(f[n - 1], x) <=> \E p \in 1 .. n - 1 : IsIn(ss[p], x)
    BY <1>5
  <2>3. \A x : IsIn(f[n], x) <=> IsIn(f[n - 1], x) \/ IsIn(ss[n], x)
    BY <2>1, JoinedElements
  <2>4. \A p \in 1 .. n : p = n \/ p \in 1 .. n - 1
    BY <1>1
  <2>5. n \in 1 .. n /\ \A p \in 1 .. n - 1 : p \in 1 .. n
    BY <1>1
  <2>6. ASSUME NEW x PROVE IsIn(f[n], x) <=> \E p \in 1 .. n : IsIn(ss[p], x)
    BY ONLY <2>2, <2>3, <2>4, <2>5
  <2>7. Once(ss[n])
    BY <1>a DEF Once
  <2>8. ASSUME NEW x, IsIn(f[n - 1], x), IsIn(ss[n], x) PROVE FALSE
    <3>1. PICK p \in 1 .. n - 1 : IsIn(ss[p], x)
      BY <2>2, <2>8
    <3>2. PICK i \in 1 .. Len(ss[p]) : ss[p][i] = x
      BY <3>1 DEF IsIn
    <3>3. PICK j \in 1 .. Len(ss[n]) : ss[n][j] = x
      BY <2>8 DEF IsIn
    <3>4. p \in 1 .. N /\ p # n
      BY <1>1, <3>1
    <3> QED
      BY <1>a, <3>2, <3>3, <3>4
  <2>9. Once(f[n])
    BY <2>1, <2>2, <2>7, <2>8, JoinedElements
  <2> QED
    BY <2>1, <2>6, <2>9
<1> HIDE DEF P
<1>6. \A n \in 0 .. N : n \in P
  BY <1>1, <1>4, <1>5, UpToInduction
<1>7. N \in P
  BY <1>1, <1>6
<1> QED
  BY <1>3, <1>7 DEF P, N

(* Sequences that share the numbers up to n out among them. *)
LEMMA FlattenShares ==
    ASSUME NEW n \in Nat, NEW ss \in Seq(Seq(1 .. n)), Apart(ss),
           \A x \in 1 .. n : \E p \in 1 .. Len(ss) : IsIn(ss[p], x)
    PROVE  /\ FlattenSeq(ss) \in Seq(1 .. n) /\ Len(FlattenSeq(ss)) = n
           /\ Bijective(FlattenSeq(ss), 1 .. n, 1 .. n)
<1> DEFINE flat == FlattenSeq(ss)
<1>1. flat \in Seq(1 .. n)
  BY FlattenType
<1>2. Once(flat) /\ \A x \in 1 .. n : IsIn(flat, x)
  BY FlattenOnce
<1> HIDE DEF flat
<1>3. Len(flat) \in Nat /\ flat \in [1 .. Len(flat) -> 1 .. n]
  BY <1>1, SMTT(30)
<1>4. Bijective(flat, 1 .. Len(flat), 1 .. n)
  BY <1>2, <1>3 DEF Bijective, Once, IsIn
<1>5. Len(flat) = n
  BY <1>3, <1>4, SameLength
<1> QED
  BY <1>1, <1>4, <1>5 DEF flat

(* Pieces between one cut and the next. *)
Cuts(N, L) ==
    { cut \in [0 .. N -> 0 .. L] :
        cut[0] = 0 /\ cut[N] = L /\ \A p \in 1 .. N : cut[p - 1] <= cut[p] }
BetweenCuts(s, N, cut) == [p \in 1 .. N |-> SubSeq(s, cut[p - 1] + 1, cut[p])]

LEMMA FlattenCuts ==
    ASSUME NEW X, NEW s \in Seq(X), NEW N \in Nat, NEW cut \in Cuts(N, Len(s))
    PROVE  FlattenSeq(BetweenCuts(s, N, cut)) = s
<1> DEFINE ss == [p \in 1 .. N |-> SubSeq(s, cut[p - 1] + 1, cut[p])]
<1>0. /\ cut \in [0 .. N -> 0 .. Len(s)] /\ cut[0] = 0 /\ cut[N] = Len(s)
      /\ \A p \in 1 .. N : cut[p - 1] <= cut[p]
  BY DEF Cuts
<1> DEFINE f == [n \in 0 .. N |-> SubSeq(s, 1, cut[n])]
<1>1. \A n \in 1 .. N : n \in 0 .. N /\ n - 1 \in 0 .. N
  OBVIOUS
<1>2. \A a, b \in 0 .. Len(s) : SubSeq(s, a + 1, b) \in Seq(X)
  OBVIOUS
<1>3. \A n \in 1 .. N : ss[n] = SubSeq(s, cut[n - 1] + 1, cut[n]) /\ ss[n] \in Seq(X)
  BY <1>0, <1>1, <1>2
<1>b. ss = BetweenCuts(s, N, cut)
  BY DEF BetweenCuts
<1>c. ss = [p \in 1 .. N |-> ss[p]]
  OBVIOUS
<1> HIDE DEF ss
<1>4. ss \in Seq(Seq(X)) /\ Len(ss) = N
  <2> DEFINE V == Seq(X)
  <2>1. \A n \in 1 .. N : ss[n] \in V
    BY <1>3
  <2> HIDE DEF V
  <2>2. ss \in [1 .. N -> V]
    BY <1>c, <2>1
  <2>3. ss \in Seq(V) /\ Len(ss) = N
    BY <2>2
  <2> QED
    BY <2>3 DEF V
<1>5. \A a, b \in 0 .. Len(s) : a <= b =>
          SubSeq(s, 1, b) = SubSeq(s, 1, a) \o SubSeq(s, a + 1, b)
  <2> SUFFICES ASSUME NEW a \in 0 .. Len(s), NEW b \in 0 .. Len(s), a <= b
               PROVE  SubSeq(s, 1, b) = SubSeq(s, 1, a) \o SubSeq(s, a + 1, b)
    OBVIOUS
  <2> DEFINE u == SubSeq(s, 1, a)  v == SubSeq(s, a + 1, b)
  <2>1. u \in Seq(X) /\ Len(u) = a /\ (\A i \in 1 .. a : u[i] = s[i])
    OBVIOUS
  <2>2. v \in Seq(X) /\ Len(v) = b - a /\ (\A i \in 1 .. b - a : v[i] = s[a + i])
    OBVIOUS
  <2> HIDE DEF u, v
  <2>3. \A i \in 1 .. b : (u \o v)[i] = s[i]
    <3> TAKE i \in 1 .. b
    <3>1. CASE i <= a
      BY <2>1, <2>2, <3>1
    <3>2. CASE ~(i <= a)
      <4>1. (u \o v)[i] = v[i - a] /\ i - a \in 1 .. b - a
        BY <2>1, <2>2, <3>2
      <4> QED
        BY <2>2, <4>1
    <3> QED
      BY <3>1, <3>2
  <2>4. u \o v \in Seq(X) /\ Len(u \o v) = b
    <3>1. a \in Int /\ b \in Int /\ a + (b - a) = b
      BY <1>0
    <3>2. u \in Seq(X) /\ v \in Seq(X) /\ Len(u) = a /\ Len(v) = b - a
      BY <2>1, <2>2
    <3>3. u \o v \in Seq(X) /\ Len(u \o v) = Len(u) + Len(v)
      BY ONLY <3>2
    <3> QED
      BY <3>1, <3>2, <3>3
  <2>5. SubSeq(s, 1, b) = [i \in 1 .. b |-> s[i]]
    OBVIOUS
  <2>6. u \o v = [i \in 1 .. b |-> (u \o v)[i]]
    <3> DEFINE w == u \o v
    <3>1. w \in Seq(X) /\ Len(w) = b
      BY <2>4
    <3> HIDE DEF w
    <3>2. w = [i \in 1 .. b |-> w[i]]
      BY <3>1
    <3> QED
      BY <3>2 DEF w
  <2> QED
    BY <2>3, <2>5, <2>6 DEF u, v
<1>6. \A n \in 1 .. Len(ss) : f[n] = f[n - 1] \o ss[n]
  <2> TAKE n \in 1 .. Len(ss)
  <2>1. n \in 1 .. N /\ n \in 0 .. N /\ n - 1 \in 0 .. N
    BY <1>1, <1>4
  <2> DEFINE a == cut[n - 1]  b == cut[n]
  <2>2. a \in 0 .. Len(s) /\ b \in 0 .. Len(s) /\ a <= b
    BY <1>0, <2>1
  <2>3. ss[n] = SubSeq(s, a + 1, b)
    BY <1>3, <2>1
  <2>4. f[n] = SubSeq(s, 1, b) /\ f[n - 1] = SubSeq(s, 1, a)
    BY <2>1
  <2> HIDE DEF a, b, f
  <2> QED
    BY <1>5, <2>2, <2>3, <2>4
<1>7. f[0] = <<>> /\ f[N] = s
  BY <1>0
<1> HIDE DEF f
<1> QED
  BY <1>4, <1>6, <1>7, <1>b, FlattenIs

(* Sequences of the same length. *)
LEMMA FlattenBlocks ==
    ASSUME NEW X, NEW ss \in Seq(Seq(X)), NEW n \in Nat,
           \A p \in 1 .. Len(ss) : Len(ss[p]) = n
    PROVE  /\ Len(FlattenSeq(ss)) = Len(ss) * n
           /\ \A p \in 1 .. Len(ss) : \A i \in 1 .. n :
                  FlattenSeq(ss)[(p - 1) * n + i] = ss[p][i]
<1> DEFINE N == Len(ss)
<1>1. N \in Nat /\ \A p \in 1 .. N : ss[p] \in Seq(X) /\ Len(ss[p]) = n
  OBVIOUS
<1>2. PICK f \in [0 .. N -> Seq(X)] :
          f[0] = <<>> /\ \A m \in 1 .. N : f[m] = f[m - 1] \o ss[m]
  BY FlattenSteps
<1>3. FlattenSeq(ss) = f[N]
  BY <1>2, FlattenIs
<1> DEFINE P == { m \in 0 .. N : Len(f[m]) = m * n /\ \A p \in 1 .. m : \A i \in 1 .. n :
                                     f[m][(p - 1) * n + i] = ss[p][i] }
<1> HIDE DEF N
<1>4. 0 \in P
  <2>1. 0 \in 0 .. N /\ f[0] = <<>> /\ 0 * n = 0 /\ Len(<<>>) = 0 /\ 1 .. 0 = {}
    BY <1>1, <1>2
  <2> QED
    BY <2>1
<1>5. ASSUME NEW m \in 1 .. N, m - 1 \in P PROVE m \in P
  <2>0. m \in 0 .. N /\ m - 1 \in 0 .. N
    BY <1>1
  <2>1. m \in 0 .. N /\ m - 1 \in 0 .. N /\ f[m - 1] \in Seq(X) /\ ss[m] \in Seq(X)
        /\ f[m] = f[m - 1] \o ss[m] /\ Len(ss[m]) = n
    BY <1>1, <1>2, <2>0
  <2>2. Len(f[m - 1]) = (m - 1) * n
        /\ \A p \in 1 .. m - 1 : \A i \in 1 .. n : f[m - 1][(p - 1) * n + i] = ss[p][i]
    BY <1>5
  <2>3. (m - 1) * n + n = m * n /\ (m - 1) * n \in Nat
    BY <2>1
  <2> DEFINE l == (m - 1) * n
  <2>a. Len(f[m - 1]) = l /\ l \in Nat /\ l + n = m * n
    BY <2>2, <2>3
  <2> HIDE DEF l
  <2>b. Len(f[m]) = l + n /\ (\A i \in 1 .. l : f[m][i] = f[m - 1][i])
        /\ (\A i \in 1 .. n : f[m][l + i] = ss[m][i])
    <3>1. JoinOf(f[m - 1], ss[m], f[m])
      BY <2>1, JoinedAt
    <3> QED
      BY <2>1, <2>a, <3>1 DEF JoinOf
  <2>4. Len(f[m]) = m * n
    BY <2>a, <2>b
  <2>5. ASSUME NEW p \in 1 .. m, NEW i \in 1 .. n PROVE f[m][(p - 1) * n + i] = ss[p][i]
    <3>1. CASE p = m
      <4>1. f[m][(m - 1) * n + i] = ss[m][i]
        BY <2>b DEF l
      <4> QED
        BY <3>1, <4>1
    <3>2. CASE p # m
      <4>1. p \in 1 .. m - 1 /\ p - 1 \in 0 .. (m - 1) - 1 /\ n \in Nat \ {0} /\ m - 1 \in Nat
        BY <2>1, <3>2
      <4>2. (p - 1) * n + i \in 1 .. (m - 1) * n
        BY <4>1, BlockIndex
      <4>3. f[m][(p - 1) * n + i] = f[m - 1][(p - 1) * n + i]
        BY <2>b, <4>2 DEF l
      <4> QED
        BY <2>2, <4>1, <4>3
    <3> QED
      BY <3>1, <3>2
  <2> QED
    BY <2>1, <2>4, <2>5
<1> HIDE DEF P
<1>6. \A m \in 0 .. N : m \in P
  BY <1>1, <1>4, <1>5, UpToInduction
<1>7. N \in P
  BY <1>1, <1>6
<1> QED
  BY <1>3, <1>7 DEF P, N

-----------------------------------------------------------------------------
(* The elements of a set of positions together, by what each of them weighs. *)
SumsTo(n, g, f) == f[0] = 0 /\ \A i \in 1 .. n : f[i] = f[i - 1] + g[i]

LEMMA SumsExist ==
    ASSUME NEW n \in Nat, NEW g \in Maps(1 .. n, Nat)
    PROVE  \E f \in [0 .. n -> Nat] : SumsTo(n, g, f)
<1> DEFINE V == Nat
           step == [p \in (1 .. n) \X V |-> p[2] + g[p[1]]]
<1>0. \A i \in 1 .. n : g[i] \in Nat
  BY DEF Maps
<1>1. step \in [(1 .. n) \X V -> V] /\ 0 \in V
  BY <1>0
<1>2. \A i \in 1 .. n, v \in V : step[<<i, v>>] = v + g[i]
  OBVIOUS
<1> HIDE DEF step
<1>3. Recursions(n, V, 0, step) # {}
  BY <1>1, RecursionUpTo
<1>4. PICK f \in [0 .. n -> V] : f[0] = 0 /\ \A i \in 1 .. n : f[i] = step[<<i, f[i - 1]>>]
  BY <1>3 DEF Recursions
<1>5. \A i \in 1 .. n : f[i] = f[i - 1] + g[i]
  <2> TAKE i \in 1 .. n
  <2>1. i - 1 \in 0 .. n
    OBVIOUS
  <2>2. f[i - 1] \in V
    BY <2>1
  <2> QED
    BY <1>2, <1>4, <2>2
<1> QED
  BY <1>4, <1>5 DEF SumsTo

LEMMA SumsAgree ==
    ASSUME NEW n \in Nat, NEW g, NEW e, NEW f, SumsTo(n, g, e), SumsTo(n, g, f)
    PROVE  \A i \in 0 .. n : e[i] = f[i]
<1> DEFINE P == { i \in 0 .. n : e[i] = f[i] }
<1>1. 0 \in P
  BY DEF SumsTo
<1>2. ASSUME NEW i \in 1 .. n, i - 1 \in P PROVE i \in P
  BY <1>2 DEF SumsTo
<1> HIDE DEF P
<1>3. \A i \in 0 .. n : i \in P
  BY <1>1, <1>2, UpToInduction
<1> QED
  BY <1>3 DEF P

Within(n, w, A) == [i \in 1 .. n |-> IF i \in A THEN w[i] ELSE 0]
Weight(n, w, A) == (CHOOSE f \in [0 .. n -> Nat] : SumsTo(n, Within(n, w, A), f))[n]

LEMMA WeightIs ==
    ASSUME NEW n \in Nat, NEW w \in Maps(1 .. n, Nat), NEW A
    PROVE  \E f \in [0 .. n -> Nat] : SumsTo(n, Within(n, w, A), f) /\ Weight(n, w, A) = f[n]
<1>1. Within(n, w, A) \in Maps(1 .. n, Nat)
  BY DEF Within, Maps
<1>2. \E f \in [0 .. n -> Nat] : SumsTo(n, Within(n, w, A), f)
  BY <1>1, SumsExist
<1> QED
  BY <1>2 DEF Weight

Disjoint(A, B) == \A x : ~(x \in A /\ x \in B)

LEMMA WeightOfUnion ==
    ASSUME NEW n \in Nat, NEW w \in Maps(1 .. n, Nat), NEW A, NEW B, Disjoint(A, B)
    PROVE  /\ Weight(n, w, A) \in Nat /\ Weight(n, w, B) \in Nat
           /\ Weight(n, w, A \cup B) = Weight(n, w, A) + Weight(n, w, B)
<1> DEFINE C == A \cup B
<1>1. PICK f \in [0 .. n -> Nat] : SumsTo(n, Within(n, w, A), f) /\ Weight(n, w, A) = f[n]
  BY WeightIs
<1>2. PICK g \in [0 .. n -> Nat] : SumsTo(n, Within(n, w, B), g) /\ Weight(n, w, B) = g[n]
  BY WeightIs
<1>3. PICK h \in [0 .. n -> Nat] : SumsTo(n, Within(n, w, C), h) /\ Weight(n, w, C) = h[n]
  BY WeightIs
<1>4. \A i \in 1 .. n : /\ Within(n, w, C)[i] = Within(n, w, A)[i] + Within(n, w, B)[i]
                        /\ Within(n, w, A)[i] \in Nat /\ Within(n, w, B)[i] \in Nat
  BY DEF Within, Maps, Disjoint
<1> DEFINE P == { i \in 0 .. n : h[i] = f[i] + g[i] }
<1>5. 0 \in P
  BY <1>1, <1>2, <1>3 DEF SumsTo
<1>6. ASSUME NEW i \in 1 .. n, i - 1 \in P PROVE i \in P
  <2>1. i \in 0 .. n /\ i - 1 \in 0 .. n
    OBVIOUS
  <2>2. f[i - 1] \in Nat /\ g[i - 1] \in Nat
    BY <2>1
  <2>3. f[i] = f[i - 1] + Within(n, w, A)[i] /\ g[i] = g[i - 1] + Within(n, w, B)[i]
        /\ h[i] = h[i - 1] + Within(n, w, C)[i]
    BY <1>1, <1>2, <1>3 DEF SumsTo
  <2>4. h[i - 1] = f[i - 1] + g[i - 1]
    BY <1>6
  <2> DEFINE a == Within(n, w, A)[i]  b == Within(n, w, B)[i]  c == Within(n, w, C)[i]
  <2>6. /\ a \in Nat /\ b \in Nat /\ c = a + b
        /\ f[i] = f[i - 1] + a /\ g[i] = g[i - 1] + b /\ h[i] = h[i - 1] + c
    BY <1>4, <2>3
  <2> HIDE DEF C, a, b, c
  <2>5. h[i] = f[i] + g[i]
    BY <2>2, <2>4, <2>6
  <2> QED
    BY <2>1, <2>5
<1> HIDE DEF P
<1>7. \A i \in 0 .. n : i \in P
  BY <1>5, <1>6, UpToInduction
<1>8. h[n] = f[n] + g[n] /\ f[n] \in Nat /\ g[n] \in Nat
  BY <1>7 DEF P
<1> QED
  BY <1>1, <1>2, <1>3, <1>8

LEMMA WeightOfOne ==
    ASSUME NEW n \in Nat, NEW w \in Maps(1 .. n, Nat), NEW x \in 1 .. n
    PROVE  Weight(n, w, {x}) = w[x] /\ Weight(n, w, {}) = 0
<1>1. ASSUME NEW A, NEW m \in Nat, NEW y \in 1 .. n, \A i \in 1 .. n : i # y => i \notin A,
             m = IF y \in A THEN w[y] ELSE 0
      PROVE  Weight(n, w, A) = m
  <2>1. PICK f \in [0 .. n -> Nat] : SumsTo(n, Within(n, w, A), f) /\ Weight(n, w, A) = f[n]
    BY WeightIs
  <2>2. \A i \in 1 .. n : Within(n, w, A)[i] = IF i = y THEN m ELSE 0
    BY <1>1 DEF Within
  <2> DEFINE P == { i \in 0 .. n : f[i] = IF i < y THEN 0 ELSE m }
  <2>3. 0 \in P
    BY <2>1 DEF SumsTo
  <2>4. ASSUME NEW i \in 1 .. n, i - 1 \in P PROVE i \in P
    <3>1. f[i] = f[i - 1] + Within(n, w, A)[i]
      BY <2>1 DEF SumsTo
    <3>2. f[i - 1] = IF i - 1 < y THEN 0 ELSE m
      BY <2>4
    <3>3. f[i] = (IF i - 1 < y THEN 0 ELSE m) + (IF i = y THEN m ELSE 0)
      BY <2>2, <3>1, <3>2
    <3> QED
      BY <3>3
  <2> HIDE DEF P
  <2>5. \A i \in 0 .. n : i \in P
    BY <2>3, <2>4, UpToInduction
  <2>6. f[n] = m
    BY <2>5 DEF P
  <2> QED
    BY <2>1, <2>6
<1>2. w[x] \in Nat
  BY DEF Maps
<1>3. Weight(n, w, {x}) = w[x]
  <2>1. \A i \in 1 .. n : i # x => i \notin {x}
    OBVIOUS
  <2> QED
    BY <1>1, <1>2, <2>1
<1>4. Weight(n, w, {}) = 0
  BY <1>1
<1> QED
  BY <1>3, <1>4

(* A sequence without repetitions weighs what the set of its elements does. *)
Elements(s) == { s[i] : i \in 1 .. Len(s) }

LEMMA WeightOfSequence ==
    ASSUME NEW n \in Nat, NEW w \in Maps(1 .. n, Nat), NEW s \in Seq(1 .. n), Once(s),
           NEW f, SumsTo(Len(s), Mapped(s, w), f)
    PROVE  f[Len(s)] = Weight(n, w, Elements(s))
<1> DEFINE N == Len(s)
           First(i) == { s[j] : j \in 1 .. i }
           P == { i \in 0 .. N : f[i] = Weight(n, w, First(i)) }
<1>1. N \in Nat /\ \A i \in 1 .. N : s[i] \in 1 .. n /\ Mapped(s, w)[i] = w[s[i]]
  BY DEF Mapped
<1>2. \A i, j \in 1 .. N : s[i] = s[j] => i = j
  BY DEF Once
<1>a. f[0] = 0 /\ \A i \in 1 .. N : f[i] = f[i - 1] + Mapped(s, w)[i]
  BY DEF SumsTo
<1> HIDE DEF N
<1>3. 0 \in P
  <2>1. First(0) = {}
    OBVIOUS
  <2>2. Weight(n, w, {}) = 0
    <3>1. CASE n = 0
      <4>1. PICK e \in [0 .. n -> Nat] : SumsTo(n, Within(n, w, {}), e) /\ Weight(n, w, {}) = e[n]
        BY WeightIs
      <4> QED
        BY <3>1, <4>1 DEF SumsTo
    <3>2. CASE n # 0
      <4>1. 1 \in 1 .. n
        BY <3>2
      <4> QED
        BY <4>1, WeightOfOne
    <3> QED
      BY <3>1, <3>2
  <2> HIDE DEF First
  <2>3. Weight(n, w, First(0)) = 0
    BY ONLY <2>1, <2>2
  <2>4. 0 \in 0 .. N /\ f[0] = 0
    BY <1>1, <1>a
  <2> QED
    BY <2>3, <2>4
<1>4. ASSUME NEW i \in 1 .. N, i - 1 \in P PROVE i \in P
  <2>1. \A j \in 1 .. i : j = i \/ j \in 1 .. i - 1
    BY <1>1
  <2>2. i \in 0 .. N /\ i \in 1 .. i /\ \A j \in 1 .. i - 1 : j \in 1 .. i /\ j \in 1 .. N /\ j # i
    BY <1>1
  <2>3. First(i) = First(i - 1) \cup {s[i]}
    BY <2>1, <2>2
  <2>4. Disjoint(First(i - 1), {s[i]})
    BY <1>2, <2>2 DEF Disjoint
  <2>5. f[i - 1] = Weight(n, w, First(i - 1))
    BY <1>4
  <2> HIDE DEF First
  <2>6. Weight(n, w, First(i - 1) \cup {s[i]}) = Weight(n, w, First(i - 1)) + Weight(n, w, {s[i]})
    BY <2>4, WeightOfUnion
  <2>7. Weight(n, w, {s[i]}) = w[s[i]]
    BY <1>1, WeightOfOne
  <2> QED
    BY <1>1, <1>a, <2>2, <2>3, <2>5, <2>6, <2>7
<1> HIDE DEF P
<1>5. \A i \in 0 .. N : i \in P
  BY <1>1, <1>3, <1>4, UpToInduction
<1>6. N \in P /\ First(N) = Elements(s)
  BY <1>1, <1>5 DEF Elements, N
<1> QED
  BY <1>6 DEF P, N

(* k disjoint sets that weigh at least m each weigh at least k * m. *)
Heavy(n, w, k, S, m) == \A p \in 1 .. k : Weight(n, w, S[p]) >= m
AllDisjoint(k, S) == \A p, q \in 1 .. k : p # q => Disjoint(S[p], S[q])
Together(k, S) == UNION { S[p] : p \in 1 .. k }

LEMMA WeightOfMany ==
    ASSUME NEW n \in Nat, NEW w \in Maps(1 .. n, Nat), NEW k \in Nat, NEW S, NEW m \in Nat,
           Heavy(n, w, k, S, m), AllDisjoint(k, S)
    PROVE  Weight(n, w, Together(k, S)) >= k * m
<1> USE DEF Heavy, AllDisjoint, Together
<1> DEFINE First(i) == UNION { S[p] : p \in 1 .. i }
           P == { i \in 0 .. k : Weight(n, w, First(i)) \in Nat /\ Weight(n, w, First(i)) >= i * m }
<1>1. 0 \in P
  <2>1. Weight(n, w, First(0)) \in Nat /\ 0 * m = 0
    <3>1. Disjoint(First(0), {})
      BY DEF Disjoint
    <3> HIDE DEF First
    <3> QED
      BY <3>1, WeightOfUnion
  <2> QED
    BY <2>1
<1>2. ASSUME NEW i \in 1 .. k, i - 1 \in P PROVE i \in P
  <2>1. \A j \in 1 .. i : j = i \/ j \in 1 .. i - 1
    OBVIOUS
  <2>2. i \in 0 .. k /\ i \in 1 .. i /\ \A j \in 1 .. i - 1 : j \in 1 .. i /\ j \in 1 .. k /\ j # i
    OBVIOUS
  <2>3. First(i) = First(i - 1) \cup S[i]
    BY <2>1, <2>2
  <2>4. Disjoint(First(i - 1), S[i])
    BY <2>2 DEF Disjoint
  <2>5. Weight(n, w, First(i - 1)) \in Nat /\ Weight(n, w, First(i - 1)) >= (i - 1) * m
    BY <1>2
  <2> HIDE DEF First
  <2>6. /\ Weight(n, w, First(i - 1) \cup S[i]) = Weight(n, w, First(i - 1)) + Weight(n, w, S[i])
        /\ Weight(n, w, S[i]) \in Nat
    <3> DEFINE A == First(i - 1)  B == S[i]
    <3>1. Disjoint(A, B)
      BY <2>4
    <3> HIDE DEF A, B
    <3>2. Weight(n, w, A \cup B) = Weight(n, w, A) + Weight(n, w, B) /\ Weight(n, w, B) \in Nat
      BY <3>1, WeightOfUnion
    <3> QED
      BY <3>2 DEF A, B
  <2>7. i * m = (i - 1) * m + m /\ (i - 1) * m \in Int
    OBVIOUS
  <2>8. Weight(n, w, S[i]) >= m
    OBVIOUS
  <2>9. Weight(n, w, First(i)) \in Nat /\ Weight(n, w, First(i)) >= i * m
    <3> DEFINE a == Weight(n, w, First(i - 1))  b == Weight(n, w, S[i])  c == (i - 1) * m
    <3>1. a \in Nat /\ b \in Nat /\ c \in Int /\ a >= c /\ b >= m
          /\ Weight(n, w, First(i)) = a + b /\ i * m = c + m
      BY <2>3, <2>5, <2>6, <2>7, <2>8
    <3> HIDE DEF a, b, c
    <3> QED
      BY <3>1
  <2> QED
    BY <2>2, <2>9
<1> HIDE DEF P
<1>3. \A i \in 0 .. k : i \in P
  BY <1>1, <1>2, UpToInduction
<1>4. k \in P
  BY <1>3
<1> QED
  BY <1>4 DEF P
=============================================================================

------------------------- MODULE TrainingStepProofs -------------------------
(***************************************************************************)
(* TrainingStep for every number of ranks, every tensor parallel size,     *)
(* whatever is offloaded, and every batch of every rollout.  In order:     *)
(* what the operators of Balance, Dispatch and TrainingBatch compute, for  *)
(* all their arguments; the workers, who hand the memory of the devices    *)
(* over and leave the random numbers of training alone; the driver; and    *)
(* the batch, whose rows are on every line those of the rollout, with the  *)
(* right values in whatever columns they have (BatchInv).                  *)
(***************************************************************************)
EXTENDS TrainingStep, DataLemmas

(* A sequence that grows by one element at a time. *)
OneByOne(N, e) ==
    CHOOSE f : f = [m \in 0 .. N |-> IF m = 0 THEN <<>> ELSE Append(f[m - 1], e[m])]

LEMMA AppendedOneByOne ==
    ASSUME NEW X, NEW N \in Nat, NEW e \in Maps(1 .. N, X)
    PROVE  OneByOne(N, e)[N] = e
<1> DEFINE Eq(f) == f = [m \in 0 .. N |-> IF m = 0 THEN <<>> ELSE Append(f[m - 1], e[m])]
           prefix == [m \in 0 .. N |-> [i \in 1 .. m |-> e[i]]]
           f == CHOOSE f : Eq(f)
<1>a. \A m \in 1 .. N : e[m] \in X
  BY DEF Maps
<1>0. \A m \in 1 .. N : m \in 0 .. N /\ m - 1 \in 0 .. N
  OBVIOUS
<1>1. \A m \in 0 .. N : prefix[m] \in Seq(X) /\ Len(prefix[m]) = m
                        /\ \A i \in 1 .. m : prefix[m][i] = e[i]
  <2> TAKE m \in 0 .. N
  <2>1. prefix[m] = [i \in 1 .. m |-> e[i]] /\ \A i \in 1 .. m : e[i] \in X
    BY <1>a
  <2> HIDE DEF prefix
  <2> QED
    BY <2>1
<1>2. \A m \in 1 .. N : prefix[m] = Append(prefix[m - 1], e[m])
  <2> TAKE m \in 1 .. N
  <2> DEFINE s == prefix[m - 1]  t == prefix[m]
  <2>1. s \in Seq(X) /\ Len(s) = m - 1 /\ (\A i \in 1 .. m - 1 : s[i] = e[i])
        /\ t \in Seq(X) /\ Len(t) = m /\ (\A i \in 1 .. m : t[i] = e[i]) /\ e[m] \in X
    BY <1>0, <1>1, <1>a
  <2> HIDE DEF s, t
  <2>2. Append(s, e[m]) \in Seq(X) /\ Len(Append(s, e[m])) = m
        /\ \A i \in 1 .. m : Append(s, e[m])[i] = e[i]
    BY <2>1
  <2>3. Append(s, e[m]) = [i \in 1 .. m |-> e[i]]
    BY <2>2, SeqIsFunction
  <2>4. t = [i \in 1 .. m |-> e[i]]
    BY <2>1, SeqIsFunction
  <2> QED
    BY <2>3, <2>4 DEF s, t
<1>3. prefix[0] = <<>>
  OBVIOUS
<1>4. Eq(prefix)
  <2>1. prefix = [m \in 0 .. N |-> prefix[m]]
    OBVIOUS
  <2> HIDE DEF prefix
  <2>2. \A m \in 0 .. N : prefix[m] = IF m = 0 THEN <<>> ELSE Append(prefix[m - 1], e[m])
    <3> TAKE m \in 0 .. N
    <3>1. CASE m = 0
      BY <1>3, <3>1
    <3>2. CASE m # 0
      <4>1. m \in 1 .. N
        BY <3>2
      <4> QED
        BY <1>2, <3>2, <4>1, Zenon
    <3> QED
      BY <3>1, <3>2
  <2> QED
    BY <2>1, <2>2
<1> HIDE DEF Eq
<1>5. Eq(f)
  BY <1>4
<1>6. \A m \in 0 .. N : f[m] = IF m = 0 THEN <<>> ELSE Append(f[m - 1], e[m])
  BY <1>5 DEF Eq
<1> HIDE DEF f, prefix
<1> DEFINE P == { m \in 0 .. N : f[m] = prefix[m] }
<1>7. 0 \in P
  BY <1>3, <1>6
<1>8. ASSUME NEW m \in 1 .. N, m - 1 \in P PROVE m \in P
  <2>1. m \in 0 .. N /\ m - 1 \in 0 .. N /\ m # 0
    BY <1>0
  <2>2. f[m] = Append(f[m - 1], e[m])
    BY <1>6, <2>1, Zenon
  <2>3. f[m - 1] = prefix[m - 1]
    BY <1>8
  <2> QED
    BY <1>2, <2>1, <2>2, <2>3
<1> HIDE DEF P
<1>9. \A m \in 0 .. N : m \in P
  BY <1>7, <1>8, UpToInduction
<1>10. f[N] = prefix[N]
  BY <1>9 DEF P
<1> QED
  BY <1>10 DEF f, Eq, prefix, OneByOne, Maps

LEMMA SortedIs ==
    ASSUME NEW X, NEW seq \in Seq(X), NEW before,
           NEW place \in Places(Len(seq), before)
    PROVE  Sorted(seq, before) = [m \in 1 .. Len(seq) |-> seq[place[m]]]
<1> DEFINE N == Len(seq)
           at(m) == CHOOSE i \in DOMAIN seq : Cardinality(before[i]) = m - 1
           e == [m \in 1 .. N |-> seq[place[m]]]
           Eq(f) == f = [m \in 0 .. N |-> IF m = 0 THEN <<>> ELSE Append(f[m - 1], seq[at(m)])]
           Eq2(f) == f = [m \in 0 .. N |-> IF m = 0 THEN <<>> ELSE Append(f[m - 1], e[m])]
<1>1. N \in Nat /\ DOMAIN seq = 1 .. N /\ \A i \in 1 .. N : seq[i] \in X
  OBVIOUS
<1>2. \A m \in 1 .. N : place[m] \in 1 .. N /\ at(m) = place[m]
  BY DEF Places
<1> HIDE DEF at
<1>3. \A m \in 1 .. N : e[m] = seq[at(m)] /\ e[m] \in X
  BY <1>1, <1>2
<1> HIDE DEF N
<1>4. ASSUME NEW f PROVE Eq(f) <=> Eq2(f)
  <2>1. \A m \in 0 .. N : (IF m = 0 THEN <<>> ELSE Append(f[m - 1], seq[at(m)]))
                          = (IF m = 0 THEN <<>> ELSE Append(f[m - 1], e[m]))
    BY <1>1, <1>3
  <2> HIDE DEF e
  <2> QED
    BY <2>1
<1>5. (CHOOSE f : Eq(f)) = OneByOne(N, e)
  <2>1. OneByOne(N, e) = CHOOSE f : Eq2(f)
    BY DEF OneByOne
  <2> HIDE DEF Eq, Eq2
  <2> QED
    BY <1>4, <2>1
<1>6. OneByOne(N, e)[N] = e
  <2>1. e \in Maps(1 .. N, X)
    BY <1>3 DEF Maps
  <2> HIDE DEF e
  <2> QED
    BY <1>1, <2>1, AppendedOneByOne
<1>7. Sorted(seq, before) = (CHOOSE f : Eq(f))[N]
  BY DEF Sorted, at, N
<1> QED
  BY <1>5, <1>6, <1>7 DEF N

-----------------------------------------------------------------------------
(* How parts compare is a strict order. *)
LEMMA LexicographicOrder ==
    ASSUME NEW s \in Seq(Nat), NEW t \in Seq(Nat), Len(s) = Len(t)
    PROVE  /\ ~Lexicographic(s, s)
           /\ s # t => Lexicographic(s, t) \/ Lexicographic(t, s)
           /\ \A u \in Seq(Nat) : Len(u) = Len(s) /\ Lexicographic(s, t) /\ Lexicographic(t, u)
                                  => Lexicographic(s, u)
<1> DEFINE n == Len(s)
<1>1. n \in Nat /\ DOMAIN s = 1 .. n /\ DOMAIN t = 1 .. n
      /\ \A i \in 1 .. n : s[i] \in Nat /\ t[i] \in Nat
  OBVIOUS
<1>2. ~Lexicographic(s, s)
  BY <1>1 DEF Lexicographic
<1>3. ASSUME s # t PROVE Lexicographic(s, t) \/ Lexicographic(t, s)
  <2> DEFINE S == { i \in 1 .. n : s[i] # t[i] }
  <2>1. S # {}
    <3>1. s = [i \in 1 .. n |-> s[i]] /\ t = [i \in 1 .. n |-> t[i]]
      BY SeqIsFunction
    <3> QED
      BY <1>3, <3>1
  <2>2. S \in SUBSET Nat
    BY <1>1
  <2>3. Min(S) \in S /\ \A y \in S : Min(S) <= y
    <3> HIDE DEF S
    <3> QED
      BY <2>1, <2>2, MinOfNaturals
  <2> DEFINE k == Min(S)
  <2>4. k \in 1 .. n /\ s[k] # t[k]
    BY <2>3
  <2>a. \A y \in S : k <= y
    BY <2>3
  <2> HIDE DEF k
  <2>5. \A j \in 1 .. k - 1 : s[j] = t[j]
    <3> SUFFICES ASSUME NEW j \in 1 .. k - 1, s[j] # t[j] PROVE FALSE
      OBVIOUS
    <3>1. j \in 1 .. n
      BY <1>1, <2>4
    <3>2. j \in S
      BY <3>1
    <3> QED
      BY <1>1, <2>4, <2>a, <3>2
  <2>6. s[k] < t[k] \/ t[k] < s[k]
    BY <1>1, <2>4
  <2>7. s[k] < t[k] => Lexicographic(s, t)
    BY <1>1, <2>4, <2>5 DEF Lexicographic
  <2>8. t[k] < s[k] => Lexicographic(t, s)
    BY <1>1, <2>4, <2>5 DEF Lexicographic
  <2> QED
    BY <2>6, <2>7, <2>8
<1>4. ASSUME NEW u \in Seq(Nat), Len(u) = Len(s), Lexicographic(s, t), Lexicographic(t, u)
      PROVE  Lexicographic(s, u)
  <2>1. \A i \in 1 .. n : u[i] \in Nat
    BY <1>4
  <2>2. PICK k \in 1 .. n : s[k] < t[k] /\ \A j \in 1 .. k - 1 : s[j] = t[j]
    BY <1>1, <1>4 DEF Lexicographic
  <2>3. PICK l \in 1 .. n : t[l] < u[l] /\ \A j \in 1 .. l - 1 : t[j] = u[j]
    BY <1>1, <1>4 DEF Lexicographic
  <2>4. CASE k <= l
    <3>1. s[k] < u[k]
      <4>1. k = l \/ k \in 1 .. l - 1
        BY <1>1, <2>4
      <4>2. t[k] <= u[k]
        BY <1>1, <2>1, <2>3, <4>1
      <4> QED
        BY <1>1, <2>1, <2>2, <4>2
    <3>2. \A j \in 1 .. k - 1 : s[j] = u[j]
      <4>1. \A j \in 1 .. k - 1 : j \in 1 .. l - 1
        BY <1>1, <2>4
      <4> QED
        BY <2>2, <2>3, <4>1
    <3> QED
      BY <1>1, <3>1, <3>2 DEF Lexicographic
  <2>5. CASE ~(k <= l)
    <3>0. l \in 1 .. k - 1
      BY <1>1, <2>5
    <3>1. s[l] < u[l]
      BY <2>2, <2>3, <3>0
    <3>2. \A j \in 1 .. l - 1 : s[j] = u[j]
      <4>1. \A j \in 1 .. l - 1 : j \in 1 .. k - 1
        BY <1>1, <2>5
      <4> QED
        BY <2>2, <2>3, <4>1
    <3> QED
      BY <1>1, <3>1, <3>2 DEF Lexicographic
  <2> QED
    BY <2>4, <2>5
<1> QED
  BY <1>2, <1>3, <1>4

(* The parts that occur: what weighs nothing is empty. *)
Parts(n) ==
    { p \in [sum : Nat, items : Seq(1 .. n)] : p.sum = 0 <=> Len(p.items) = 0 }

LEMMA PartOrder ==
    ASSUME NEW n \in Nat, NEW p \in Parts(n), NEW q \in Parts(n)
    PROVE  /\ ~PartLess(p, p)
           /\ p # q => PartLess(p, q) \/ PartLess(q, p)
           /\ \A r \in Parts(n) : PartLess(p, q) /\ PartLess(q, r) => PartLess(p, r)
<1>1. \A x \in Parts(n) : /\ x.sum \in Nat /\ x.items \in Seq(Nat) /\ Len(x.items) \in Nat
                          /\ x = [sum |-> x.sum, items |-> x.items]
  BY DEF Parts
<1>2. \A s, t \in Seq(Nat) : Len(s) = Len(t) =>
          ~Lexicographic(s, s) /\ (s # t => Lexicographic(s, t) \/ Lexicographic(t, s))
  BY LexicographicOrder
<1>3. \A s, t, u \in Seq(Nat) : Len(s) = Len(t) /\ Len(u) = Len(s)
          /\ Lexicographic(s, t) /\ Lexicographic(t, u) => Lexicographic(s, u)
  BY LexicographicOrder
<1>4. ~PartLess(p, p)
  BY <1>1, <1>2 DEF PartLess
<1>5. p # q => PartLess(p, q) \/ PartLess(q, p)
  <2>1. p.sum \in Nat /\ q.sum \in Nat /\ Len(p.items) \in Nat /\ Len(q.items) \in Nat
        /\ p.items \in Seq(Nat) /\ q.items \in Seq(Nat)
    BY <1>1
  <2>2. p # q => p.sum # q.sum \/ p.items # q.items
    BY <1>1
  <2> QED
    BY <1>2, <2>1, <2>2 DEF PartLess
<1>6. ASSUME NEW r \in Parts(n), PartLess(p, q), PartLess(q, r) PROVE PartLess(p, r)
  <2>1. p.sum \in Nat /\ q.sum \in Nat /\ Len(p.items) \in Nat /\ Len(q.items) \in Nat
        /\ p.items \in Seq(Nat) /\ q.items \in Seq(Nat)
        /\ r.sum \in Nat /\ Len(r.items) \in Nat /\ r.items \in Seq(Nat)
    BY <1>1
  <2> QED
    BY <1>3, <1>6, <2>1 DEF PartLess
<1> QED
  BY <1>4, <1>5, <1>6

(* What Decreasing does to the parts of a state. *)
Sortings(k, parts, sorted) ==
    { place \in [1 .. k -> 1 .. k] :
        /\ Bijective(place, 1 .. k, 1 .. k)
        /\ \A m \in 1 .. k : sorted[m] = parts[place[m]]
        /\ \A l, m \in 1 .. k : l < m => sorted[l] = sorted[m] \/ PartLess(sorted[m], sorted[l]) }

LEMMA DecreasingIs ==
    ASSUME NEW n \in Nat, NEW k \in Nat, NEW parts \in Maps(1 .. k, Parts(n))
    PROVE  Decreasing(parts) \in Maps(1 .. k, Parts(n)) /\ Sortings(k, parts, Decreasing(parts)) # {}
<1> DEFINE X == Parts(n)
           before == [i \in DOMAIN parts |-> { j \in DOMAIN parts :
               PartLess(parts[i], parts[j]) \/ (parts[i] = parts[j] /\ j < i) }]
<1>0. DOMAIN parts = 1 .. k /\ \A i \in 1 .. k : parts[i] \in X
  BY DEF Maps
<1>a. parts \in Seq(X) /\ Len(parts) = k
  <2>1. parts = [i \in 1 .. k |-> parts[i]]
    BY DEF Maps
  <2> HIDE DEF X
  <2> QED
    BY <1>0, <2>1
<1>b. \A p, q \in X : ~PartLess(p, p) /\ (p # q => PartLess(p, q) \/ PartLess(q, p))
  BY PartOrder
<1>c. \A p, q, r \in X : PartLess(p, q) /\ PartLess(q, r) => PartLess(p, r)
  BY PartOrder
<1> HIDE DEF X
<1>1. \A i, j \in 1 .. k : j \in before[i] <=>
          PartLess(parts[i], parts[j]) \/ (parts[i] = parts[j] /\ j < i)
  BY <1>0
<1>2. before \in [1 .. k -> SUBSET (1 .. k)]
  BY <1>0
<1> HIDE DEF before
<1>3. \A i \in 1 .. k : i \notin before[i]
  BY <1>0, <1>1, <1>b
<1>4. \A i, j \in 1 .. k : j \in before[i] => before[j] \subseteq before[i]
  <2> SUFFICES ASSUME NEW i \in 1 .. k, NEW j \in 1 .. k, j \in before[i],
                      NEW l \in 1 .. k, l \in before[j]
               PROVE  l \in before[i]
    BY <1>2
  <2>1. PartLess(parts[i], parts[j]) \/ (parts[i] = parts[j] /\ j < i)
    BY <1>1
  <2>2. PartLess(parts[j], parts[l]) \/ (parts[j] = parts[l] /\ l < j)
    BY <1>1
  <2>3. PartLess(parts[i], parts[l]) \/ (parts[i] = parts[l] /\ l < i)
    BY <1>0, <1>c, <2>1, <2>2
  <2> QED
    BY <1>1, <2>3
<1>5. \A i, j \in 1 .. k : i # j => i \in before[j] \/ j \in before[i]
  <2> SUFFICES ASSUME NEW i \in 1 .. k, NEW j \in 1 .. k, i # j
               PROVE  i \in before[j] \/ j \in before[i]
    OBVIOUS
  <2>1. i < j \/ j < i
    OBVIOUS
  <2> QED
    BY <1>0, <1>1, <1>b, <2>1
<1>6. StrictlyOrdered(k, before)
  BY <1>2, <1>3, <1>4, <1>5 DEF StrictlyOrdered
<1>7. PICK place \in Places(k, before) : TRUE
  BY <1>6, RankIsPlace
<1>8. Decreasing(parts) = [m \in 1 .. k |-> parts[place[m]]]
  <2>1. Sorted(parts, before) = [m \in 1 .. Len(parts) |-> parts[place[m]]]
    BY <1>a, <1>7, SortedIs
  <2> QED
    BY <1>a, <2>1 DEF Decreasing, before
<1> DEFINE sorted == Decreasing(parts)
<1>9. place \in [1 .. k -> 1 .. k] /\ Bijective(place, 1 .. k, 1 .. k)
      /\ \A l, m \in 1 .. k : l < m => place[l] \in before[place[m]]
  BY <1>7 DEF Places
<1>10. \A m \in 1 .. k : sorted[m] = parts[place[m]]
  BY <1>8
<1>11. sorted \in Maps(1 .. k, X)
  BY <1>0, <1>8, <1>9 DEF Maps
<1> HIDE DEF sorted
<1>12. \A l, m \in 1 .. k : l < m => sorted[l] = sorted[m] \/ PartLess(sorted[m], sorted[l])
  BY <1>1, <1>9, <1>10, ZenonT(30)
<1>13. place \in Sortings(k, parts, sorted)
  BY <1>9, <1>10, <1>12 DEF Sortings
<1> QED
  BY <1>11, <1>13 DEF sorted, X

LEMMA ByLengthIs ==
    ASSUME NEW lens \in Seq(Nat)
    PROVE  Bijective(ByLength(lens), 1 .. Len(lens), 1 .. Len(lens))
<1> DEFINE n == Len(lens)
           seq == [i \in DOMAIN lens |-> i]
           before == [i \in DOMAIN lens |-> { j \in DOMAIN lens :
                lens[j] < lens[i] \/ (lens[j] = lens[i] /\ j < i) }]
<1>1. n \in Nat /\ DOMAIN lens = 1 .. n /\ \A i \in 1 .. n : lens[i] \in Nat
  OBVIOUS
<1>2. seq \in Seq(1 .. n) /\ Len(seq) = n /\ \A i \in 1 .. n : seq[i] = i
  <2>1. seq = [i \in 1 .. n |-> i]
    BY <1>1
  <2> HIDE DEF seq, n
  <2> QED
    BY <1>1, <2>1
<1>3. \A i, j \in 1 .. n : j \in before[i] <=> lens[j] < lens[i] \/ (lens[j] = lens[i] /\ j < i)
  BY <1>1
<1>4. before \in [1 .. n -> SUBSET (1 .. n)]
  BY <1>1
<1> HIDE DEF before, seq, n
<1>5. StrictlyOrdered(n, before)
  <2>1. \A i \in 1 .. n : i \notin before[i]
    BY <1>1, <1>3
  <2>2. \A i, j \in 1 .. n : j \in before[i] => before[j] \subseteq before[i]
    <3> SUFFICES ASSUME NEW i \in 1 .. n, NEW j \in 1 .. n, j \in before[i],
                        NEW l \in 1 .. n, l \in before[j]
                 PROVE  l \in before[i]
      BY <1>4
    <3>1. lens[i] \in Int /\ lens[j] \in Int /\ lens[l] \in Int /\ i \in Int /\ j \in Int /\ l \in Int
      BY <1>1
    <3>2. lens[j] < lens[i] \/ (lens[j] = lens[i] /\ j < i)
      BY <1>3
    <3>3. lens[l] < lens[j] \/ (lens[l] = lens[j] /\ l < j)
      BY <1>3
    <3>4. lens[l] < lens[i] \/ (lens[l] = lens[i] /\ l < i)
      BY <3>1, <3>2, <3>3
    <3> QED
      BY <1>3, <3>4
  <2>3. \A i, j \in 1 .. n : i # j => i \in before[j] \/ j \in before[i]
    BY <1>1, <1>3
  <2> QED
    BY <1>4, <2>1, <2>2, <2>3 DEF StrictlyOrdered
<1>6. PICK place \in Places(n, before) : TRUE
  BY <1>1, <1>5, RankIsPlace
<1>7. Sorted(seq, before) = [m \in 1 .. n |-> seq[place[m]]]
  BY <1>2, <1>6, SortedIs
<1>8. Bijective(place, 1 .. n, 1 .. n) /\ place \in [1 .. n -> 1 .. n]
  BY <1>6 DEF Places
<1>9. [m \in 1 .. n |-> seq[place[m]]] = place
  BY <1>2, <1>8
<1>10. ByLength(lens) = Sorted(seq, before)
  BY DEF ByLength, seq, before
<1> QED
  BY <1>7, <1>8, <1>9, <1>10 DEF n

LEMMA AscendingIs ==
    ASSUME NEW n \in Nat, NEW items \in Seq(1 .. n), Once(items)
    PROVE  /\ Ascending(items) \in Seq(1 .. n) /\ Len(Ascending(items)) = Len(items)
           /\ Rearranged(items, Ascending(items))
<1> DEFINE N == Len(items)
           before == [i \in DOMAIN items |-> { j \in DOMAIN items : items[j] < items[i] }]
<1>1. N \in Nat /\ DOMAIN items = 1 .. N /\ \A i \in 1 .. N : items[i] \in 1 .. n
  OBVIOUS
<1>a. \A i, j \in 1 .. N : items[i] = items[j] => i = j
  BY DEF Once
<1>3. \A i, j \in 1 .. N : j \in before[i] <=> items[j] < items[i]
  BY <1>1
<1>4. before \in [1 .. N -> SUBSET (1 .. N)]
  BY <1>1
<1> HIDE DEF before, N
<1>5. StrictlyOrdered(N, before)
  <2>1. \A i \in 1 .. N : i \notin before[i]
    BY <1>1, <1>3
  <2>2. \A i, j \in 1 .. N : j \in before[i] => before[j] \subseteq before[i]
    <3> SUFFICES ASSUME NEW i \in 1 .. N, NEW j \in 1 .. N, j \in before[i],
                        NEW l \in 1 .. N, l \in before[j]
                 PROVE  l \in before[i]
      BY <1>4
    <3> QED
      BY <1>1, <1>3
  <2>3. \A i, j \in 1 .. N : i # j => i \in before[j] \/ j \in before[i]
    BY <1>1, <1>3, <1>a
  <2> QED
    BY <1>4, <2>1, <2>2, <2>3 DEF StrictlyOrdered
<1>6. PICK place \in Places(N, before) : TRUE
  BY <1>1, <1>5, RankIsPlace
<1>7. Ascending(items) = [m \in 1 .. N |-> items[place[m]]]
  <2>1. Sorted(items, before) = [m \in 1 .. N |-> items[place[m]]]
    BY <1>6, SortedIs DEF N
  <2> QED
    BY <2>1 DEF Ascending, before
<1>8. Bijective(place, 1 .. N, 1 .. N) /\ place \in [1 .. N -> 1 .. N]
  BY <1>6 DEF Places
<1> DEFINE t == Ascending(items)
<1>9. t \in Seq(1 .. n) /\ Len(t) = N /\ \A m \in 1 .. N : t[m] = items[place[m]]
  <2>1. \A m \in 1 .. N : items[place[m]] \in 1 .. n
    BY <1>1, <1>8
  <2> HIDE DEF t
  <2> QED
    BY <1>1, <1>7, <2>1 DEF t
<1> HIDE DEF t
<1>10. place \in Rearrangements(items, t)
  BY <1>8, <1>9 DEF Rearrangements, N
<1> QED
  BY <1>9, <1>10 DEF Rearranged, t, N

-----------------------------------------------------------------------------
(* What the parts of one state have in common: they share their items out,
   they weigh what their items do, no two of them differ by more than d, and
   none has a second item while another is empty. *)
Full(p) == Len(p.items) > 0
SharedOut(k, parts) ==
    /\ \A p \in 1 .. k : Once(parts[p].items)
    /\ \A p, q \in 1 .. k : \A x :
           p # q => ~(IsIn(parts[p].items, x) /\ IsIn(parts[q].items, x))
WeighsItsItems(n, w, p) == p.sum = Weight(n, w, Elements(p.items))
Weighed(n, k, w, parts) == \A p \in 1 .. k : WeighsItsItems(n, w, parts[p])
Level(k, d, parts) == \A p, q \in 1 .. k : parts[p].sum <= parts[q].sum + d
SpreadOut(k, parts) ==
    \/ \A p \in 1 .. k : Full(parts[p])
    \/ \A p \in 1 .. k : Len(parts[p].items) <= 1
Shape(n, k, w, d, parts) ==
    /\ parts \in Maps(1 .. k, Parts(n))
    /\ SharedOut(k, parts) /\ Weighed(n, k, w, parts) /\ Level(k, d, parts) /\ SpreadOut(k, parts)
Holds(k, parts, x) == \E p \in 1 .. k : IsIn(parts[p].items, x)

(* The parts of a state stand in decreasing order, and the first is not empty. *)
InOrder(k, parts) ==
    \A l, m \in 1 .. k : l < m =>
        parts[m].sum <= parts[l].sum /\ (Full(parts[m]) => Full(parts[l]))
States(n, k, w, d) ==
    { s \in Maps(1 .. k, Parts(n)) :
        Shape(n, k, w, d, s) /\ InOrder(k, s) /\ Full(s[1]) }

LEMMA PartFacts ==
    ASSUME NEW n \in Nat, NEW p \in Parts(n)
    PROVE  /\ p.sum \in Nat /\ p.items \in Seq(1 .. n) /\ Len(p.items) \in Nat
           /\ Full(p) <=> p.sum > 0
           /\ Full(p) <=> \E x \in 1 .. n : IsIn(p.items, x)
<1>1. p.sum \in Nat /\ p.items \in Seq(1 .. n) /\ Len(p.items) \in Nat
  BY DEF Parts
<1>2. Full(p) <=> p.sum > 0
  BY <1>1 DEF Parts, Full
<1>3. Full(p) => p.items[1] \in 1 .. n /\ 1 \in 1 .. Len(p.items)
  BY <1>1 DEF Full
<1>4. Full(p) <=> \E x \in 1 .. n : IsIn(p.items, x)
  BY <1>1, <1>3 DEF Full, IsIn
<1> QED
  BY <1>1, <1>2, <1>4

LEMMA DecreasingState ==
    ASSUME NEW n \in Nat, NEW k \in Nat, NEW w, NEW d \in Nat, NEW parts,
           Shape(n, k, w, d, parts), NEW x \in 1 .. n, Holds(k, parts, x)
    PROVE  /\ Decreasing(parts) \in States(n, k, w, d)
           /\ \A y : Holds(k, Decreasing(parts), y) <=> Holds(k, parts, y)
<1> DEFINE s == Decreasing(parts)
<1>1. parts \in Maps(1 .. k, Parts(n))
  BY DEF Shape
<1>2. s \in Maps(1 .. k, Parts(n)) /\ Sortings(k, parts, s) # {}
  BY <1>1, DecreasingIs
<1>3. PICK place \in Sortings(k, parts, s) : TRUE
  BY <1>2
<1> HIDE DEF s
<1>4. /\ place \in [1 .. k -> 1 .. k]
      /\ \A l, m \in 1 .. k : place[l] = place[m] => l = m
      /\ \A m \in 1 .. k : \E l \in 1 .. k : place[l] = m
      /\ \A m \in 1 .. k : s[m] = parts[place[m]]
      /\ \A l, m \in 1 .. k : l < m => s[l] = s[m] \/ PartLess(s[m], s[l])
  BY <1>3 DEF Sortings, Bijective
<1>a. \A m \in 1 .. k : place[m] \in 1 .. k /\ s[m] = parts[place[m]]
  BY <1>4
<1>5. SharedOut(k, s)
  <2>1. SharedOut(k, parts)
    BY DEF Shape
  <2>2. \A m \in 1 .. k : Once(s[m].items)
    BY <1>a, <2>1 DEF SharedOut
  <2>3. ASSUME NEW l \in 1 .. k, NEW m \in 1 .. k, NEW y, l # m,
               IsIn(s[l].items, y), IsIn(s[m].items, y)
        PROVE  FALSE
    <3>1. /\ place[l] \in 1 .. k /\ place[m] \in 1 .. k /\ place[l] # place[m]
          /\ s[l] = parts[place[l]] /\ s[m] = parts[place[m]]
      BY <1>4, <1>a, <2>3
    <3> QED
      BY <2>1, <2>3, <3>1 DEF SharedOut
  <2> QED
    BY <2>2, <2>3 DEF SharedOut
<1>6. Weighed(n, k, w, s) /\ Level(k, d, s)
  <2>1. Weighed(n, k, w, parts) /\ Level(k, d, parts)
    BY DEF Shape
  <2> QED
    BY <1>a, <2>1 DEF Weighed, Level
<1>7. SpreadOut(k, s)
  <2>1. SpreadOut(k, parts)
    BY DEF Shape
  <2> QED
    BY <1>a, <2>1 DEF SpreadOut
<1>8. \A y : Holds(k, s, y) <=> Holds(k, parts, y)
  <2> TAKE y
  <2>1. ASSUME NEW m \in 1 .. k, IsIn(s[m].items, y) PROVE Holds(k, parts, y)
    BY <1>a, <2>1 DEF Holds
  <2>2. ASSUME NEW m \in 1 .. k, IsIn(parts[m].items, y) PROVE Holds(k, s, y)
    <3>1. PICK l \in 1 .. k : place[l] = m
      BY <1>4
    <3>2. IsIn(s[l].items, y)
      BY <1>a, <2>2, <3>1
    <3> QED
      BY <3>2 DEF Holds
  <2> QED
    BY <2>1, <2>2 DEF Holds
<1>b. \A m \in 1 .. k : s[m] \in Parts(n)
  BY <1>2 DEF Maps
<1>9. InOrder(k, s)
  <2> SUFFICES ASSUME NEW l \in 1 .. k, NEW m \in 1 .. k, l < m
               PROVE  s[m].sum <= s[l].sum /\ (Full(s[m]) => Full(s[l]))
    BY DEF InOrder
  <2>1. s[l] = s[m] \/ PartLess(s[m], s[l])
    BY <1>4
  <2>2. s[l].sum \in Nat /\ s[m].sum \in Nat
        /\ (Full(s[l]) <=> s[l].sum > 0) /\ (Full(s[m]) <=> s[m].sum > 0)
    BY <1>b, PartFacts
  <2>3. s[m].sum <= s[l].sum
    BY <2>1, <2>2, SMTT(30) DEF PartLess
  <2> QED
    BY <2>2, <2>3
<1>10. Full(s[1])
  <2>1. PICK m \in 1 .. k : IsIn(s[m].items, x)
    BY <1>8 DEF Holds
  <2>2. Full(s[m])
    BY <1>b, <2>1, PartFacts
  <2>3. 1 \in 1 .. k /\ (m = 1 \/ 1 < m)
    OBVIOUS
  <2> QED
    BY <1>9, <2>2, <2>3 DEF InOrder
<1> QED
  BY <1>2, <1>5, <1>6, <1>7, <1>8, <1>9, <1>10 DEF States, Shape, s

Lens(n, d) == { lens \in Maps(1 .. n, Nat) : \A i \in 1 .. n : lens[i] > 0 /\ lens[i] <= d }
FirstParts(k, items, lens) ==
    [i \in 1 .. k |-> IF i <= Len(items) THEN Part(items[i], lens) ELSE NoPart]

LEMMA PartIs ==
    ASSUME NEW n \in Nat, NEW d \in Nat, NEW lens \in Lens(n, d), NEW i \in 1 .. n
    PROVE  /\ Part(i, lens) \in Parts(n) /\ NoPart \in Parts(n)
           /\ Part(i, lens).sum \in 1 .. d /\ Len(Part(i, lens).items) = 1
           /\ NoPart.sum = 0 /\ Len(NoPart.items) = 0
           /\ \A x : IsIn(Part(i, lens).items, x) <=> x = i
           /\ \A x : ~IsIn(NoPart.items, x)
           /\ Once(Part(i, lens).items) /\ Once(NoPart.items)
           /\ WeighsItsItems(n, lens, Part(i, lens)) /\ WeighsItsItems(n, lens, NoPart)
<1>1. lens \in Maps(1 .. n, Nat) /\ lens[i] \in Nat /\ lens[i] > 0 /\ lens[i] <= d
  BY DEF Lens, Maps
<1>2. /\ Part(i, lens).sum = lens[i] /\ Part(i, lens).items = <<i>>
      /\ NoPart.sum = 0 /\ NoPart.items = <<>>
  BY DEF Part, NoPart
<1>3. <<i>> \in Seq(1 .. n) /\ Len(<<i>>) = 1 /\ <<i>>[1] = i
      /\ <<>> \in Seq(1 .. n) /\ Len(<<>>) = 0
  OBVIOUS
<1>4. Part(i, lens) \in Parts(n) /\ NoPart \in Parts(n)
  <2>1. Part(i, lens) \in [sum : Nat, items : Seq(1 .. n)]
    BY <1>1, <1>3 DEF Part
  <2>2. NoPart \in [sum : Nat, items : Seq(1 .. n)]
    BY <1>3 DEF NoPart
  <2>3. \A p \in [sum : Nat, items : Seq(1 .. n)] :
            (p.sum = 0 <=> Len(p.items) = 0) => p \in Parts(n)
    BY DEF Parts
  <2>4. Part(i, lens).sum = 0 <=> Len(Part(i, lens).items) = 0
    BY <1>1, <1>2, <1>3
  <2>5. NoPart.sum = 0 <=> Len(NoPart.items) = 0
    BY <1>2, <1>3
  <2> QED
    BY <2>1, <2>2, <2>3, <2>4, <2>5
<1>5. \A x : IsIn(<<i>>, x) <=> x = i
  BY <1>3 DEF IsIn
<1>6. \A x : ~IsIn(<<>>, x)
  BY <1>3 DEF IsIn
<1>7. Once(<<i>>) /\ Once(<<>>)
  BY <1>3 DEF Once
<1>8. Elements(<<i>>) = {i} /\ Elements(<<>>) = {}
  BY <1>3 DEF Elements
<1>9. Weight(n, lens, {i}) = lens[i] /\ Weight(n, lens, {}) = 0
  BY <1>1, WeightOfOne
<1>10. /\ Part(i, lens).sum \in 1 .. d /\ Len(Part(i, lens).items) = 1
       /\ NoPart.sum = 0 /\ Len(NoPart.items) = 0
  BY <1>1, <1>2, <1>3
<1>11. /\ \A x : IsIn(Part(i, lens).items, x) <=> x = i
       /\ \A x : ~IsIn(NoPart.items, x)
       /\ Once(Part(i, lens).items) /\ Once(NoPart.items)
  <2>1. Part(i, lens).items = <<i>> /\ NoPart.items = <<>>
    BY <1>2
  <2> QED
    BY ONLY <1>5, <1>6, <1>7, <2>1
<1>12. WeighsItsItems(n, lens, Part(i, lens)) /\ WeighsItsItems(n, lens, NoPart)
  BY <1>2, <1>8, <1>9 DEF WeighsItsItems
<1> QED
  BY <1>4, <1>10, <1>11, <1>12

LEMMA FirstPartsShape ==
    ASSUME NEW n \in Nat, NEW k \in Nat, NEW d \in Nat, NEW lens \in Lens(n, d),
           NEW items \in Seq(1 .. n), Once(items), Len(items) >= 1, Len(items) <= k
    PROVE  /\ Shape(n, k, lens, d, FirstParts(k, items, lens))
           /\ \A x : Holds(k, FirstParts(k, items, lens), x) <=> IsIn(items, x)
<1> DEFINE parts == FirstParts(k, items, lens)  l == Len(items)
<1>1. l \in 1 .. k /\ \A i \in 1 .. l : i \in 1 .. k /\ items[i] \in 1 .. n
  OBVIOUS
<1>a. \A i, j \in 1 .. l : items[i] = items[j] => i = j
  BY DEF Once
<1>2. /\ \A i \in 1 .. l : parts[i] = Part(items[i], lens)
      /\ \A i \in 1 .. k : i > l => parts[i] = NoPart
  BY <1>1 DEF FirstParts
<1>b. \A i \in 1 .. k : i \in 1 .. l \/ i > l
  BY <1>1
<1>c. parts = [i \in 1 .. k |-> parts[i]]
  BY DEF FirstParts
<1> HIDE DEF parts, l
<1>3. \A i \in 1 .. k :
          /\ parts[i] \in Parts(n) /\ parts[i].sum \in 0 .. d
          /\ Len(parts[i].items) <= 1 /\ Once(parts[i].items)
          /\ WeighsItsItems(n, lens, parts[i])
  <2> TAKE i \in 1 .. k
  <2>1. CASE i \in 1 .. l
    <3>1. items[i] \in 1 .. n /\ parts[i] = Part(items[i], lens)
      BY <1>1, <1>2, <2>1
    <3>2. /\ parts[i] \in Parts(n) /\ parts[i].sum \in 1 .. d
          /\ Len(parts[i].items) = 1 /\ Once(parts[i].items)
          /\ WeighsItsItems(n, lens, parts[i])
      BY <3>1, PartIs
    <3> QED
      BY <3>2
  <2>2. CASE i > l
    <3>1. 1 \in 1 .. l /\ items[1] \in 1 .. n
      BY <1>1
    <3>2. parts[i] = NoPart
      BY <1>2, <2>2
    <3>3. /\ parts[i] \in Parts(n) /\ parts[i].sum = 0
          /\ Len(parts[i].items) = 0 /\ Once(parts[i].items)
          /\ WeighsItsItems(n, lens, parts[i])
      BY <3>1, <3>2, PartIs
    <3> QED
      BY <3>3
  <2> QED
    BY <1>b, <2>1, <2>2
<1>4. \A i \in 1 .. k : \A x : IsIn(parts[i].items, x) <=> i \in 1 .. l /\ x = items[i]
  <2> TAKE i \in 1 .. k
  <2> TAKE x
  <2>1. CASE i \in 1 .. l
    <3>1. items[i] \in 1 .. n /\ parts[i] = Part(items[i], lens)
      BY <1>1, <1>2, <2>1
    <3>2. IsIn(parts[i].items, x) <=> x = items[i]
      <4> DEFINE y == items[i]
      <4>1. y \in 1 .. n
        BY <3>1
      <4> HIDE DEF y
      <4>2. \A z : IsIn(Part(y, lens).items, z) <=> z = y
        BY <4>1, PartIs
      <4> QED
        BY <3>1, <4>2 DEF y
    <3> QED
      BY <2>1, <3>2
  <2>2. CASE i > l
    <3>1. 1 \in 1 .. l /\ items[1] \in 1 .. n /\ i \notin 1 .. l
      BY <1>1, <2>2
    <3>2. parts[i] = NoPart
      BY <1>2, <2>2
    <3>3. ~IsIn(parts[i].items, x)
      BY <3>1, <3>2, PartIs
    <3> QED
      BY <3>1, <3>3
  <2> QED
    BY <1>b, <2>1, <2>2
<1>5. SharedOut(k, parts)
  <2>1. \A i \in 1 .. k : Once(parts[i].items)
    BY <1>3
  <2>2. ASSUME NEW i \in 1 .. k, NEW j \in 1 .. k, NEW x, i # j,
               IsIn(parts[i].items, x), IsIn(parts[j].items, x)
        PROVE  FALSE
    <3>1. i \in 1 .. l /\ x = items[i]
      BY <1>4, <2>2
    <3>2. j \in 1 .. l /\ x = items[j]
      BY <1>4, <2>2
    <3> QED
      BY <1>a, <2>2, <3>1, <3>2
  <2> QED
    BY <2>1, <2>2 DEF SharedOut
<1>6. Weighed(n, k, lens, parts) /\ Level(k, d, parts) /\ SpreadOut(k, parts)
  BY <1>3, SMTT(30) DEF Weighed, Level, SpreadOut
<1>7. parts \in Maps(1 .. k, Parts(n))
  BY <1>3, <1>c DEF Maps
<1>8. \A x : Holds(k, parts, x) <=> IsIn(items, x)
  BY <1>1, <1>4 DEF Holds, IsIn, l
<1> QED
  BY <1>5, <1>6, <1>7, <1>8 DEF Shape, parts

-----------------------------------------------------------------------------
(* Merging two states with nothing in common. *)
Unsorted(k, s, t) == [i \in 1 .. k |-> Joined(s[i], t[k + 1 - i])]

LEMMA JoinedPart ==
    ASSUME NEW n \in Nat, NEW d \in Nat, NEW w \in Maps(1 .. n, Nat),
           NEW p \in Parts(n), NEW q \in Parts(n), Once(p.items), Once(q.items),
           \A x : ~(IsIn(p.items, x) /\ IsIn(q.items, x)),
           WeighsItsItems(n, w, p), WeighsItsItems(n, w, q)
    PROVE  /\ Joined(p, q) \in Parts(n) /\ Joined(p, q).sum = p.sum + q.sum
           /\ Len(Joined(p, q).items) = Len(p.items) + Len(q.items)
           /\ Once(Joined(p, q).items) /\ WeighsItsItems(n, w, Joined(p, q))
           /\ \A x : IsIn(Joined(p, q).items, x) <=> IsIn(p.items, x) \/ IsIn(q.items, x)
<1> DEFINE u == p.items  v == q.items  z == u \o v
<1>1. p.sum \in Nat /\ q.sum \in Nat /\ u \in Seq(1 .. n) /\ v \in Seq(1 .. n)
      /\ Len(u) \in Nat /\ Len(v) \in Nat
      /\ (Len(u) > 0 <=> p.sum > 0) /\ (Len(v) > 0 <=> q.sum > 0)
  BY PartFacts DEF Full
<1>2. Joined(p, q) = [sum |-> p.sum + q.sum, items |-> z]
  BY DEF Joined
<1> HIDE DEF u, v
<1>3. z \in Seq(1 .. n) /\ Len(z) = Len(u) + Len(v)
  BY <1>1
<1>4. /\ \A x : IsIn(z, x) <=> IsIn(u, x) \/ IsIn(v, x)
      /\ Once(z)
  <2>1. Once(u) /\ Once(v) /\ \A x : ~(IsIn(u, x) /\ IsIn(v, x))
    BY DEF u, v
  <2> QED
    BY <1>1, <2>1, JoinedElements
<1> HIDE DEF z
<1>5. Joined(p, q).sum = p.sum + q.sum /\ Joined(p, q).items = z
  BY <1>2
<1>6. Joined(p, q) \in Parts(n)
  <2>1. Joined(p, q) \in [sum : Nat, items : Seq(1 .. n)]
    BY <1>1, <1>2, <1>3
  <2> QED
    BY <1>1, <1>3, <1>5, <2>1 DEF Parts
<1>7. WeighsItsItems(n, w, Joined(p, q))
  <2>1. \A x : x \in Elements(z) <=> IsIn(z, x)
    BY DEF Elements, IsIn
  <2>2. \A x : x \in Elements(u) <=> IsIn(u, x)
    BY DEF Elements, IsIn
  <2>3. \A x : x \in Elements(v) <=> IsIn(v, x)
    BY DEF Elements, IsIn
  <2>4. Elements(z) = Elements(u) \cup Elements(v)
    BY <1>4, <2>1, <2>2, <2>3
  <2>5. Disjoint(Elements(u), Elements(v))
    BY <2>2, <2>3 DEF Disjoint, u, v
  <2>6. Weight(n, w, Elements(u) \cup Elements(v))
            = Weight(n, w, Elements(u)) + Weight(n, w, Elements(v))
    BY <2>5, WeightOfUnion
  <2>7. p.sum = Weight(n, w, Elements(u)) /\ q.sum = Weight(n, w, Elements(v))
    BY DEF WeighsItsItems, u, v
  <2> QED
    BY <1>5, <2>4, <2>6, <2>7 DEF WeighsItsItems
<1> QED
  BY <1>3, <1>4, <1>5, <1>6, <1>7 DEF u, v

LEMMA MergedShape ==
    ASSUME NEW n \in Nat, NEW k \in Nat, NEW d \in Nat, NEW w \in Maps(1 .. n, Nat),
           NEW s \in States(n, k, w, d), NEW t \in States(n, k, w, d),
           \A x : ~(Holds(k, s, x) /\ Holds(k, t, x))
    PROVE  /\ Shape(n, k, w, d, Unsorted(k, s, t))
           /\ \A x : Holds(k, Unsorted(k, s, t), x) <=> Holds(k, s, x) \/ Holds(k, t, x)
<1> DEFINE r == Unsorted(k, s, t)
           o(i) == k + 1 - i
<1>1. \A i \in 1 .. k : o(i) \in 1 .. k /\ o(o(i)) = i /\ r[i] = Joined(s[i], t[o(i)])
  BY DEF Unsorted
<1>a. \A i, j \in 1 .. k : (i < j <=> o(j) < o(i)) /\ (i = j <=> o(i) = o(j))
  OBVIOUS
<1>c. r = [i \in 1 .. k |-> r[i]]
  BY DEF Unsorted
<1> HIDE DEF r, o
<1>2. /\ \A i \in 1 .. k : s[i] \in Parts(n) /\ t[i] \in Parts(n)
      /\ SharedOut(k, s) /\ SharedOut(k, t) /\ Weighed(n, k, w, s) /\ Weighed(n, k, w, t)
      /\ Level(k, d, s) /\ Level(k, d, t) /\ SpreadOut(k, s) /\ SpreadOut(k, t)
      /\ InOrder(k, s) /\ InOrder(k, t)
  BY DEF States, Shape, Maps
<1>3. \A i, j \in 1 .. k : \A x : ~(IsIn(s[i].items, x) /\ IsIn(t[j].items, x))
  BY DEF Holds
<1>4. \A i \in 1 .. k :
          /\ r[i] \in Parts(n) /\ r[i].sum = s[i].sum + t[o(i)].sum
          /\ Len(r[i].items) = Len(s[i].items) + Len(t[o(i)].items)
          /\ Once(r[i].items) /\ WeighsItsItems(n, w, r[i])
          /\ \A x : IsIn(r[i].items, x) <=> IsIn(s[i].items, x) \/ IsIn(t[o(i)].items, x)
  <2> TAKE i \in 1 .. k
  <2> DEFINE p == s[i]  q == t[o(i)]
  <2>1. o(i) \in 1 .. k /\ r[i] = Joined(p, q)
    BY <1>1
  <2>2. p \in Parts(n) /\ q \in Parts(n) /\ Once(p.items) /\ Once(q.items)
        /\ WeighsItsItems(n, w, p) /\ WeighsItsItems(n, w, q)
    BY <1>2, <2>1 DEF SharedOut, Weighed
  <2>3. \A x : ~(IsIn(p.items, x) /\ IsIn(q.items, x))
    BY <1>3, <2>1
  <2> HIDE DEF p, q
  <2>4. /\ Joined(p, q) \in Parts(n) /\ Joined(p, q).sum = p.sum + q.sum
        /\ Len(Joined(p, q).items) = Len(p.items) + Len(q.items)
        /\ Once(Joined(p, q).items) /\ WeighsItsItems(n, w, Joined(p, q))
        /\ \A x : IsIn(Joined(p, q).items, x) <=> IsIn(p.items, x) \/ IsIn(q.items, x)
    BY <2>2, <2>3, JoinedPart
  <2> QED
    BY <2>1, <2>4 DEF p, q
<1>5. SharedOut(k, r)
  <2> SUFFICES ASSUME NEW i \in 1 .. k, NEW j \in 1 .. k, NEW x, i # j,
                      IsIn(r[i].items, x), IsIn(r[j].items, x)
               PROVE  FALSE
    BY <1>4 DEF SharedOut
  <2>1. /\ IsIn(s[i].items, x) \/ IsIn(t[o(i)].items, x)
        /\ IsIn(s[j].items, x) \/ IsIn(t[o(j)].items, x)
    BY <1>4
  <2>2. o(i) \in 1 .. k /\ o(j) \in 1 .. k /\ o(i) # o(j)
    BY <1>1, <1>a
  <2>3. ~(IsIn(s[i].items, x) /\ IsIn(s[j].items, x))
    BY <1>2 DEF SharedOut
  <2>4. ~(IsIn(t[o(i)].items, x) /\ IsIn(t[o(j)].items, x))
    BY <1>2, <2>2 DEF SharedOut
  <2> QED
    BY <1>3, <2>1, <2>2, <2>3, <2>4
<1>6. Weighed(n, k, w, r)
  BY <1>4 DEF Weighed
<1>7. Level(k, d, r)
  <2> SUFFICES ASSUME NEW i \in 1 .. k, NEW j \in 1 .. k PROVE r[i].sum <= r[j].sum + d
    BY DEF Level
  <2>1. o(i) \in 1 .. k /\ o(j) \in 1 .. k /\ r[i].sum = s[i].sum + t[o(i)].sum
        /\ r[j].sum = s[j].sum + t[o(j)].sum
    BY <1>1, <1>4
  <2>2. s[i].sum \in Nat /\ s[j].sum \in Nat /\ t[o(i)].sum \in Nat /\ t[o(j)].sum \in Nat
    BY <1>2, <2>1, PartFacts
  <2>3. s[i].sum <= s[j].sum + d /\ t[o(i)].sum <= t[o(j)].sum + d
    BY <1>2, <2>1 DEF Level
  <2> DEFINE si == s[i].sum  sj == s[j].sum  ti == t[o(i)].sum  tj == t[o(j)].sum
  <2>a. /\ si \in Nat /\ sj \in Nat /\ ti \in Nat /\ tj \in Nat
        /\ si <= sj + d /\ ti <= tj + d /\ r[i].sum = si + ti /\ r[j].sum = sj + tj
    BY <2>1, <2>2, <2>3
  <2> HIDE DEF si, sj, ti, tj
  <2>4. CASE i < j
    <3>1. t[o(i)].sum <= t[o(j)].sum
      BY <1>2, <1>a, <2>1, <2>4 DEF InOrder
    <3>2. ti <= tj
      BY <3>1 DEF ti, tj
    <3> QED
      BY <2>a, <3>2
  <2>5. CASE j < i
    <3>1. s[i].sum <= s[j].sum
      BY <1>2, <2>5 DEF InOrder
    <3>2. si <= sj
      BY <3>1 DEF si, sj
    <3> QED
      BY <2>a, <3>2
  <2>6. CASE i = j
    <3>1. ti = tj /\ si = sj
      BY <2>6 DEF ti, tj, si, sj
    <3> QED
      BY <2>a, <3>1
  <2> QED
    BY <2>4, <2>5, <2>6
<1>8. SpreadOut(k, r)
  <2>1. \A i \in 1 .. k : Len(s[i].items) \in Nat /\ Len(t[i].items) \in Nat
    BY <1>2, PartFacts
  <2>2. CASE \E j \in 1 .. k : ~Full(r[j])
    <3>1. PICK j \in 1 .. k : ~Full(r[j])
      BY <2>2
    <3>a. /\ o(j) \in 1 .. k /\ Len(s[j].items) \in Nat /\ Len(t[o(j)].items) \in Nat
          /\ Len(r[j].items) = Len(s[j].items) + Len(t[o(j)].items)
      BY <1>1, <1>4, <2>1
    <3>b. ~(Len(r[j].items) > 0)
      BY <3>1 DEF Full
    <3>c. ~(Len(s[j].items) > 0) /\ ~(Len(t[o(j)].items) > 0)
      <4> DEFINE a == Len(s[j].items)  b == Len(t[o(j)].items)
      <4>1. a \in Nat /\ b \in Nat /\ ~(a + b > 0)
        BY <3>a, <3>b
      <4> HIDE DEF a, b
      <4>2. ~(a > 0) /\ ~(b > 0)
        BY <4>1
      <4> QED
        BY <4>2 DEF a, b
    <3>2. o(j) \in 1 .. k /\ ~Full(s[j]) /\ ~Full(t[o(j)])
      BY <3>a, <3>c DEF Full
    <3>3. \A i \in 1 .. k : Len(s[i].items) <= 1 /\ Len(t[i].items) <= 1
      BY <1>2, <3>2 DEF SpreadOut
    <3>4. ASSUME NEW i \in 1 .. k PROVE Len(r[i].items) <= 1
      <4>1. o(i) \in 1 .. k /\ Len(s[i].items) <= 1 /\ Len(t[o(i)].items) <= 1
            /\ Len(s[i].items) \in Nat /\ Len(t[o(i)].items) \in Nat
            /\ Len(r[i].items) = Len(s[i].items) + Len(t[o(i)].items)
        BY <1>1, <1>4, <2>1, <3>3
      <4>2. ~Full(s[i]) \/ ~Full(t[o(i)])
        <5>1. CASE i = j
          BY <3>2, <5>1
        <5>2. CASE j < i
          BY <1>2, <3>2, <5>2 DEF InOrder
        <5>3. CASE i < j
          <6>1. o(j) < o(i)
            BY <1>a, <5>3
          <6> QED
            BY <1>2, <3>2, <4>1, <6>1 DEF InOrder
        <5> QED
          BY <5>1, <5>2, <5>3
      <4>3. ~(Len(s[i].items) > 0) \/ ~(Len(t[o(i)].items) > 0)
        BY <4>2 DEF Full
      <4> DEFINE a == Len(s[i].items)  b == Len(t[o(i)].items)
      <4>4. a \in Nat /\ b \in Nat /\ a <= 1 /\ b <= 1 /\ (~(a > 0) \/ ~(b > 0))
            /\ Len(r[i].items) = a + b
        BY <4>1, <4>3
      <4> HIDE DEF a, b
      <4> QED
        BY <4>4
    <3> QED
      BY <3>4 DEF SpreadOut
  <2> QED
    BY <2>2 DEF SpreadOut
<1>9. r \in Maps(1 .. k, Parts(n))
  BY <1>4, <1>c DEF Maps
<1>10. \A x : Holds(k, r, x) <=> Holds(k, s, x) \/ Holds(k, t, x)
  <2> TAKE x
  <2>1. ASSUME Holds(k, r, x) PROVE Holds(k, s, x) \/ Holds(k, t, x)
    BY <1>1, <1>4, <2>1 DEF Holds
  <2>2. ASSUME Holds(k, s, x) PROVE Holds(k, r, x)
    BY <1>1, <1>4, <2>2 DEF Holds
  <2>3. ASSUME Holds(k, t, x) PROVE Holds(k, r, x)
    <3>1. PICK j \in 1 .. k : IsIn(t[j].items, x)
      BY <2>3 DEF Holds
    <3>2. o(j) \in 1 .. k /\ o(o(j)) = j
      BY <1>1
    <3>3. IsIn(r[o(j)].items, x)
      BY <1>4, <3>1, <3>2
    <3> QED
      BY <3>2, <3>3 DEF Holds
  <2> QED
    BY <2>1, <2>2, <2>3
<1> QED
  BY <1>5, <1>6, <1>7, <1>8, <1>9, <1>10 DEF Shape, r

-----------------------------------------------------------------------------
(* In a finite set that is ordered totally something comes before the rest. *)
LEMMA FirstOfAll ==
    ASSUME NEW S, IsFiniteSet(S), S # {}, NEW R,
           \A s, t, u \in S : <<s, t>> \in R /\ <<t, u>> \in R => <<s, u>> \in R,
           \A s, t \in S : s # t => <<s, t>> \in R \/ <<t, s>> \in R
    PROVE  \E s \in S : \A t \in S \ {s} : <<s, t>> \in R
<1> DEFINE First(T, s) == s \in T /\ \A t \in T \ {s} : <<s, t>> \in R
           P == { T \in SUBSET S : T = {} \/ \E s \in T : First(T, s) }
<1>1. {} \in P
  OBVIOUS
<1>2. ASSUME NEW T \in SUBSET S, T # {}, \A x \in T : T \ {x} \in P PROVE T \in P
  <2>1. PICK x \in T : TRUE
    BY <1>2
  <2>2. CASE T \ {x} = {}
    <3>1. First(T, x)
      BY <2>1, <2>2
    <3> QED
      BY <2>1, <3>1
  <2>3. CASE T \ {x} # {}
    <3>1. PICK s \in T \ {x} : First(T \ {x}, s)
      BY <1>2, <2>1, <2>3
    <3>2. s \in S /\ x \in S /\ s # x
      BY <2>1, <3>1
    <3>3. CASE <<s, x>> \in R
      <4>1. First(T, s)
        BY <3>1, <3>3
      <4> QED
        BY <3>1, <4>1
    <3>4. CASE <<x, s>> \in R
      <4>1. \A t \in T \ {x} : t # s => <<s, t>> \in R
        BY <3>1
      <4>2. \A t \in T \ {x} : <<x, t>> \in R
        BY <3>2, <3>4, <4>1
      <4>3. First(T, x)
        BY <2>1, <4>2
      <4> QED
        BY <2>1, <4>3
    <3> QED
      BY <3>2, <3>3, <3>4
  <2> QED
    BY <2>2, <2>3
<1> HIDE DEF P
<1>3. \A T \in SUBSET S : T \in P
  BY <1>1, <1>2, SubsetInduction
<1>4. S \in P
  BY <1>3
<1> QED
  BY <1>4 DEF P

Heaps(n, k, w, d) ==
    { H \in SUBSET States(n, k, w, d) :
        /\ IsFiniteSet(H)
        /\ \A s, t \in H : s # t => \A x : ~(Holds(k, s, x) /\ Holds(k, t, x)) }

LEMMA PoppedIsThere ==
    ASSUME NEW n \in Nat, NEW k \in Nat \ {0}, NEW d \in Nat, NEW w,
           NEW H \in Heaps(n, k, w, d), H # {}
    PROVE  Popped(H) \in H
<1> DEFINE R == { p \in H \X H : Before(p[1], p[2]) }
<1>1. IsFiniteSet(H) /\ H \subseteq States(n, k, w, d)
  BY DEF Heaps
<1>2. \A s \in H : s[1] \in Parts(n) /\ Full(s[1]) /\ Spread(s) \in Int
  <2> TAKE s \in H
  <2>1. s \in Maps(1 .. k, Parts(n)) /\ Full(s[1])
    BY <1>1 DEF States
  <2>2. s \in Seq(Parts(n)) /\ Len(s) = k /\ \A i \in 1 .. k : s[i] \in Parts(n)
    <3> DEFINE X == Parts(n)
    <3>1. s \in [1 .. k -> X]
      BY <2>1 DEF Maps
    <3> HIDE DEF X
    <3>2. s \in Seq(X) /\ Len(s) = k /\ \A i \in 1 .. k : s[i] \in X
      BY <3>1
    <3> QED
      BY <3>2 DEF X
  <2>3. s[1] \in Parts(n) /\ s[k] \in Parts(n)
    BY <2>2
  <2>4. s[1].sum \in Nat /\ s[k].sum \in Nat
    BY <2>3, PartFacts
  <2> QED
    BY <2>1, <2>2, <2>3, <2>4 DEF Spread
<1>3. \A s, t \in H : s # t => s[1] # t[1]
  <2> SUFFICES ASSUME NEW s \in H, NEW t \in H, s # t, s[1] = t[1] PROVE FALSE
    OBVIOUS
  <2>1. PICK x \in 1 .. n : IsIn(s[1].items, x)
    BY <1>2, PartFacts
  <2>2. 1 \in 1 .. k
    OBVIOUS
  <2>3. Holds(k, s, x) /\ Holds(k, t, x)
    BY <2>1, <2>2 DEF Holds
  <2> QED
    BY <2>3 DEF Heaps
<1>4. \A p, q \in Parts(n) : p # q => PartLess(p, q) \/ PartLess(q, p)
  BY PartOrder
<1>5. \A p, q, r \in Parts(n) : PartLess(p, q) /\ PartLess(q, r) => PartLess(p, r)
  BY PartOrder
<1>6. \A s, t \in H : s # t => <<s, t>> \in R \/ <<t, s>> \in R
  <2> SUFFICES ASSUME NEW s \in H, NEW t \in H, s # t PROVE Before(s, t) \/ Before(t, s)
    OBVIOUS
  <2>1. Spread(s) \in Int /\ Spread(t) \in Int /\ (PartLess(s[1], t[1]) \/ PartLess(t[1], s[1]))
    BY <1>2, <1>3, <1>4
  <2> QED
    BY <2>1 DEF Before
<1>7. \A s, t, u \in H : <<s, t>> \in R /\ <<t, u>> \in R => <<s, u>> \in R
  <2> SUFFICES ASSUME NEW s \in H, NEW t \in H, NEW u \in H, Before(s, t), Before(t, u)
               PROVE  Before(s, u)
    OBVIOUS
  <2>1. Spread(s) \in Int /\ Spread(t) \in Int /\ Spread(u) \in Int
    BY <1>2
  <2>2. PartLess(u[1], t[1]) /\ PartLess(t[1], s[1]) => PartLess(u[1], s[1])
    BY <1>2, <1>5
  <2> QED
    BY <2>1, <2>2 DEF Before
<1>8. \A s, t \in H : <<s, t>> \in R => Before(s, t)
  OBVIOUS
<1> HIDE DEF R
<1>9. \E s \in H : \A t \in H \ {s} : <<s, t>> \in R
  BY <1>1, <1>6, <1>7, FirstOfAll
<1>10. \E s \in H : \A t \in H \ {s} : Before(s, t)
  BY <1>8, <1>9
<1> QED
  BY <1>10 DEF Popped

Covers(n, k, H) == \A x \in 1 .. n : \E s \in H : Holds(k, s, x)

LEMMA MergeTwoStep ==
    ASSUME NEW n \in Nat, NEW k \in Nat \ {0}, NEW d \in Nat, NEW w \in Maps(1 .. n, Nat),
           NEW H \in Heaps(n, k, w, d), Covers(n, k, H), Cardinality(H) >= 2
    PROVE  /\ MergeTwo(H) \in Heaps(n, k, w, d) /\ Covers(n, k, MergeTwo(H))
           /\ Cardinality(MergeTwo(H)) = Cardinality(H) - 1
<1> DEFINE s == Popped(H)  t == Popped(H \ {s})
           m == Merged(s, t)
           rest == H \ {s, t}
<1>1. IsFiniteSet(H) /\ H \subseteq States(n, k, w, d)
      /\ \A a, b \in H : a # b => \A x : ~(Holds(k, a, x) /\ Holds(k, b, x))
  BY DEF Heaps
<1>2. H # {} /\ Cardinality(H) \in Nat
  BY <1>1, FS_EmptySet, FS_CardinalityType
<1>3. s \in H
  BY <1>2, PoppedIsThere
<1> HIDE DEF s
<1>4. IsFiniteSet(H \ {s}) /\ Cardinality(H \ {s}) = Cardinality(H) - 1
  BY <1>1, <1>3, FS_RemoveElement
<1>5. H \ {s} \in Heaps(n, k, w, d) /\ H \ {s} # {}
  <2>1. Cardinality(H \ {s}) # 0
    BY <1>2, <1>4
  <2>2. H \ {s} # {}
    BY <2>1, FS_EmptySet
  <2> QED
    BY <1>1, <1>4, <2>2 DEF Heaps
<1>6. t \in H \ {s}
  BY <1>5, PoppedIsThere
<1> HIDE DEF t
<1>7. s \in States(n, k, w, d) /\ t \in States(n, k, w, d)
      /\ \A x : ~(Holds(k, s, x) /\ Holds(k, t, x))
  BY <1>1, <1>3, <1>6
<1>8. DOMAIN s = 1 .. k /\ Len(t) = k
  <2>1. s \in [1 .. k -> Parts(n)] /\ t \in [1 .. k -> Parts(n)]
    BY <1>7 DEF States, Maps
  <2> DEFINE X == Parts(n)
  <2> HIDE DEF X
  <2>2. t \in [1 .. k -> X] /\ s \in [1 .. k -> X]
    BY <2>1 DEF X
  <2> QED
    BY <2>2
<1> DEFINE r == Unsorted(k, s, t)
<1>9. m = Decreasing(r)
  <2>1. [i \in DOMAIN s |-> Joined(s[i], t[Len(t) + 1 - i])]
            = [i \in 1 .. k |-> Joined(s[i], t[k + 1 - i])]
    BY <1>8
  <2> QED
    BY <2>1 DEF Merged, Unsorted
<1>10. /\ Shape(n, k, w, d, r)
       /\ \A x : Holds(k, r, x) <=> Holds(k, s, x) \/ Holds(k, t, x)
  BY <1>7, MergedShape
<1>11. PICK x0 \in 1 .. n : Holds(k, s, x0)
  <2>1. Full(s[1]) /\ s \in Maps(1 .. k, Parts(n)) /\ 1 \in 1 .. k
    BY <1>7 DEF States
  <2>2. s[1] \in Parts(n)
    BY <2>1 DEF Maps
  <2>3. \E x \in 1 .. n : IsIn(s[1].items, x)
    BY <2>1, <2>2, PartFacts
  <2> QED
    BY <2>1, <2>3 DEF Holds
<1> HIDE DEF r
<1>12. /\ m \in States(n, k, w, d)
       /\ \A x : Holds(k, m, x) <=> Holds(k, s, x) \/ Holds(k, t, x)
  <2>1. k \in Nat /\ Holds(k, r, x0)
    BY <1>10, <1>11
  <2>2. Decreasing(r) \in States(n, k, w, d)
        /\ \A y : Holds(k, Decreasing(r), y) <=> Holds(k, r, y)
    BY <1>10, <2>1, DecreasingState
  <2> QED
    BY <1>9, <1>10, <2>2
<1> HIDE DEF m
<1>13. IsFiniteSet(rest) /\ Cardinality(rest) = Cardinality(H) - 2
  <2>1. rest = (H \ {s}) \ {t}
    OBVIOUS
  <2>2. IsFiniteSet((H \ {s}) \ {t}) /\ Cardinality((H \ {s}) \ {t}) = Cardinality(H \ {s}) - 1
    BY <1>4, <1>6, FS_RemoveElement
  <2> HIDE DEF rest
  <2>3. IsFiniteSet(rest) /\ Cardinality(rest) = Cardinality(H \ {s}) - 1
    BY ONLY <2>1, <2>2
  <2> QED
    BY <1>2, <1>4, <2>3
<1>14. \A a \in rest : \A x : ~(Holds(k, a, x) /\ Holds(k, m, x))
  BY <1>1, <1>3, <1>6, <1>12
<1>15. m \notin rest
  BY <1>11, <1>12, <1>14
<1>16. MergeTwo(H) = rest \cup {m}
  BY DEF MergeTwo, s, t, m
<1>17. IsFiniteSet(rest \cup {m}) /\ Cardinality(rest \cup {m}) = Cardinality(H) - 1
  <2>1. IsFiniteSet(rest \cup {m}) /\ Cardinality(rest \cup {m}) = Cardinality(rest) + 1
    BY <1>13, <1>15, FS_AddElement
  <2> QED
    BY <1>2, <1>13, <2>1
<1>18. \A a, b \in rest \cup {m} : a # b => \A x : ~(Holds(k, a, x) /\ Holds(k, b, x))
  BY <1>1, <1>14
<1>19. rest \cup {m} \in Heaps(n, k, w, d)
  BY <1>1, <1>12, <1>17, <1>18 DEF Heaps
<1>20. Covers(n, k, rest \cup {m})
  <2> SUFFICES ASSUME NEW x \in 1 .. n PROVE \E a \in rest \cup {m} : Holds(k, a, x)
    BY DEF Covers
  <2>1. PICK a \in H : Holds(k, a, x)
    BY DEF Covers
  <2>2. a \in rest \/ a = s \/ a = t
    OBVIOUS
  <2> QED
    BY <1>12, <2>1, <2>2
<1> QED
  BY <1>16, <1>17, <1>19, <1>20

-----------------------------------------------------------------------------
(* The states that the heap starts with. *)
ItemsOf(lens, k, equal_size) ==
    IF equal_size
    THEN { SubSeq(ByLength(lens), o * k + 1, (o + 1) * k) : o \in 0 .. (Len(lens) \div k) - 1 }
    ELSE { <<i>> : i \in DOMAIN lens }

SharedItems(n, k, I) ==
    /\ IsFiniteSet(I) /\ I # {}
    /\ \A t \in I : t \in Seq(1 .. n) /\ Once(t) /\ Len(t) >= 1 /\ Len(t) <= k
    /\ \A t, u \in I : t # u => \A x : ~(IsIn(t, x) /\ IsIn(u, x))
    /\ \A x \in 1 .. n : \E t \in I : IsIn(t, x)

CanStart(n, k, equal_size) == n >= 1 /\ (equal_size => n % k = 0)

LEMMA InitialItems ==
    ASSUME NEW lens \in Seq(Nat), NEW k \in Nat \ {0}, NEW equal_size \in BOOLEAN,
           CanStart(Len(lens), k, equal_size)
    PROVE  SharedItems(Len(lens), k, ItemsOf(lens, k, equal_size))
<1> DEFINE n == Len(lens)  I == ItemsOf(lens, k, equal_size)
<1>0. n \in Nat /\ n >= 1 /\ DOMAIN lens = 1 .. n
  BY DEF CanStart
<1>1. CASE ~equal_size
  <2>1. I = { <<i>> : i \in 1 .. n }
    BY <1>0, <1>1 DEF ItemsOf
  <2> HIDE DEF I, n
  <2>2. \A i \in 1 .. n : <<i>> \in Seq(1 .. n) /\ Len(<<i>>) = 1 /\ <<i>>[1] = i
    OBVIOUS
  <2>3. \A i \in 1 .. n : Once(<<i>>) /\ \A x : IsIn(<<i>>, x) <=> x = i
    BY <2>2 DEF Once, IsIn
  <2>4. \A t \in I : \E i \in 1 .. n : t = <<i>>
    BY <2>1
  <2>5. \A i \in 1 .. n : <<i>> \in I
    BY <2>1
  <2>6. IsFiniteSet(I)
    <3> DEFINE f == [i \in 1 .. n |-> <<i>>]
    <3>1. f \in Surjection(1 .. n, I)
      BY <2>1 DEF Surjection
    <3>2. IsFiniteSet(1 .. n)
      BY <1>0, FS_Interval
    <3> QED
      BY <3>1, <3>2, FS_Surjection
  <2>7. I # {}
    <3>1. 1 \in 1 .. n
      BY <1>0
    <3> QED
      BY <2>5, <3>1
  <2>8. \A t \in I : t \in Seq(1 .. n) /\ Once(t) /\ Len(t) >= 1 /\ Len(t) <= k
    <3> TAKE t \in I
    <3>1. PICK i \in 1 .. n : t = <<i>>
      BY <2>4
    <3>2. t \in Seq(1 .. n) /\ Len(t) = 1
      BY <2>2, <3>1
    <3>3. Once(t)
      BY <2>3, <3>1
    <3> QED
      BY <3>2, <3>3
  <2>9. \A t, u \in I : t # u => \A x : ~(IsIn(t, x) /\ IsIn(u, x))
    BY ONLY <2>3, <2>4
  <2>10. \A x \in 1 .. n : \E t \in I : IsIn(t, x)
    BY ONLY <2>3, <2>5
  <2> QED
    BY <2>6, <2>7, <2>8, <2>9, <2>10 DEF I, n, SharedItems
<1>2. CASE equal_size
  <2> DEFINE sorted == ByLength(lens)
             c == n \div k
             piece(o) == SubSeq(sorted, o * k + 1, (o + 1) * k)
  <2>1. Bijective(sorted, 1 .. n, 1 .. n)
    BY ByLengthIs
  <2>2. c \in Nat \ {0} /\ n = c * k
    <3>1. n % k = 0
      BY <1>2 DEF CanStart
    <3>2. n = k * c /\ c \in Int
      <4> HIDE DEF n
      <4>1. n \in Int /\ k \in Nat \ {0}
        BY <1>0
      <4>2. n \div k \in Int /\ n % k = n - k * (n \div k)
        BY <4>1, Division
      <4>3. k * (n \div k) \in Int
        BY <4>2
      <4> QED
        BY <3>1, <4>1, <4>2, <4>3
    <3> HIDE DEF c, n
    <3>3. c > 0
      <4>1. c <= 0 => k * c <= 0
        BY <3>2
      <4> QED
        BY <1>0, <3>2, <4>1
    <3> QED
      BY <3>2, <3>3
  <2>3. I = { piece(o) : o \in 0 .. c - 1 }
    BY <1>2 DEF ItemsOf
  <2> HIDE DEF I, n, c, sorted
  <2>4. sorted \in [1 .. n -> 1 .. n] /\ sorted \in Seq(1 .. n) /\ Len(sorted) = n
    <3>1. sorted \in [1 .. n -> 1 .. n]
      BY <2>1 DEF Bijective
    <3>2. n \in Nat
      BY <1>0
    <3> QED
      BY ONLY <3>1, <3>2
  <2>5. \A o \in 0 .. c - 1 : \A i \in 1 .. k : o * k + i \in 1 .. n
    <3>1. k \in Nat \ {0} /\ c \in Nat
      BY <2>2
    <3> QED
      BY <2>2, <3>1, BlockIndex
  <2>6. \A o \in 0 .. c - 1 : /\ piece(o) \in Seq(1 .. n) /\ Len(piece(o)) = k
                              /\ \A i \in 1 .. k : piece(o)[i] = sorted[o * k + i]
    <3> TAKE o \in 0 .. c - 1
    <3> DEFINE b == o * k
    <3>1. b \in Nat /\ (o + 1) * k = b + k /\ k \in Nat
      BY <2>2
    <3>2. \A i \in 1 .. k : b + i \in 1 .. n
      BY <2>5
    <3> HIDE DEF b
    <3>3. b + k \in 1 .. n
      BY <2>2, <3>2
    <3>4. SubSeq(sorted, b + 1, b + k) \in Seq(1 .. n) /\ Len(SubSeq(sorted, b + 1, b + k)) = k
          /\ \A i \in 1 .. k : SubSeq(sorted, b + 1, b + k)[i] = sorted[b + i]
      BY <2>4, <3>1, <3>2, <3>3
    <3> QED
      BY <3>1, <3>4 DEF b
  <2>7. \A o, q \in 0 .. c - 1 : \A i, j \in 1 .. k : o * k + i = q * k + j => o = q /\ i = j
    <3> SUFFICES ASSUME NEW o \in 0 .. c - 1, NEW q \in 0 .. c - 1,
                        NEW i \in 1 .. k, NEW j \in 1 .. k, o * k + i = q * k + j
                 PROVE  o = q /\ i = j
      OBVIOUS
    <3>0. k \in Nat \ {0} /\ o \in Int /\ q \in Int /\ i - 1 \in 0 .. k - 1 /\ j - 1 \in 0 .. k - 1
      BY <2>2
    <3>1. (o * k + (i - 1)) \div k = o /\ (o * k + (i - 1)) % k = i - 1
      BY ONLY <3>0, QuotientOf
    <3>2. (q * k + (j - 1)) \div k = q /\ (q * k + (j - 1)) % k = j - 1
      BY ONLY <3>0, QuotientOf
    <3> DEFINE a == o * k  b == q * k
    <3>3. a \in Int /\ b \in Int /\ a + i = b + j
      OBVIOUS
    <3> HIDE DEF a, b
    <3>4. a + (i - 1) = b + (j - 1)
      BY <3>3
    <3>5. o = q /\ i - 1 = j - 1
      BY <3>1, <3>2, <3>4 DEF a, b
    <3> QED
      BY <3>5
  <2>8. \A y \in 1 .. n : \E o \in 0 .. c - 1 : \E i \in 1 .. k : y = o * k + i
    <3> TAKE y \in 1 .. n
    <3> DEFINE o == (y - 1) \div k  i == ((y - 1) % k) + 1  a == o * k
    <3>1. o \in Int /\ i \in 1 .. k /\ (y - 1) % k = (y - 1) - k * o
      <4>1. y - 1 \in Int
        OBVIOUS
      <4>2. (y - 1) \div k \in Int /\ (y - 1) % k \in 0 .. k - 1
            /\ (y - 1) % k = (y - 1) - k * ((y - 1) \div k)
        BY <4>1, Division
      <4> QED
        BY <4>2
    <3>2. a \in Int /\ k * o = a
      BY <3>1
    <3>3. y = a + i
      <4> HIDE DEF a, o
      <4> QED
        BY <3>1, <3>2
    <3> HIDE DEF o, i, a
    <3>4. o >= 0
      <4>1. o < 0 => o * k <= -k
        BY <3>1
      <4> QED
        BY <3>1, <3>2, <3>3, <4>1 DEF a
    <3>5. o <= c - 1
      <4>1. o >= c => o * k >= c * k
        BY <2>2, <3>1
      <4> QED
        BY <2>2, <3>1, <3>2, <3>3, <4>1 DEF a
    <3> QED
      BY <3>1, <3>3, <3>4, <3>5 DEF a
  <2> HIDE DEF piece
  <2>9. \A t \in I : \E o \in 0 .. c - 1 : t = piece(o)
    BY <2>3
  <2>10. \A o \in 0 .. c - 1 : piece(o) \in I
    BY <2>3
  <2>11. IsFiniteSet(I)
    <3> DEFINE f == [o \in 0 .. c - 1 |-> piece(o)]
    <3>1. f \in Surjection(0 .. c - 1, I)
      BY <2>3 DEF Surjection
    <3>2. IsFiniteSet(0 .. c - 1)
      BY <2>2, FS_Interval
    <3> QED
      BY <3>1, <3>2, FS_Surjection
  <2>12. I # {}
    <3>1. 0 \in 0 .. c - 1
      BY <2>2
    <3> QED
      BY <2>10, <3>1
  <2>13. \A i, j \in 1 .. n : sorted[i] = sorted[j] => i = j
    BY <2>1 DEF Bijective
  <2>14. \A t \in I : t \in Seq(1 .. n) /\ Once(t) /\ Len(t) >= 1 /\ Len(t) <= k
    <3> TAKE t \in I
    <3>1. PICK o \in 0 .. c - 1 : t = piece(o)
      BY <2>9
    <3>2. t \in Seq(1 .. n) /\ Len(t) = k /\ \A i \in 1 .. k : t[i] = sorted[o * k + i]
      BY <2>6, <3>1
    <3>3. \A i, j \in 1 .. k : t[i] = t[j] => i = j
      <4> SUFFICES ASSUME NEW i \in 1 .. k, NEW j \in 1 .. k, t[i] = t[j] PROVE i = j
        OBVIOUS
      <4>1. o * k + i \in 1 .. n /\ o * k + j \in 1 .. n
        BY <2>5
      <4>2. sorted[o * k + i] = sorted[o * k + j]
        BY <3>2
      <4>3. o * k + i = o * k + j
        BY ONLY <2>13, <4>1, <4>2
      <4> QED
        BY <2>7, <4>3
    <3> QED
      BY <3>2, <3>3 DEF Once
  <2>15. \A t, u \in I : t # u => \A x : ~(IsIn(t, x) /\ IsIn(u, x))
    <3> SUFFICES ASSUME NEW t \in I, NEW u \in I, NEW x, IsIn(t, x), IsIn(u, x) PROVE t = u
      OBVIOUS
    <3>1. PICK o \in 0 .. c - 1 : t = piece(o)
      BY <2>9
    <3>2. PICK q \in 0 .. c - 1 : u = piece(q)
      BY <2>9
    <3>3. Len(t) = k /\ \A i \in 1 .. k : t[i] = sorted[o * k + i]
      BY <2>6, <3>1
    <3>4. Len(u) = k /\ \A i \in 1 .. k : u[i] = sorted[q * k + i]
      BY <2>6, <3>2
    <3>5. PICK i \in 1 .. k : t[i] = x
      BY <3>3 DEF IsIn
    <3>6. PICK j \in 1 .. k : u[j] = x
      BY <3>4 DEF IsIn
    <3>7. sorted[o * k + i] = sorted[q * k + j]
      BY <3>3, <3>4, <3>5, <3>6
    <3>8. o = q
      BY <2>5, <2>7, <2>13, <3>7
    <3> QED
      BY <3>1, <3>2, <3>8
  <2>16. \A x \in 1 .. n : \E t \in I : IsIn(t, x)
    <3> TAKE x \in 1 .. n
    <3>1. PICK y \in 1 .. n : sorted[y] = x
      BY <2>1 DEF Bijective
    <3>2. PICK o \in 0 .. c - 1 : \E i \in 1 .. k : y = o * k + i
      BY <2>8
    <3>3. PICK i \in 1 .. k : y = o * k + i
      BY <3>2
    <3>4. piece(o)[i] = x /\ Len(piece(o)) = k
      BY <2>6, <3>1, <3>3
    <3>5. IsIn(piece(o), x)
      BY <3>4 DEF IsIn
    <3> QED
      BY <2>10, <3>5
  <2> QED
    BY <2>11, <2>12, <2>14, <2>15, <2>16 DEF I, n, SharedItems
<1> QED
  BY <1>1, <1>2

-----------------------------------------------------------------------------
(* The heap at the start, and what becomes of it when its parts are joined. *)
LEMMA InitialHeap ==
    ASSUME NEW n \in Nat \ {0}, NEW d \in Nat, NEW lens \in Lens(n, d), NEW k \in Nat \ {0},
           NEW equal_size \in BOOLEAN, CanStart(n, k, equal_size)
    PROVE  /\ InitialStates(lens, k, equal_size) \in Heaps(n, k, lens, d)
           /\ InitialStates(lens, k, equal_size) # {}
           /\ Covers(n, k, InitialStates(lens, k, equal_size))
<1> DEFINE I == ItemsOf(lens, k, equal_size)
           state(t) == Decreasing(FirstParts(k, t, lens))
           H == InitialStates(lens, k, equal_size)
<1>1. lens \in Seq(Nat) /\ Len(lens) = n /\ n >= 1 /\ n \in Nat
  <2>1. lens \in [1 .. n -> Nat]
    BY DEF Lens, Maps
  <2> QED
    BY <2>1
<1>2. /\ IsFiniteSet(I) /\ I # {}
      /\ \A t \in I : t \in Seq(1 .. n) /\ Once(t) /\ Len(t) >= 1 /\ Len(t) <= k
      /\ \A t, u \in I : t # u => \A x : ~(IsIn(t, x) /\ IsIn(u, x))
      /\ \A x \in 1 .. n : \E t \in I : IsIn(t, x)
  <2>1. CanStart(Len(lens), k, equal_size)
    BY <1>1 DEF CanStart
  <2>2. SharedItems(Len(lens), k, I)
    BY <1>1, <2>1, InitialItems
  <2>3. SharedItems(n, k, I)
    BY <1>1, <2>2
  <2> HIDE DEF I
  <2> QED
    BY <2>3 DEF SharedItems
<1>3. H = { state(t) : t \in I }
  <2>1. CASE equal_size
    BY <2>1 DEF InitialStates, ItemsOf, FirstParts
  <2>2. CASE ~equal_size
    BY <2>2 DEF InitialStates, ItemsOf, FirstParts
  <2> QED
    BY <2>1, <2>2
<1> HIDE DEF H, I
<1>4. \A t \in I : state(t) \in States(n, k, lens, d) /\ \A x : Holds(k, state(t), x) <=> IsIn(t, x)
  <2> TAKE t \in I
  <2> DEFINE parts == FirstParts(k, t, lens)
  <2>1. t \in Seq(1 .. n) /\ Once(t) /\ Len(t) >= 1 /\ Len(t) <= k
    BY <1>2
  <2>2. /\ Shape(n, k, lens, d, parts)
        /\ \A x : Holds(k, parts, x) <=> IsIn(t, x)
    BY <1>1, <2>1, FirstPartsShape
  <2> HIDE DEF parts
  <2>3. t[1] \in 1 .. n /\ IsIn(t, t[1])
    BY <2>1 DEF IsIn
  <2>4. Holds(k, parts, t[1])
    BY <2>2, <2>3
  <2>5. /\ Decreasing(parts) \in States(n, k, lens, d)
        /\ \A y : Holds(k, Decreasing(parts), y) <=> Holds(k, parts, y)
    BY <1>1, <2>2, <2>3, <2>4, DecreasingState
  <2>6. Decreasing(parts) \in States(n, k, lens, d)
        /\ \A y : Holds(k, Decreasing(parts), y) <=> IsIn(t, y)
    BY <2>2, <2>5
  <2> QED
    BY <2>6 DEF parts
<1> HIDE DEF state
<1>5. \A a \in H : \E t \in I : a = state(t)
  BY <1>3
<1>6. \A t \in I : state(t) \in H
  BY <1>3
<1>7. IsFiniteSet(H)
  <2> DEFINE f == [t \in I |-> state(t)]
  <2>1. f \in Surjection(I, H)
    BY <1>3 DEF Surjection
  <2> QED
    BY <1>2, <2>1, FS_Surjection
<1>8. H \subseteq States(n, k, lens, d)
  BY <1>4, <1>5
<1>9. \A a, b \in H : a # b => \A x : ~(Holds(k, a, x) /\ Holds(k, b, x))
  <2> SUFFICES ASSUME NEW a \in H, NEW b \in H, a # b, NEW x, Holds(k, a, x), Holds(k, b, x)
               PROVE  FALSE
    OBVIOUS
  <2>1. PICK t \in I : a = state(t)
    BY <1>5
  <2>2. PICK u \in I : b = state(u)
    BY <1>5
  <2> QED
    BY <1>2, <1>4, <2>1, <2>2
<1>10. Covers(n, k, H)
  <2> SUFFICES ASSUME NEW x \in 1 .. n PROVE \E a \in H : Holds(k, a, x)
    BY DEF Covers
  <2>1. PICK t \in I : IsIn(t, x)
    BY <1>2
  <2> QED
    BY <1>4, <1>6, <2>1
<1>11. H # {}
  BY <1>2, <1>6
<1>12. H \in Heaps(n, k, lens, d)
  BY <1>7, <1>8, <1>9 DEF Heaps
<1> QED
  BY <1>10, <1>11, <1>12 DEF H

(* The heap after every merge. *)
MergesOf(states, N) ==
    CHOOSE heap : heap = [m \in 0 .. N |-> IF m = 0 THEN states ELSE MergeTwo(heap[m - 1])]

LEMMA MergesEnd ==
    ASSUME NEW n \in Nat, NEW k \in Nat \ {0}, NEW d \in Nat, NEW w \in Maps(1 .. n, Nat),
           NEW H \in Heaps(n, k, w, d), Covers(n, k, H), NEW N \in Nat, Cardinality(H) = N + 1
    PROVE  \E s \in States(n, k, w, d) :
               MergesOf(H, N)[N] = {s} /\ \A x \in 1 .. n : Holds(k, s, x)
<1> DEFINE V == SUBSET States(n, k, w, d)
           Good(m, G) == G \in Heaps(n, k, w, d) /\ Covers(n, k, G) /\ Cardinality(G) = N + 1 - m
           Mergeable(G) == G \in Heaps(n, k, w, d) /\ Covers(n, k, G) /\ Cardinality(G) >= 2
           step == [x \in (1 .. N) \X V |-> IF Mergeable(x[2]) THEN MergeTwo(x[2]) ELSE x[2]]
           Eq(heap) == heap = [m \in 0 .. N |-> IF m = 0 THEN H ELSE MergeTwo(heap[m - 1])]
<1>1. Heaps(n, k, w, d) \subseteq V
  BY DEF Heaps
<1>2. \A G : Mergeable(G) => /\ MergeTwo(G) \in Heaps(n, k, w, d) /\ Covers(n, k, MergeTwo(G))
                             /\ Cardinality(MergeTwo(G)) = Cardinality(G) - 1
  BY MergeTwoStep
<1>3. \A m \in 1 .. N : \A G : Good(m - 1, G) => Mergeable(G) /\ Good(m, MergeTwo(G))
  <2> TAKE m \in 1 .. N
  <2> TAKE G
  <2> SUFFICES ASSUME Good(m - 1, G) PROVE Mergeable(G) /\ Good(m, MergeTwo(G))
    OBVIOUS
  <2> DEFINE c == Cardinality(G)
  <2>1. c = N + 1 - (m - 1)
    OBVIOUS
  <2>2. c >= 2 /\ c - 1 = N + 1 - m
    <3> HIDE DEF c
    <3> QED
      BY <2>1
  <2>3. Mergeable(G)
    BY <2>2
  <2>4. Cardinality(MergeTwo(G)) = c - 1 /\ MergeTwo(G) \in Heaps(n, k, w, d)
        /\ Covers(n, k, MergeTwo(G))
    BY <1>2, <2>3
  <2> QED
    BY <2>2, <2>3, <2>4
<1>4. step \in [(1 .. N) \X V -> V]
  <2>1. \A x \in (1 .. N) \X V : (IF Mergeable(x[2]) THEN MergeTwo(x[2]) ELSE x[2]) \in V
    <3> TAKE x \in (1 .. N) \X V
    <3>1. x[2] \in V
      OBVIOUS
    <3> HIDE DEF V, Mergeable
    <3>2. Mergeable(x[2]) => MergeTwo(x[2]) \in V
      BY <1>1, <1>2
    <3> QED
      BY <3>1, <3>2
  <2> HIDE DEF V, Mergeable
  <2> QED
    BY <2>1
<1>5. \A m \in 1 .. N : \A G \in V : step[<<m, G>>] = IF Mergeable(G) THEN MergeTwo(G) ELSE G
  <2> HIDE DEF V, Mergeable
  <2> QED
    OBVIOUS
<1> HIDE DEF step
<1>6. H \in V
  BY <1>1
<1> HIDE DEF V
<1>7. PICK f \in [0 .. N -> V] : f[0] = H /\ \A m \in 1 .. N : f[m] = step[<<m, f[m - 1]>>]
  <2>1. Recursions(N, V, H, step) # {}
    BY <1>4, <1>6, RecursionUpTo
  <2> QED
    BY <2>1 DEF Recursions
<1>8. \A m \in 1 .. N : m \in 0 .. N /\ m - 1 \in 0 .. N
  OBVIOUS
<1>9. \A m \in 0 .. N : Good(m, f[m])
  <2> DEFINE P == { m \in 0 .. N : Good(m, f[m]) }
  <2>1. 0 \in P
    <3>1. N + 1 - 0 = N + 1 /\ 0 \in 0 .. N
      OBVIOUS
    <3> QED
      BY <1>7, <3>1
  <2>2. \A m \in 1 .. N : m - 1 \in P => m \in P
    <3> TAKE m \in 1 .. N
    <3> SUFFICES ASSUME Good(m - 1, f[m - 1]) PROVE m \in P
      OBVIOUS
    <3> HIDE DEF Good, Mergeable
    <3>1. f[m - 1] \in V
      BY <1>7, <1>8
    <3>2. Mergeable(f[m - 1]) /\ Good(m, MergeTwo(f[m - 1]))
      BY <1>3
    <3>3. f[m] = MergeTwo(f[m - 1])
      BY <1>5, <1>7, <3>1, <3>2
    <3> QED
      BY <1>8, <3>2, <3>3
  <2> HIDE DEF P
  <2>3. \A m \in 0 .. N : m \in P
    BY <2>1, <2>2, UpToInduction
  <2> QED
    BY <2>3 DEF P
<1> HIDE DEF Good, Mergeable
<1>10. \A m \in 1 .. N : f[m] = MergeTwo(f[m - 1])
  <2> TAKE m \in 1 .. N
  <2>1. Good(m - 1, f[m - 1]) /\ f[m - 1] \in V
    BY <1>7, <1>8, <1>9
  <2>2. Mergeable(f[m - 1])
    BY <1>3, <2>1
  <2> QED
    BY <1>5, <1>7, <2>1, <2>2
<1>11. Eq(f)
  <2>1. f = [m \in 0 .. N |-> f[m]]
    BY <1>7
  <2>2. \A m \in 0 .. N : f[m] = IF m = 0 THEN H ELSE MergeTwo(f[m - 1])
    <3> TAKE m \in 0 .. N
    <3>1. m # 0 => m \in 1 .. N
      OBVIOUS
    <3> QED
      BY <1>7, <1>10, <3>1, Zenon
  <2> QED
    BY <2>1, <2>2
<1> DEFINE g == MergesOf(H, N)
<1>12. Eq(g)
  BY <1>11 DEF MergesOf
<1> HIDE DEF g
<1>13. \A m \in 0 .. N : g[m] = f[m]
  <2> DEFINE P == { m \in 0 .. N : g[m] = f[m] }
  <2>1. 0 \in P
    <3>1. 0 \in 0 .. N
      OBVIOUS
    <3>2. g[0] = H
      BY <1>12, <3>1
    <3> QED
      BY <1>7, <3>1, <3>2
  <2>2. \A m \in 1 .. N : m - 1 \in P => m \in P
    <3> TAKE m \in 1 .. N
    <3> SUFFICES ASSUME g[m - 1] = f[m - 1] PROVE g[m] = f[m]
      BY <1>8
    <3>1. m \in 0 .. N /\ m # 0
      OBVIOUS
    <3>2. g[m] = MergeTwo(g[m - 1])
      BY <1>12, <3>1
    <3> QED
      BY <1>10, <3>2
  <2> HIDE DEF P
  <2>3. \A m \in 0 .. N : m \in P
    BY <2>1, <2>2, UpToInduction
  <2> QED
    BY <2>3 DEF P
<1>14. Good(N, g[N])
  <2>1. N \in 0 .. N
    OBVIOUS
  <2> QED
    BY <1>9, <1>13, <2>1
<1> DEFINE G == g[N]
<1>15. G \in Heaps(n, k, w, d) /\ Covers(n, k, G) /\ Cardinality(G) = N + 1 - N
  BY <1>14 DEF Good
<1> HIDE DEF G
<1>16. IsFiniteSet(G) /\ G \subseteq States(n, k, w, d) /\ Cardinality(G) = 1
  <2>1. N + 1 - N = 1
    OBVIOUS
  <2> QED
    BY <1>15, <2>1 DEF Heaps
<1>17. PICK s : G = {s}
  BY <1>16, FS_Singleton
<1>18. s \in States(n, k, w, d)
  BY <1>16, <1>17
<1>19. \A x \in 1 .. n : Holds(k, s, x)
  BY <1>15, <1>17 DEF Covers
<1> QED
  BY <1>17, <1>18, <1>19 DEF G, g

-----------------------------------------------------------------------------
(* What a partition of 1 .. n into k sequences is. *)
ShareOut(n, k, ss) ==
    /\ ss \in Seq(Seq(1 .. n)) /\ Len(ss) = k /\ Apart(ss)
    /\ \A x \in 1 .. n : \E p \in 1 .. Len(ss) : IsIn(ss[p], x)
NoneEmpty(k, ss) == \A p \in 1 .. k : Len(ss[p]) > 0
Even(n, k, w, d, ss) ==
    \A p, q \in 1 .. k : Weight(n, w, Elements(ss[p])) <= Weight(n, w, Elements(ss[q])) + d

(* As many parts as there are elements have one each. *)
LEMMA PartsOfOne ==
    ASSUME NEW n \in Nat, NEW ss, ShareOut(n, n, ss), NoneEmpty(n, ss)
    PROVE  \A p \in 1 .. n : Len(ss[p]) = 1
<1> DEFINE f == [p \in 1 .. n |-> ss[p][1]]
<1>1. \A p \in 1 .. n : ss[p] \in Seq(1 .. n) /\ Len(ss[p]) \in Nat /\ Len(ss[p]) > 0
  <2> DEFINE V == Seq(1 .. n)
  <2>1. ss \in Seq(V) /\ Len(ss) = n
    BY DEF ShareOut
  <2> HIDE DEF V
  <2>2. \A p \in 1 .. n : ss[p] \in V
    BY <2>1
  <2>3. \A p \in 1 .. n : Len(ss[p]) > 0
    BY DEF NoneEmpty
  <2> QED
    BY <2>2, <2>3 DEF V
<1>2. f \in [1 .. n -> 1 .. n]
  <2>1. \A p \in 1 .. n : ss[p][1] \in 1 .. n
    <3> TAKE p \in 1 .. n
    <3> DEFINE t == ss[p]
    <3>1. t \in Seq(1 .. n) /\ Len(t) \in Nat /\ Len(t) > 0
      BY <1>1
    <3> HIDE DEF t
    <3>2. t[1] \in 1 .. n
      BY <3>1
    <3> QED
      BY <3>2 DEF t
  <2> QED
    BY <2>1
<1>3. \A p, q \in 1 .. n : \A i \in 1 .. Len(ss[p]) : \A j \in 1 .. Len(ss[q]) :
          ss[p][i] = ss[q][j] => p = q /\ i = j
  BY DEF ShareOut, Apart
<1>4. \A p \in 1 .. n : 1 \in 1 .. Len(ss[p])
  BY <1>1
<1>5. \A p, q \in 1 .. n : f[p] = f[q] => p = q
  <2> TAKE p, q \in 1 .. n
  <2>1. f[p] = ss[p][1] /\ f[q] = ss[q][1]
    OBVIOUS
  <2> HIDE DEF f
  <2> SUFFICES ASSUME f[p] = f[q] PROVE p = q
    OBVIOUS
  <2>2. ss[p][1] = ss[q][1] /\ 1 \in 1 .. Len(ss[p]) /\ 1 \in 1 .. Len(ss[q])
    BY <1>4, <2>1
  <2> QED
    BY <1>3, <2>2
<1>6. \A m \in 1 .. n : \E p \in 1 .. n : f[p] = m
  <2> HIDE DEF f
  <2> QED
    BY <1>2, <1>5, InjectiveIsOnto
<1> SUFFICES ASSUME NEW p \in 1 .. n PROVE Len(ss[p]) = 1
  OBVIOUS
<1> DEFINE t == ss[p]
<1>7. t \in Seq(1 .. n) /\ Len(t) \in Nat /\ Len(t) > 0
  BY <1>1
<1>8. \A i \in 1 .. Len(t) : i = 1
  <2> TAKE i \in 1 .. Len(t)
  <2>1. t[i] \in 1 .. n
    <3> HIDE DEF t
    <3> QED
      BY <1>7
  <2>2. PICK q \in 1 .. n : f[q] = t[i]
    BY <1>6, <2>1
  <2>3. ss[q][1] = ss[p][i]
    BY <2>2
  <2> QED
    BY <1>3, <1>4, <2>3
<1> HIDE DEF t
<1>9. Len(t) = 1
  <2>1. Len(t) \in 1 .. Len(t)
    BY <1>7
  <2> QED
    BY <1>8, <2>1
<1> QED
  BY <1>9 DEF t

LEMMA KarmarkarKarpShares ==
    ASSUME NEW n \in Nat \ {0}, NEW d \in Nat, NEW lens \in Lens(n, d), NEW k \in Nat \ {0},
           NEW equal_size \in BOOLEAN, CanStart(n, k, equal_size)
    PROVE  /\ ShareOut(n, k, KarmarkarKarp(lens, k, equal_size))
           /\ Even(n, k, lens, d, KarmarkarKarp(lens, k, equal_size))
           /\ k <= n => NoneEmpty(k, KarmarkarKarp(lens, k, equal_size))
<1> DEFINE states == InitialStates(lens, k, equal_size)
           merges == Cardinality(states) - 1
           final == CHOOSE s \in MergesOf(states, merges)[merges] : TRUE
           result == KarmarkarKarp(lens, k, equal_size)
<1>0. n \in Nat /\ lens \in Maps(1 .. n, Nat)
  BY DEF Lens
<1>1. states \in Heaps(n, k, lens, d) /\ states # {} /\ Covers(n, k, states)
  BY InitialHeap
<1>2. result = [i \in 1 .. k |-> final[i].items]
  BY DEF KarmarkarKarp, MergesOf
<1> HIDE DEF states, result
<1>3. merges \in Nat /\ Cardinality(states) = merges + 1
  <2>1. IsFiniteSet(states)
    BY <1>1 DEF Heaps
  <2>2. Cardinality(states) \in Nat /\ Cardinality(states) # 0
    BY <1>1, <2>1, FS_CardinalityType, FS_EmptySet
  <2> QED
    BY <2>2
<1> HIDE DEF merges
<1>4. PICK s \in States(n, k, lens, d) :
          MergesOf(states, merges)[merges] = {s} /\ \A x \in 1 .. n : Holds(k, s, x)
  BY <1>0, <1>1, <1>3, MergesEnd
<1>5. final = s
  BY <1>4
<1> HIDE DEF final
<1>6. /\ s \in Maps(1 .. k, Parts(n)) /\ SharedOut(k, s) /\ Weighed(n, k, lens, s)
      /\ Level(k, d, s) /\ SpreadOut(k, s)
  BY <1>4 DEF States, Shape
<1>7. \A i \in 1 .. k : s[i] \in Parts(n)
  BY <1>6 DEF Maps
<1>8. result \in Seq(Seq(1 .. n)) /\ Len(result) = k /\ \A i \in 1 .. k : result[i] = s[i].items
  <2> DEFINE V == Seq(1 .. n)
  <2>1. \A i \in 1 .. k : s[i].items \in V
    BY <1>7, PartFacts
  <2> HIDE DEF V
  <2>2. result = [i \in 1 .. k |-> s[i].items]
    BY <1>2, <1>5
  <2>3. result \in Seq(V) /\ Len(result) = k /\ \A i \in 1 .. k : result[i] = s[i].items
    BY <2>1, <2>2
  <2> QED
    BY <2>3 DEF V
<1>9. Apart(result)
  <2> SUFFICES ASSUME NEW p \in 1 .. Len(result), NEW q \in 1 .. Len(result),
                      NEW i \in 1 .. Len(result[p]), NEW j \in 1 .. Len(result[q]),
                      result[p][i] = result[q][j]
               PROVE  p = q /\ i = j
    BY DEF Apart
  <2>0. /\ p \in 1 .. k /\ q \in 1 .. k
        /\ i \in 1 .. Len(s[p].items) /\ j \in 1 .. Len(s[q].items)
        /\ s[p].items[i] = s[q].items[j]
    <3>1. p \in 1 .. k /\ q \in 1 .. k
      BY <1>8
    <3>2. result[p] = s[p].items /\ result[q] = s[q].items
      BY <1>8, <3>1
    <3> QED
      BY <3>1, <3>2
  <2>1. IsIn(s[p].items, s[p].items[i]) /\ IsIn(s[q].items, s[p].items[i])
    BY <2>0 DEF IsIn
  <2>2. p = q
    BY <1>6, <2>0, <2>1 DEF SharedOut
  <2>3. i = j
    BY <1>6, <2>0, <2>2 DEF SharedOut, Once
  <2> QED
    BY <2>2, <2>3
<1>10. \A x \in 1 .. n : \E p \in 1 .. k : IsIn(result[p], x)
  BY <1>4, <1>8 DEF Holds
<1>11. Even(n, k, lens, d, result)
  <2> SUFFICES ASSUME NEW p \in 1 .. k, NEW q \in 1 .. k
               PROVE  Weight(n, lens, Elements(s[p].items)) <= Weight(n, lens, Elements(s[q].items)) + d
    BY <1>8 DEF Even
  <2> QED
    BY <1>6 DEF Weighed, WeighsItsItems, Level
<1>12. ASSUME k <= n PROVE NoneEmpty(k, result)
  <2>1. CASE \A p \in 1 .. k : Full(s[p])
    BY <1>8, <2>1 DEF NoneEmpty, Full
  <2>2. CASE \A p \in 1 .. k : Len(s[p].items) <= 1
    <3> DEFINE f == [x \in 1 .. n |-> CHOOSE p \in 1 .. k : IsIn(result[p], x)]
    <3>1. \A x \in 1 .. n : f[x] \in 1 .. k /\ IsIn(result[f[x]], x)
      BY <1>10
    <3> HIDE DEF f
    <3>2. f \in [1 .. n -> 1 .. n]
      <4>1. f = [x \in 1 .. n |-> f[x]]
        BY DEF f
      <4>2. \A x \in 1 .. n : f[x] \in 1 .. n
        BY <1>12, <3>1
      <4> QED
        BY <4>1, <4>2
    <3>3. \A p \in 1 .. k : \A x, y : IsIn(result[p], x) /\ IsIn(result[p], y) => x = y
      <4> SUFFICES ASSUME NEW p \in 1 .. k, NEW x, NEW y, IsIn(result[p], x), IsIn(result[p], y)
                   PROVE  x = y
        OBVIOUS
      <4> DEFINE t == result[p]
      <4>1. Len(t) \in Nat /\ Len(t) <= 1
        BY <1>7, <1>8, <2>2, PartFacts
      <4>2. PICK i \in 1 .. Len(t) : t[i] = x
        BY DEF IsIn
      <4>3. PICK j \in 1 .. Len(t) : t[j] = y
        BY DEF IsIn
      <4> HIDE DEF t
      <4>4. i = j
        BY <4>1
      <4> QED
        BY <4>2, <4>3, <4>4
    <3>4. \A x, y \in 1 .. n : f[x] = f[y] => x = y
      BY <3>1, <3>3
    <3>5. \A m \in 1 .. n : \E x \in 1 .. n : f[x] = m
      BY <1>0, <3>2, <3>4, InjectiveIsOnto
    <3> SUFFICES ASSUME NEW p \in 1 .. k PROVE Len(result[p]) > 0
      BY DEF NoneEmpty
    <3>6. p \in 1 .. n
      BY <1>12
    <3>7. PICK x \in 1 .. n : f[x] = p
      BY <3>5, <3>6
    <3>8. IsIn(result[p], x)
      BY <3>1, <3>7
    <3>9. Len(result[p]) \in Nat
      BY <1>7, <1>8, PartFacts
    <3>10. \E j : j \in 1 .. Len(result[p])
      BY <3>8 DEF IsIn
    <3> QED
      BY <3>9, <3>10
  <2> QED
    BY <1>6, <2>1, <2>2 DEF SpreadOut
<1>13. ShareOut(n, k, result)
  BY <1>8, <1>9, <1>10 DEF ShareOut
<1> QED
  BY <1>11, <1>12, <1>13 DEF result

LEMMA RearrangedElements ==
    ASSUME NEW X, NEW s \in Seq(X), NEW t \in Seq(X), Rearranged(s, t)
    PROVE  /\ \A x : IsIn(t, x) <=> IsIn(s, x)
           /\ Once(s) => Once(t)
<1>1. PICK p \in Rearrangements(s, t) : TRUE
  BY DEF Rearranged
<1>2. /\ Bijective(p, 1 .. Len(t), 1 .. Len(s))
      /\ \A i \in 1 .. Len(t) : t[i] = s[p[i]]
  BY <1>1 DEF Rearrangements
<1>3. /\ \A i \in 1 .. Len(t) : p[i] \in 1 .. Len(s)
      /\ \A i, j \in 1 .. Len(t) : p[i] = p[j] => i = j
      /\ \A j \in 1 .. Len(s) : \E i \in 1 .. Len(t) : p[i] = j
  BY <1>2 DEF Bijective
<1>4. \A x : IsIn(t, x) <=> IsIn(s, x)
  <2> TAKE x
  <2>1. ASSUME IsIn(t, x) PROVE IsIn(s, x)
    <3>1. PICK i \in 1 .. Len(t) : t[i] = x
      BY <2>1 DEF IsIn
    <3>2. s[p[i]] = x /\ p[i] \in 1 .. Len(s)
      BY <1>2, <1>3, <3>1
    <3> QED
      BY <3>2 DEF IsIn
  <2>2. ASSUME IsIn(s, x) PROVE IsIn(t, x)
    <3>1. PICK j \in 1 .. Len(s) : s[j] = x
      BY <2>2 DEF IsIn
    <3>2. PICK i \in 1 .. Len(t) : p[i] = j
      BY <1>3
    <3> QED
      BY <1>2, <3>1, <3>2 DEF IsIn
  <2> QED
    BY <2>1, <2>2
<1>5. ASSUME Once(s) PROVE Once(t)
  <2> SUFFICES ASSUME NEW i \in 1 .. Len(t), NEW j \in 1 .. Len(t), t[i] = t[j] PROVE i = j
    BY DEF Once
  <2>1. s[p[i]] = s[p[j]] /\ p[i] \in 1 .. Len(s) /\ p[j] \in 1 .. Len(s)
    BY <1>2, <1>3
  <2>2. p[i] = p[j]
    BY <1>5, <2>1 DEF Once
  <2> QED
    BY <1>3, <2>2
<1> QED
  BY <1>4, <1>5

LEMMA SameElements ==
    ASSUME NEW s, NEW t, \A x : IsIn(t, x) <=> IsIn(s, x)
    PROVE  Elements(t) = Elements(s)
BY DEF Elements, IsIn

(* get_seqlen_balanced_partitions, for all lengths up to d and every number of
   parts: each position is in one part, once; no part weighs more than another
   and d; and none is empty if there are positions enough. *)
THEOREM BalancedShares ==
    ASSUME NEW n \in Nat \ {0}, NEW d \in Nat, NEW lens \in Lens(n, d), NEW k \in Nat \ {0},
           NEW equal_size \in BOOLEAN, CanStart(n, k, equal_size)
    PROVE  /\ ShareOut(n, k, BalancedPartitions(lens, k, equal_size))
           /\ Even(n, k, lens, d, BalancedPartitions(lens, k, equal_size))
           /\ k <= n => NoneEmpty(k, BalancedPartitions(lens, k, equal_size))
<1> DEFINE parts == KarmarkarKarp(lens, k, equal_size)
           result == BalancedPartitions(lens, k, equal_size)
<1>1. /\ ShareOut(n, k, parts) /\ Even(n, k, lens, d, parts)
      /\ k <= n => NoneEmpty(k, parts)
  BY KarmarkarKarpShares
<1>2. result = [i \in 1 .. k |-> Ascending(parts[i])]
  BY DEF BalancedPartitions
<1> HIDE DEF parts, result
<1>3. \A i \in 1 .. k : parts[i] \in Seq(1 .. n) /\ Once(parts[i])
  <2> DEFINE V == Seq(1 .. n)
  <2>1. parts \in Seq(V) /\ Len(parts) = k /\ Apart(parts)
    BY <1>1 DEF ShareOut
  <2> HIDE DEF V
  <2>2. \A i \in 1 .. k : parts[i] \in V
    BY <2>1
  <2>3. \A i \in 1 .. k : Once(parts[i])
    BY <2>1 DEF Apart, Once
  <2> QED
    BY <2>2, <2>3 DEF V
<1>4. \A i \in 1 .. k :
          /\ Ascending(parts[i]) \in Seq(1 .. n) /\ Len(Ascending(parts[i])) = Len(parts[i])
          /\ Rearranged(parts[i], Ascending(parts[i]))
  BY <1>3, AscendingIs
<1>5. \A i \in 1 .. k :
          /\ \A x : IsIn(Ascending(parts[i]), x) <=> IsIn(parts[i], x)
          /\ Once(Ascending(parts[i]))
  BY <1>3, <1>4, RearrangedElements
<1>6. result \in Seq(Seq(1 .. n)) /\ Len(result) = k /\ \A i \in 1 .. k : result[i] = Ascending(parts[i])
  <2> DEFINE V == Seq(1 .. n)
  <2>1. \A i \in 1 .. k : Ascending(parts[i]) \in V
    BY <1>4
  <2> HIDE DEF V
  <2>2. result \in Seq(V) /\ Len(result) = k /\ \A i \in 1 .. k : result[i] = Ascending(parts[i])
    BY <1>2, <2>1
  <2> QED
    BY <2>2 DEF V
<1>7. \A i \in 1 .. k : /\ \A x : IsIn(result[i], x) <=> IsIn(parts[i], x)
                        /\ Once(result[i]) /\ Len(result[i]) = Len(parts[i])
  BY <1>4, <1>5, <1>6
<1>8. \A p, q \in 1 .. k : \A x : IsIn(parts[p], x) /\ IsIn(parts[q], x) => p = q
  <2> SUFFICES ASSUME NEW p \in 1 .. k, NEW q \in 1 .. k, NEW x, IsIn(parts[p], x), IsIn(parts[q], x)
               PROVE  p = q
    OBVIOUS
  <2>1. PICK i \in 1 .. Len(parts[p]) : parts[p][i] = x
    BY DEF IsIn
  <2>2. PICK j \in 1 .. Len(parts[q]) : parts[q][j] = x
    BY DEF IsIn
  <2>3. Apart(parts) /\ Len(parts) = k
    BY <1>1 DEF ShareOut
  <2> QED
    BY <2>1, <2>2, <2>3 DEF Apart
<1>9. Apart(result)
  <2> SUFFICES ASSUME NEW p \in 1 .. Len(result), NEW q \in 1 .. Len(result),
                      NEW i \in 1 .. Len(result[p]), NEW j \in 1 .. Len(result[q]),
                      result[p][i] = result[q][j]
               PROVE  p = q /\ i = j
    BY DEF Apart
  <2>1. p \in 1 .. k /\ q \in 1 .. k
    BY <1>6
  <2>2. IsIn(result[p], result[p][i]) /\ IsIn(result[q], result[p][i])
    BY DEF IsIn
  <2>3. p = q
    BY <1>7, <1>8, <2>1, <2>2
  <2>4. i = j
    BY <1>7, <2>1, <2>3 DEF Once
  <2> QED
    BY <2>3, <2>4
<1>10. \A x \in 1 .. n : \E p \in 1 .. k : IsIn(result[p], x)
  BY <1>1, <1>7 DEF ShareOut
<1>11. \A p \in 1 .. k : Elements(result[p]) = Elements(parts[p])
  BY <1>7, SameElements
<1>12. Even(n, k, lens, d, result)
  BY <1>1, <1>11 DEF Even
<1>13. ASSUME k <= n PROVE NoneEmpty(k, result)
  BY <1>1, <1>7, <1>13 DEF NoneEmpty
<1>14. ShareOut(n, k, result)
  BY <1>6, <1>9, <1>10 DEF ShareOut
<1> QED
  BY <1>12, <1>13, <1>14 DEF result

-----------------------------------------------------------------------------
(* Every position is at one place of one block. *)
LEMMA BlockOf ==
    ASSUME NEW n \in Nat \ {0}, NEW k \in Nat, NEW y \in 1 .. k * n
    PROVE  \E b \in 0 .. k - 1 : \E i \in 1 .. n : y = b * n + i
<1> DEFINE o == (y - 1) \div n  i == ((y - 1) % n) + 1  a == o * n  N == k * n
<1>0. N \in Nat /\ y \in 1 .. N
  OBVIOUS
<1>1. o \in Int /\ i \in 1 .. n /\ (y - 1) % n = (y - 1) - n * o
  <2>1. y - 1 \in Int
    BY <1>0
  <2>2. (y - 1) \div n \in Int /\ (y - 1) % n \in 0 .. n - 1
        /\ (y - 1) % n = (y - 1) - n * ((y - 1) \div n)
    BY <2>1, Division
  <2> QED
    BY <2>2
<1>2. a \in Int /\ n * o = a
  BY <1>1
<1>3. y = a + i
  <2> HIDE DEF a, o
  <2> QED
    BY <1>0, <1>1, <1>2
<1> HIDE DEF o, i, a, N
<1>4. o >= 0
  <2>1. o < 0 => o * n <= -n
    BY <1>1
  <2> QED
    BY <1>0, <1>1, <1>2, <1>3, <2>1 DEF a
<1>5. o <= k - 1
  <2>1. o >= k => o * n >= k * n
    BY <1>1
  <2> QED
    BY <1>0, <1>1, <1>2, <1>3, <2>1 DEF a, N
<1> QED
  BY <1>1, <1>3, <1>4, <1>5 DEF a

(* A sequence of k chunks of n elements each. *)
CutInto(k, n, s) == Len(s) = k * n
ChunkAt(n, s, c, r) ==
    Len(c) = n /\ \A i \in 1 .. n : c[i] = s[r * n + i]

LEMMA ChunkIs ==
    ASSUME NEW X, NEW s \in Seq(X), NEW k \in Nat \ {0}, NEW n \in Nat, CutInto(k, n, s),
           NEW r \in 0 .. k - 1
    PROVE  Chunks(s, k)[r] \in Seq(X) /\ ChunkAt(n, s, Chunks(s, k)[r], r)
<1>1. Len(s) \div k = n
  <2>1. 0 \in 0 .. k - 1 /\ n \in Int
    OBVIOUS
  <2>2. (n * k + 0) \div k = n
    BY <2>1, QuotientOf
  <2>3. k * n = n * k + 0
    OBVIOUS
  <2> QED
    BY <2>2, <2>3 DEF CutInto
<1>2. Chunks(s, k)[r] = SubSeq(s, r * n + 1, (r + 1) * n)
  BY <1>1 DEF Chunks
<1> DEFINE a == r * n  N == k * n
<1>3. a \in Nat /\ (r + 1) * n = a + n /\ N \in Nat /\ Len(s) = N
  BY DEF CutInto
<1>4. a + n <= N
  <2>1. (r + 1) * n <= k * n
    OBVIOUS
  <2> QED
    BY <1>3, <2>1
<1> HIDE DEF a, N
<1>5. /\ SubSeq(s, a + 1, a + n) \in Seq(X) /\ Len(SubSeq(s, a + 1, a + n)) = n
      /\ \A i \in 1 .. n : SubSeq(s, a + 1, a + n)[i] = s[a + i]
  <2>1. a \in Nat /\ n \in Nat /\ N \in Nat /\ Len(s) = N /\ s \in Seq(X)
    BY <1>3
  <2>2. SubSeq(s, a + 1, a + n) = [i \in 1 .. n |-> s[a + i]]
    BY <1>4, <2>1
  <2>3. \A i \in 1 .. n : s[a + i] \in X
    BY <1>4, <2>1
  <2>4. [i \in 1 .. n |-> s[a + i]] \in Seq(X) /\ Len([i \in 1 .. n |-> s[a + i]]) = n
    BY <2>1, <2>3
  <2> QED
    BY <2>2, <2>4
<1>6. Chunks(s, k)[r] = SubSeq(s, a + 1, a + n)
  BY <1>2, <1>3 DEF a
<1> DEFINE c == SubSeq(s, a + 1, a + n)
<1>7. c \in Seq(X) /\ Len(c) = n /\ \A i \in 1 .. n : c[i] = s[r * n + i]
  BY <1>5 DEF a
<1> HIDE DEF c
<1>8. Chunks(s, k)[r] = c
  BY <1>6 DEF c
<1> QED
  BY <1>7, <1>8 DEF ChunkAt

(* What the ranks return for their chunks is for the whole again. *)
LEMMA CollectedIs ==
    ASSUME NEW X, NEW s, NEW k \in Nat \ {0}, NEW n \in Nat, s \in Seq(X), CutInto(k, n, s),
           NEW outputs, \A r \in 0 .. k - 1 : outputs[r] \in Seq(X) /\ ChunkAt(n, s, outputs[r], r)
    PROVE  Collected(outputs, k) = s
<1> DEFINE V == Seq(X)
           ss == [i \in 1 .. k |-> outputs[i - 1]]
           f == Collected(outputs, k)
           N == k * n
<1>1. \A i \in 1 .. k : i - 1 \in 0 .. k - 1
  OBVIOUS
<1>2. \A i \in 1 .. k : outputs[i - 1] \in V
  BY <1>1
<1> HIDE DEF V
<1>3. ss \in Seq(V) /\ Len(ss) = k /\ \A i \in 1 .. k : ss[i] = outputs[i - 1]
  BY <1>2
<1>4. f = FlattenSeq(ss)
  BY DEF Collected
<1> HIDE DEF ss, f
<1>5. ss \in Seq(Seq(X))
  BY <1>3 DEF V
<1>6. \A p \in 1 .. Len(ss) : Len(ss[p]) = n
  BY <1>1, <1>3 DEF ChunkAt
<1>7. /\ Len(FlattenSeq(ss)) = Len(ss) * n
      /\ \A p \in 1 .. Len(ss) : \A i \in 1 .. n : FlattenSeq(ss)[(p - 1) * n + i] = ss[p][i]
  BY <1>5, <1>6, FlattenBlocks
<1>8. f \in Seq(X)
  BY <1>4, <1>5, FlattenType
<1>9. Len(f) = N /\ Len(s) = N /\ N \in Nat
  BY <1>3, <1>4, <1>7 DEF CutInto
<1>10. \A p \in 1 .. k : \A i \in 1 .. n : f[(p - 1) * n + i] = outputs[p - 1][i]
  <2> TAKE p \in 1 .. k
  <2> TAKE i \in 1 .. n
  <2>1. p \in 1 .. Len(ss) /\ ss[p] = outputs[p - 1]
    BY <1>3
  <2>2. FlattenSeq(ss)[(p - 1) * n + i] = ss[p][i]
    BY <1>7, <2>1
  <2> QED
    BY <1>4, <2>1, <2>2
<1> HIDE DEF N
<1>11. \A y \in 1 .. N : f[y] = s[y]
  <2> SUFFICES ASSUME NEW y \in 1 .. N PROVE f[y] = s[y]
    OBVIOUS
  <2>1. n # 0
    <3>1. n = 0 => N = 0
      BY DEF N
    <3> QED
      BY <3>1
  <2>2. PICK b \in 0 .. k - 1 : \E i \in 1 .. n : y = b * n + i
    BY <2>1, BlockOf DEF N
  <2>3. PICK i \in 1 .. n : y = b * n + i
    BY <2>2
  <2>4. b + 1 \in 1 .. k /\ (b + 1) - 1 = b
    OBVIOUS
  <2>5. f[b * n + i] = outputs[b][i]
    BY <1>10, <2>4
  <2>6. outputs[b][i] = s[b * n + i]
    BY DEF ChunkAt
  <2> QED
    BY <2>3, <2>5, <2>6
<1>12. f = [y \in 1 .. N |-> f[y]] /\ s = [y \in 1 .. N |-> s[y]]
  BY <1>8, <1>9, SeqIsFunction
<1> QED
  BY <1>11, <1>12 DEF f

-----------------------------------------------------------------------------
(* Rows cut into pieces of m rows, the last of them maybe smaller. *)
Cut(len, m, p) == IF p * m < len THEN p * m ELSE len

LEMMA PieceCount ==
    ASSUME NEW len \in Nat, NEW m \in Nat \ {0}
    PROVE  /\ CeilDiv(len, m) \in Nat
           /\ CeilDiv(len, m) * m >= len
           /\ \A p \in 1 .. CeilDiv(len, m) : (p - 1) * m < len
           /\ len > 0 => CeilDiv(len, m) > 0
<1> DEFINE c == CeilDiv(len, m)  b == m * c  a == len + m - 1
<1>1. a \in Int /\ a >= 0
  OBVIOUS
<1>2. c \in Int /\ a % m \in 0 .. m - 1 /\ a % m = a - m * c
  <2>1. a \div m \in Int /\ a % m \in 0 .. m - 1 /\ a % m = a - m * (a \div m)
    BY <1>1, Division
  <2> QED
    BY <2>1 DEF CeilDiv
<1> HIDE DEF c
<1>3. b \in Int /\ c * m = b
  BY <1>2
<1>4. b >= len /\ b <= len + m - 1
  <2> HIDE DEF b
  <2>1. a % m = a - b
    BY <1>2 DEF b
  <2> DEFINE e == a % m
  <2>2. e \in Int /\ e >= 0 /\ e <= m - 1 /\ e = a - b
    BY <1>2, <2>1
  <2> HIDE DEF e
  <2> QED
    BY <1>3, <2>2 DEF a
<1>5. c >= 0
  <2>1. c < 0 => m * c <= -m
    BY <1>2
  <2> QED
    BY <1>2, <1>3, <1>4, <2>1 DEF b
<1>6. ASSUME NEW p \in 1 .. c PROVE (p - 1) * m < len
  <2>1. (p - 1) * m = p * m - m /\ p * m <= m * c
    BY <1>2
  <2>2. p * m \in Int /\ (p - 1) * m \in Int
    OBVIOUS
  <2> HIDE DEF a
  <2> QED
    BY <1>3, <1>4, <2>1, <2>2 DEF b
<1>7. len > 0 => c > 0
  <2>1. c = 0 => m * c = 0
    OBVIOUS
  <2> QED
    BY <1>2, <1>4, <1>5, <2>1 DEF b
<1> QED
  BY <1>2, <1>3, <1>4, <1>5, <1>6, <1>7 DEF c, b

Pieces(s, m, ss) ==
    /\ FlattenSeq(ss) = s
    /\ \A p \in 1 .. Len(ss) : Len(ss[p]) = Cut(Len(s), m, p) - Cut(Len(s), m, p - 1)
    /\ \A p \in 1 .. Len(ss) : Len(ss[p]) > 0

LEMMA SplitIs ==
    ASSUME NEW X, NEW s \in Seq(X), NEW m \in Nat \ {0}
    PROVE  /\ Split(s, m) \in Seq(Seq(X)) /\ Len(Split(s, m)) = CeilDiv(Len(s), m)
           /\ Pieces(s, m, Split(s, m))
<1> DEFINE L == Len(s)  N == CeilDiv(L, m)
           cut == [p \in 0 .. N |-> Cut(L, m, p)]
           ss == [p \in 1 .. N |-> SubSeq(s, cut[p - 1] + 1, cut[p])]
           V == Seq(X)
<1>1. L \in Nat
  OBVIOUS
<1>2. /\ N \in Nat /\ N * m >= L /\ \A p \in 1 .. N : (p - 1) * m < L
  BY <1>1, PieceCount
<1> HIDE DEF L, N, V
<1>3. \A p \in 0 .. N : p * m \in Nat
  BY <1>2
<1>4. cut \in [0 .. N -> 0 .. L]
  BY <1>1, <1>3 DEF Cut
<1>5. cut[0] = 0 /\ cut[N] = L
  <2>1. 0 \in 0 .. N /\ N \in 0 .. N /\ 0 * m = 0
    BY <1>2
  <2>2. Cut(L, m, 0) = 0
    BY <1>1, <2>1 DEF Cut
  <2>3. Cut(L, m, N) = L
    <3>1. N * m \in Nat
      BY <1>3, <2>1
    <3> QED
      BY <1>1, <1>2, <3>1 DEF Cut
  <2> QED
    BY <2>1, <2>2, <2>3
<1>6. \A p \in 1 .. N : p \in 0 .. N /\ p - 1 \in 0 .. N
  BY <1>2
<1>7. \A p \in 1 .. N : cut[p - 1] = (p - 1) * m /\ cut[p] = Cut(L, m, p) /\ cut[p - 1] = Cut(L, m, p - 1)
  BY <1>2, <1>6 DEF Cut
<1>8. \A p \in 1 .. N : cut[p - 1] < cut[p]
  <2> TAKE p \in 1 .. N
  <2>1. (p - 1) * m < L /\ p * m = (p - 1) * m + m /\ (p - 1) * m \in Nat
    BY <1>2, <1>3, <1>6
  <2> DEFINE a == (p - 1) * m
  <2>2. Cut(L, m, p) = IF p * m < L THEN p * m ELSE L
    BY DEF Cut
  <2> HIDE DEF a
  <2>3. a < Cut(L, m, p)
    BY <1>1, <2>1, <2>2 DEF a
  <2> QED
    BY <1>7, <2>3 DEF a
<1>9. \A p \in 1 .. N : /\ ss[p] \in V /\ ss[p] = SubSeq(s, (p - 1) * m + 1, Cut(L, m, p))
                        /\ Len(ss[p]) = cut[p] - cut[p - 1]
  <2> TAKE p \in 1 .. N
  <2> DEFINE a == cut[p - 1]  b == cut[p]
  <2>1. a \in 0 .. L /\ b \in 0 .. L /\ a < b
    BY <1>4, <1>6, <1>8
  <2>2. ss[p] = SubSeq(s, a + 1, b)
    OBVIOUS
  <2>3. ss[p] = SubSeq(s, (p - 1) * m + 1, Cut(L, m, p))
    BY <1>7, <2>2
  <2> HIDE DEF a, b, ss, cut
  <2>4. SubSeq(s, a + 1, b) \in Seq(X) /\ Len(SubSeq(s, a + 1, b)) = b - a
    BY <2>1 DEF L
  <2> QED
    BY <2>2, <2>3, <2>4 DEF a, b, V
<1> HIDE DEF cut
<1>0. N \in Nat /\ ss = [p \in 1 .. N |-> ss[p]]
  BY <1>2
<1>a. \A p \in 1 .. N : cut[p - 1] \in Int /\ cut[p] \in Int /\ cut[p - 1] < cut[p]
  BY <1>4, <1>6, <1>8
<1>10. ss = Split(s, m)
  <2>1. Split(s, m) = [p \in 1 .. N |-> SubSeq(s, (p - 1) * m + 1, Cut(L, m, p))]
    BY DEF Split, Cut, N, L
  <2> HIDE DEF ss
  <2> QED
    BY <1>0, <1>9, <2>1
<1>11. FlattenSeq(ss) = s
  <2>1. \A p \in 1 .. N : cut[p - 1] <= cut[p]
    BY <1>a
  <2>2. cut \in Cuts(N, Len(s))
    BY <1>4, <1>5, <2>1 DEF Cuts, L
  <2>3. ss = BetweenCuts(s, N, cut)
    BY DEF BetweenCuts
  <2> HIDE DEF ss
  <2> QED
    BY <1>0, <2>2, <2>3, FlattenCuts
<1>12. ss \in Seq(V) /\ Len(ss) = N
  <2>1. \A p \in 1 .. N : ss[p] \in V
    BY <1>9
  <2> HIDE DEF ss
  <2> QED
    BY ONLY <1>0, <2>1
<1>13. \A p \in 1 .. N : Len(ss[p]) = Cut(L, m, p) - Cut(L, m, p - 1) /\ Len(ss[p]) > 0
  <2> TAKE p \in 1 .. N
  <2>1. cut[p - 1] \in Int /\ cut[p] \in Int /\ cut[p - 1] < cut[p]
    BY <1>a
  <2>2. Len(ss[p]) = cut[p] - cut[p - 1] /\ cut[p] = Cut(L, m, p) /\ cut[p - 1] = Cut(L, m, p - 1)
    BY <1>7, <1>9
  <2> HIDE DEF ss
  <2> QED
    BY <2>1, <2>2
<1> HIDE DEF ss
<1>14. ss \in Seq(Seq(X)) /\ Len(ss) = CeilDiv(Len(s), m) /\ Pieces(s, m, ss)
  BY <1>11, <1>12, <1>13 DEF Pieces, V, L, N
<1> QED
  BY <1>10, <1>14

-----------------------------------------------------------------------------
(* One of finitely many numbers is the largest. *)
LEMMA LargestOf ==
    ASSUME NEW n \in Nat \ {0}, NEW f \in Maps(1 .. n, Nat)
    PROVE  \E i \in 1 .. n : \A j \in 1 .. n : f[j] <= f[i]
<1> DEFINE P == { m \in 0 .. n : m > 0 => \E i \in 1 .. m : \A j \in 1 .. m : f[j] <= f[i] }
<1>0. \A i \in 1 .. n : f[i] \in Nat
  BY DEF Maps
<1>1. 0 \in P
  OBVIOUS
<1>2. \A m \in 1 .. n : m - 1 \in P => m \in P
  <2> TAKE m \in 1 .. n
  <2> HAVE m - 1 \in P
  <2>0. m \in 0 .. n
    OBVIOUS
  <2>a. m - 1 > 0 => \E i \in 1 .. m - 1 : \A j \in 1 .. m - 1 : f[j] <= f[i]
    OBVIOUS
  <2> SUFFICES \E i \in 1 .. m : \A j \in 1 .. m : f[j] <= f[i]
    BY <2>0, Zenon
  <2> HIDE DEF P
  <2>1. CASE m = 1
    <3>1. 1 \in 1 .. m /\ \A j \in 1 .. m : j = 1
      BY <2>1
    <3>2. f[1] <= f[1]
      BY <1>0
    <3> QED
      BY <3>1, <3>2
  <2>2. CASE m # 1
    <3>1. PICK i \in 1 .. m - 1 : \A j \in 1 .. m - 1 : f[j] <= f[i]
      BY <2>2, <2>a
    <3>2. f[m] \in Nat /\ f[i] \in Nat /\ \A j \in 1 .. m - 1 : f[j] \in Nat
      BY <1>0
    <3>3. CASE f[m] <= f[i]
      <4>1. \A j \in 1 .. m : f[j] <= f[i]
        <5> TAKE j \in 1 .. m
        <5>1. j = m \/ j \in 1 .. m - 1
          OBVIOUS
        <5> QED
          BY <3>1, <3>3, <5>1
      <4>2. i \in 1 .. m
        OBVIOUS
      <4> QED
        BY <4>1, <4>2
    <3>4. CASE ~(f[m] <= f[i])
      <4>1. \A j \in 1 .. m : f[j] <= f[m]
        <5> TAKE j \in 1 .. m
        <5>1. CASE j = m
          BY <3>2, <5>1
        <5>2. CASE j # m
          BY <3>1, <3>2, <3>4, <5>2
        <5> QED
          BY <5>1, <5>2
      <4> QED
        BY <4>1
    <3> QED
      BY <3>3, <3>4
  <2> QED
    BY <2>1, <2>2
<1> HIDE DEF P
<1>3. \A m \in 0 .. n : m \in P
  BY <1>1, <1>2, UpToInduction
<1>4. n \in P
  BY <1>3
<1> QED
  BY <1>4 DEF P

(* The total is what all the positions weigh. *)
LEMMA TotalIs ==
    ASSUME NEW n \in Nat, NEW lens \in Maps(1 .. n, Nat)
    PROVE  /\ \E f \in [0 .. n -> Nat] : SumsTo(n, lens, f) /\ Total(lens) = f[n]
           /\ Total(lens) = Weight(n, lens, 1 .. n)
<1> DEFINE Eq(sum) == sum = [i \in 0 .. n |-> IF i = 0 THEN 0 ELSE sum[i - 1] + lens[i]]
           g == CHOOSE sum : Eq(sum)
<1>1. Len(lens) = n
  BY DEF Maps
<1>2. Total(lens) = g[n]
  BY <1>1 DEF Total
<1>3. PICK f \in [0 .. n -> Nat] : SumsTo(n, lens, f)
  BY SumsExist
<1>4. Eq(f)
  <2>1. f = [i \in 0 .. n |-> f[i]]
    OBVIOUS
  <2>2. \A i \in 0 .. n : f[i] = IF i = 0 THEN 0 ELSE f[i - 1] + lens[i]
    <3> TAKE i \in 0 .. n
    <3>1. i # 0 => i \in 1 .. n
      OBVIOUS
    <3> QED
      BY <1>3, <3>1, Zenon DEF SumsTo
  <2> QED
    BY <2>1, <2>2
<1>5. Eq(g)
  <2> HIDE DEF Eq
  <2> QED
    BY <1>4
<1> HIDE DEF g
<1>6. SumsTo(n, lens, g)
  <2>1. 0 \in 0 .. n /\ \A i \in 1 .. n : i \in 0 .. n /\ i # 0
    OBVIOUS
  <2>2. g[0] = 0 /\ \A i \in 1 .. n : g[i] = g[i - 1] + lens[i]
    BY <1>5, <2>1
  <2> QED
    BY <2>2 DEF SumsTo
<1>7. n \in 0 .. n
  OBVIOUS
<1>8. g[n] = f[n]
  BY <1>3, <1>6, <1>7, SumsAgree
<1>9. PICK h \in [0 .. n -> Nat] : SumsTo(n, Within(n, lens, 1 .. n), h)
                                   /\ Weight(n, lens, 1 .. n) = h[n]
  BY WeightIs
<1>10. SumsTo(n, lens, h)
  <2>1. \A i \in 1 .. n : Within(n, lens, 1 .. n)[i] = lens[i]
    BY DEF Within
  <2> QED
    BY <1>9, <2>1 DEF SumsTo
<1>11. h[n] = f[n]
  BY <1>3, <1>7, <1>10, SumsAgree
<1> QED
  BY <1>2, <1>3, <1>8, <1>9, <1>11

-----------------------------------------------------------------------------
(* Rows that have a length, and what the micro batches of n rows are. *)
Readable(n, rows) == DOMAIN rows = 1 .. n /\ \A i \in 1 .. n : rows[i].len \in Nat \ {0}
Longest(n, rows) == CHOOSE i \in 1 .. n : \A j \in 1 .. n : rows[j].len <= rows[i].len

LEMMA LensAre ==
    ASSUME NEW n \in Nat \ {0}, NEW rows, Readable(n, rows)
    PROVE  /\ LensOf(rows) \in Lens(n, rows[Longest(n, rows)].len)
           /\ LensOf(rows) \in Maps(1 .. n, Nat) /\ Len(LensOf(rows)) = n
           /\ Longest(n, rows) \in 1 .. n
           /\ rows[Longest(n, rows)].len \in Nat
           /\ \A i \in 1 .. n : LensOf(rows)[i] = rows[i].len
<1> DEFINE lens == LensOf(rows)
<1>1. lens = [i \in 1 .. n |-> rows[i].len]
  BY DEF LensOf, Readable
<1>2. \A i \in 1 .. n : rows[i].len \in Nat /\ rows[i].len > 0
  BY DEF Readable
<1> HIDE DEF lens
<1>3. \A i \in 1 .. n : lens[i] = rows[i].len
  BY <1>1
<1>4. lens \in Maps(1 .. n, Nat)
  BY <1>1, <1>2 DEF Maps
<1>5. Len(lens) = n
  BY <1>1
<1>6. PICK i \in 1 .. n : \A j \in 1 .. n : lens[j] <= lens[i]
  BY <1>4, LargestOf
<1>7. \A j \in 1 .. n : rows[j].len <= rows[i].len
  BY <1>3, <1>6
<1> DEFINE l == Longest(n, rows)
<1>8. l \in 1 .. n /\ \A j \in 1 .. n : rows[j].len <= rows[l].len
  BY <1>7 DEF Longest
<1> HIDE DEF l
<1>9. lens \in Lens(n, rows[l].len)
  BY <1>2, <1>3, <1>4, <1>8 DEF Lens
<1> QED
  BY <1>2, <1>3, <1>4, <1>5, <1>8, <1>9 DEF lens, l

LEMMA OwnCount ==
    ASSUME NEW n \in Nat \ {0}, NEW rows, Readable(n, rows)
    PROVE  /\ OwnMicroCount(LensOf(rows), MaxTokenLen) \in 1 .. n
           /\ Total(LensOf(rows)) \in Nat
           /\ \/ OwnMicroCount(LensOf(rows), MaxTokenLen) = n
              \/ Total(LensOf(rows)) <= OwnMicroCount(LensOf(rows), MaxTokenLen) * MaxTokenLen
<1> DEFINE lens == LensOf(rows)  t == Total(lens)  c == CeilDiv(t, MaxTokenLen)
<1>0. MaxTokenLen \in Nat \ {0}
  BY BatchSizesAssumption
<1>1. lens \in Maps(1 .. n, Nat) /\ Len(lens) = n /\ n \in 1 .. n /\ n \in Nat
      /\ \A i \in 1 .. n : lens[i] \in Nat /\ lens[i] > 0
  <2>1. \A i \in 1 .. n : rows[i].len \in Nat /\ rows[i].len > 0
    BY DEF Readable
  <2> QED
    BY <2>1, LensAre, SMTT(30)
<1> HIDE DEF lens
<1>2. PICK f \in [0 .. n -> Nat] : SumsTo(n, lens, f) /\ t = f[n]
  BY <1>1, TotalIs
<1>3. t \in Nat /\ t > 0
  <2>1. f[n] = f[n - 1] + lens[n] /\ n - 1 \in 0 .. n /\ lens[n] \in Nat /\ lens[n] > 0
    BY <1>1, <1>2 DEF SumsTo
  <2>2. f[n - 1] \in Nat
    BY <2>1
  <2> HIDE DEF t
  <2> QED
    BY <1>2, <2>1, <2>2
<1> HIDE DEF t
<1>4. c \in Nat /\ c > 0 /\ c * MaxTokenLen >= t
  BY <1>0, <1>3, PieceCount
<1> HIDE DEF c
<1>5. OwnMicroCount(lens, MaxTokenLen) = IF c < n THEN c ELSE n
  BY <1>1 DEF OwnMicroCount, c, t
<1>6. CASE c < n
  <2>1. OwnMicroCount(lens, MaxTokenLen) = c
    BY <1>5, <1>6
  <2>2. c \in 1 .. n
    BY <1>1, <1>4, <1>6
  <2>3. t <= c * MaxTokenLen
    <3>1. c * MaxTokenLen \in Int
      BY <1>0, <1>4
    <3> QED
      BY <1>3, <1>4, <3>1
  <2> QED
    BY <1>3, <2>1, <2>2, <2>3 DEF lens, t
<1>7. CASE ~(c < n)
  <2>1. OwnMicroCount(lens, MaxTokenLen) = n
    BY <1>5, <1>7
  <2> QED
    BY <1>1, <1>3, <2>1 DEF lens, t
<1> QED
  BY <1>6, <1>7

(* All the ranks use the largest of their numbers of micro batches. *)
LEMMA ReducedCounts ==
    ASSUME NEW n \in Nat, NEW counts \in Maps(Ranks, 1 .. n)
    PROVE  \E q \in Ranks : /\ \A r \in Ranks : AllReduced(counts)[r] = counts[q]
                            /\ \A r \in Ranks : counts[r] <= counts[q]
<1> DEFINE W == WorldSize
           f == [i \in 1 .. W |-> counts[i - 1]]
           Bound(c) == c \in { counts[q] : q \in DOMAIN counts } /\ \A q \in DOMAIN counts : counts[q] <= c
           c == CHOOSE c : Bound(c)
<1>0. W \in Nat \ {0} /\ Ranks = 0 .. W - 1
  BY WorldAssumption DEF Ranks
<1>1. DOMAIN counts = Ranks /\ \A r \in Ranks : counts[r] \in 1 .. n
  BY DEF Maps
<1> HIDE DEF W
<1>2. \A r \in Ranks : r + 1 \in 1 .. W /\ (r + 1) - 1 = r
  BY <1>0
<1>3. \A i \in 1 .. W : i - 1 \in Ranks
  BY <1>0
<1>4. f \in Maps(1 .. W, Nat)
  <2>1. \A i \in 1 .. W : counts[i - 1] \in Nat
    BY <1>1, <1>3
  <2> QED
    BY <2>1 DEF Maps
<1>5. \A i \in 1 .. W : f[i] = counts[i - 1]
  OBVIOUS
<1> HIDE DEF f
<1>6. PICK i \in 1 .. W : \A j \in 1 .. W : f[j] <= f[i]
  BY <1>0, <1>4, LargestOf
<1>7. \A r \in Ranks : counts[r] <= counts[i - 1]
  <2> TAKE r \in Ranks
  <2>1. f[r + 1] = counts[r] /\ f[r + 1] <= f[i] /\ f[i] = counts[i - 1]
    BY <1>2, <1>5, <1>6
  <2> QED
    BY <2>1
<1>8. Bound(counts[i - 1])
  BY <1>1, <1>3, <1>7
<1>9. Bound(c)
  <2> HIDE DEF Bound
  <2> QED
    BY <1>8
<1> HIDE DEF c
<1>10. PICK q \in Ranks : c = counts[q]
  BY <1>1, <1>9
<1>11. \A r \in Ranks : counts[r] <= counts[q]
  BY <1>1, <1>9, <1>10
<1>12. \A r \in Ranks : AllReduced(counts)[r] = c
  <2> TAKE r \in Ranks
  <2>1. AllReduced(counts)[r] = CHOOSE m \in { counts[p] : p \in DOMAIN counts } :
            \A p \in DOMAIN counts : counts[p] <= m
    BY <1>1 DEF AllReduced
  <2> QED
    BY <2>1 DEF c
<1> QED
  BY <1>10, <1>11, <1>12

GoodMicros(n, micros) ==
    /\ micros \in Seq(Seq(1 .. n)) /\ \A b \in 1 .. Len(micros) : Len(micros[b]) > 0
    /\ FlattenSeq(micros) \in Seq(1 .. n) /\ Len(FlattenSeq(micros)) = n
    /\ Bijective(FlattenSeq(micros), 1 .. n, 1 .. n)

LEMMA SplitMicros ==
    ASSUME NEW n \in Nat, NEW m \in Nat \ {0}
    PROVE  /\ GoodMicros(n, Split([i \in 1 .. n |-> i], m))
           /\ Len(Split([i \in 1 .. n |-> i], m)) = CeilDiv(n, m)
<1> DEFINE s == [i \in 1 .. n |-> i]  X == 1 .. n  ss == Split(s, m)
<1>1. s \in Seq(X) /\ Len(s) = n /\ \A i \in 1 .. n : s[i] = i
  OBVIOUS
<1>2. Bijective(s, 1 .. n, 1 .. n)
  BY DEF Bijective
<1> HIDE DEF s
<1>3. ss \in Seq(Seq(X)) /\ Len(ss) = CeilDiv(n, m) /\ Pieces(s, m, ss)
  BY <1>1, SplitIs
<1> HIDE DEF ss
<1>4. FlattenSeq(ss) = s /\ \A p \in 1 .. Len(ss) : Len(ss[p]) > 0
  BY <1>3 DEF Pieces
<1>5. GoodMicros(n, ss)
  BY <1>1, <1>2, <1>3, <1>4 DEF GoodMicros
<1> QED
  BY <1>3, <1>5 DEF ss, s

LEMMA BalancedMicros ==
    ASSUME NEW n \in Nat \ {0}, NEW d \in Nat, NEW lens \in Lens(n, d), NEW k \in 1 .. n
    PROVE  /\ GoodMicros(n, MicroPartitions(lens, k)) /\ Len(MicroPartitions(lens, k)) = k
           /\ ShareOut(n, k, MicroPartitions(lens, k)) /\ NoneEmpty(k, MicroPartitions(lens, k))
           /\ Even(n, k, lens, d, MicroPartitions(lens, k))
<1> DEFINE ss == BalancedPartitions(lens, k, FALSE)
<1>1. CanStart(n, k, FALSE) /\ k \in Nat \ {0} /\ FALSE \in BOOLEAN /\ n \in Nat /\ k <= n
  BY DEF CanStart
<1>2. ShareOut(n, k, ss) /\ Even(n, k, lens, d, ss) /\ NoneEmpty(k, ss)
  BY <1>1, BalancedShares
<1> HIDE DEF ss
<1>3. /\ ss \in Seq(Seq(1 .. n)) /\ Len(ss) = k /\ Apart(ss)
      /\ \A x \in 1 .. n : \E p \in 1 .. Len(ss) : IsIn(ss[p], x)
  BY <1>2 DEF ShareOut
<1>4. /\ FlattenSeq(ss) \in Seq(1 .. n) /\ Len(FlattenSeq(ss)) = n
      /\ Bijective(FlattenSeq(ss), 1 .. n, 1 .. n)
  BY <1>1, <1>3, FlattenShares
<1>5. \A b \in 1 .. Len(ss) : Len(ss[b]) > 0
  BY <1>2, <1>3 DEF NoneEmpty
<1>6. GoodMicros(n, ss)
  BY <1>3, <1>4, <1>5 DEF GoodMicros
<1> QED
  BY <1>2, <1>3, <1>6 DEF ss, MicroPartitions

(* Chunks of n rows each, for every rank. *)
EveryRank(n, chunks) == DOMAIN chunks = Ranks /\ \A r \in Ranks : Readable(n, chunks[r])
OwnCounts(chunks) == [r \in DOMAIN chunks |-> OwnMicroCount(LensOf(chunks[r]), MaxTokenLen)]
InStep(n, micros) ==
    /\ \A r \in Ranks : GoodMicros(n, micros[r])
    /\ \A q, r \in Ranks : Len(micros[q]) = Len(micros[r])
Shared(n, k, chunks, micros) ==
    \A r \in Ranks :
        /\ ShareOut(n, k, micros[r]) /\ NoneEmpty(k, micros[r])
        /\ Even(n, k, LensOf(chunks[r]), chunks[r][Longest(n, chunks[r])].len, micros[r])

LEMMA MicroBatchesShare ==
    ASSUME NEW n \in Nat \ {0}, NEW chunks, EveryRank(n, chunks), NEW size \in Nat \ {0}
    PROVE  /\ InStep(n, MicroBatches(chunks, size))
           /\ UseDynamicBsz => \E q \in Ranks :
                  /\ OwnCounts(chunks)[q] \in 1 .. n
                  /\ \A r \in Ranks : OwnCounts(chunks)[r] <= OwnCounts(chunks)[q]
                  /\ Shared(n, OwnCounts(chunks)[q], chunks, MicroBatches(chunks, size))
<1> DEFINE counts == OwnCounts(chunks)  all == AllReduced(counts)
           micros == MicroBatches(chunks, size)
           lens(r) == LensOf(chunks[r])
<1>0. DOMAIN chunks = Ranks /\ \A r \in Ranks : Readable(n, chunks[r])
  BY DEF EveryRank
<1>1. \A r \in Ranks : counts[r] = OwnMicroCount(lens(r), MaxTokenLen)
  BY <1>0 DEF OwnCounts
<1>2. counts \in Maps(Ranks, 1 .. n)
  <2>1. \A r \in Ranks : OwnMicroCount(lens(r), MaxTokenLen) \in 1 .. n
    BY <1>0, OwnCount
  <2> QED
    BY <1>0, <2>1 DEF OwnCounts, Maps
<1>3. micros = [r \in Ranks |-> IF UseDynamicBsz THEN MicroPartitions(lens(r), all[r])
                                ELSE Split([i \in DOMAIN chunks[r] |-> i], size)]
  BY <1>0 DEF MicroBatches, OwnCounts
<1>4. PICK q \in Ranks : /\ \A r \in Ranks : all[r] = counts[q]
                         /\ \A r \in Ranks : counts[r] <= counts[q]
  BY <1>2, ReducedCounts
<1> DEFINE k == counts[q]
<1>5. k \in 1 .. n
  BY <1>2 DEF Maps
<1> HIDE DEF counts, all, micros
<1>6. CASE UseDynamicBsz
  <2>1. \A r \in Ranks : micros[r] = MicroPartitions(lens(r), k)
    BY <1>3, <1>4, <1>6
  <2>2. \A r \in Ranks : lens(r) \in Lens(n, chunks[r][Longest(n, chunks[r])].len)
                         /\ chunks[r][Longest(n, chunks[r])].len \in Nat
    BY <1>0, LensAre
  <2> HIDE DEF k, lens
  <2>3. \A r \in Ranks :
            /\ GoodMicros(n, MicroPartitions(lens(r), k)) /\ Len(MicroPartitions(lens(r), k)) = k
            /\ ShareOut(n, k, MicroPartitions(lens(r), k)) /\ NoneEmpty(k, MicroPartitions(lens(r), k))
            /\ Even(n, k, lens(r), chunks[r][Longest(n, chunks[r])].len, MicroPartitions(lens(r), k))
    BY <1>5, <2>2, BalancedMicros
  <2>4. InStep(n, micros)
    BY <2>1, <2>3 DEF InStep
  <2>5. Shared(n, k, chunks, micros)
    BY <2>1, <2>3 DEF Shared, lens
  <2> QED
    BY <1>4, <1>5, <2>4, <2>5 DEF k, counts, micros
<1>7. CASE ~UseDynamicBsz
  <2>1. \A r \in Ranks : micros[r] = Split([i \in 1 .. n |-> i], size)
    BY <1>0, <1>3, <1>7 DEF Readable
  <2>2. GoodMicros(n, Split([i \in 1 .. n |-> i], size))
    BY SplitMicros
  <2>3. InStep(n, micros)
    BY <2>1, <2>2 DEF InStep
  <2> QED
    BY <1>7, <2>3 DEF micros
<1> QED
  BY <1>6, <1>7

-----------------------------------------------------------------------------
(* What is put in the order of the micro batches is put back. *)
LEMMA RevertedIs ==
    ASSUME NEW n \in Nat, NEW indices, Bijective(indices, 1 .. n, 1 .. n), NEW g, NEW outputs,
           outputs = [i \in 1 .. n |-> g[indices[i]]]
    PROVE  Reverted(outputs, indices) = [j \in 1 .. n |-> g[j]]
<1> DEFINE back == Reversed(indices)
<1>1. DOMAIN indices = 1 .. n /\ (\A i \in 1 .. n : indices[i] \in 1 .. n)
      /\ \A j \in 1 .. n : \E i \in 1 .. n : indices[i] = j
  BY DEF Bijective
<1>2. back = [j \in 1 .. n |-> CHOOSE i \in 1 .. n : indices[i] = j]
  BY <1>1 DEF Reversed
<1> HIDE DEF back
<1>3. \A j \in 1 .. n : back[j] \in 1 .. n /\ indices[back[j]] = j
  BY <1>1, <1>2
<1>4. DOMAIN back = 1 .. n
  BY <1>2
<1>5. Reverted(outputs, indices) = [j \in 1 .. n |-> outputs[back[j]]]
  BY <1>4 DEF Reverted, Reordered, back
<1>6. \A j \in 1 .. n : outputs[back[j]] = g[j]
  BY <1>3
<1> QED
  BY <1>5, <1>6

(* A batch of rows for all the ranks, each of which has a length. *)
Even4All(n, rows) ==
    /\ CutInto(WorldSize, n, rows) /\ Readable(WorldSize * n, rows)

LEMMA ChunksOfRows ==
    ASSUME NEW n \in Nat \ {0}, NEW X, NEW rows \in Seq(X), Even4All(n, rows)
    PROVE  /\ EveryRank(n, Chunks(rows, WorldSize))
           /\ \A r \in Ranks : /\ Chunks(rows, WorldSize)[r] \in Seq(X)
                               /\ ChunkAt(n, rows, Chunks(rows, WorldSize)[r], r)
           /\ \A r \in Ranks : \A i \in 1 .. n : r * n + i \in 1 .. Len(rows)
<1>0. WorldSize \in Nat \ {0} /\ Ranks = 0 .. WorldSize - 1 /\ n \in Nat
  BY WorldAssumption DEF Ranks
<1> DEFINE chunks == Chunks(rows, WorldSize)
<1>1. \A r \in Ranks : chunks[r] \in Seq(X) /\ ChunkAt(n, rows, chunks[r], r)
  BY <1>0, ChunkIs DEF Even4All
<1>2. DOMAIN chunks = Ranks
  BY <1>0 DEF Chunks
<1> HIDE DEF chunks
<1>3. \A r \in Ranks : \A i \in 1 .. n : r * n + i \in 1 .. Len(rows)
  <2>1. \A r \in Ranks : \A i \in 1 .. n : r * n + i \in 1 .. WorldSize * n
    BY <1>0, BlockIndex
  <2> QED
    BY <2>1 DEF Even4All, CutInto
<1>4. \A r \in Ranks : Readable(n, chunks[r])
  <2> TAKE r \in Ranks
  <2>1. DOMAIN chunks[r] = 1 .. n /\ \A i \in 1 .. n : chunks[r][i] = rows[r * n + i]
    BY <1>1 DEF ChunkAt
  <2>2. \A i \in 1 .. n : rows[r * n + i].len \in Nat \ {0}
    BY <1>3 DEF Even4All, Readable, CutInto
  <2> QED
    BY <2>1, <2>2 DEF Readable
<1> QED
  BY <1>1, <1>2, <1>3, <1>4 DEF chunks, EveryRank

(* What is computed from a row. *)
Computed(row, weights) == [of |-> Name(row), weights |-> weights]

(* A forward pass over all the ranks, in micro batches of any size, gives every
   row what was computed from it. *)
THEOREM ForwardIs ==
    ASSUME NEW n \in Nat \ {0}, NEW X, NEW rows \in Seq(X), Even4All(n, rows),
           NEW size \in Nat \ {0}, NEW weights
    PROVE  Forward(rows, size, weights) = [i \in 1 .. Len(rows) |-> Computed(rows[i], weights)]
<1> DEFINE chunks == Chunks(rows, WorldSize)
           micros == MicroBatches(chunks, size)
           s == [i \in 1 .. Len(rows) |-> Computed(rows[i], weights)]
           Y == { Computed(rows[i], weights) : i \in 1 .. Len(rows) }
           g(r) == [i \in 1 .. n |-> Computed(chunks[r][i], weights)]
           idx(r) == FlattenSeq(micros[r])
           out(r) == [i \in 1 .. n |-> g(r)[idx(r)[i]]]
           outputs == [r \in Ranks |-> Reverted(out(r), idx(r))]
<1>0. WorldSize \in Nat \ {0} /\ Ranks = 0 .. WorldSize - 1 /\ n \in Nat
  BY WorldAssumption DEF Ranks
<1>1. /\ EveryRank(n, chunks)
      /\ \A r \in Ranks : chunks[r] \in Seq(X) /\ ChunkAt(n, rows, chunks[r], r)
      /\ \A r \in Ranks : \A i \in 1 .. n : r * n + i \in 1 .. Len(rows)
  BY ChunksOfRows
<1>2. InStep(n, micros)
  BY <1>1, MicroBatchesShare
<1> HIDE DEF chunks, micros
<1>3. \A r \in Ranks : Bijective(idx(r), 1 .. n, 1 .. n)
  BY <1>2 DEF InStep, GoodMicros
<1>4. \A r \in Ranks : Reverted(out(r), idx(r)) = [j \in 1 .. n |-> g(r)[j]]
  <2> TAKE r \in Ranks
  <2> DEFINE o == out(r)  h == g(r)  x == idx(r)
  <2>1. o = [i \in 1 .. n |-> h[x[i]]]
    OBVIOUS
  <2>2. Bijective(x, 1 .. n, 1 .. n)
    BY <1>3
  <2> HIDE DEF o, h, x
  <2>3. Reverted(o, x) = [j \in 1 .. n |-> h[j]]
    BY <1>0, <2>1, <2>2, RevertedIs
  <2> QED
    BY <2>3 DEF o, h, x
<1>5. \A r \in Ranks : \A i \in 1 .. n : g(r)[i] = Computed(rows[r * n + i], weights)
  BY <1>1 DEF ChunkAt
<1>6. s \in Seq(Y) /\ Len(s) = Len(rows) /\ \A y \in 1 .. Len(rows) : s[y] = Computed(rows[y], weights)
  <2> DEFINE c == [i \in 1 .. Len(rows) |-> Computed(rows[i], weights)]
  <2>1. Len(rows) \in Nat
    OBVIOUS
  <2>2. \A i \in 1 .. Len(rows) : c[i] \in Y
    OBVIOUS
  <2> QED
    BY <2>1, <2>2
<1>7. \A r \in Ranks : outputs[r] \in Seq(Y) /\ ChunkAt(n, s, outputs[r], r)
  <2> TAKE r \in Ranks
  <2> DEFINE o == [j \in 1 .. n |-> g(r)[j]]
  <2>1. outputs[r] = o
    BY <1>4
  <2>2. \A i \in 1 .. n : o[i] = Computed(rows[r * n + i], weights) /\ o[i] \in Y /\ o[i] = s[r * n + i]
    BY <1>1, <1>5
  <2>3. o = [j \in 1 .. n |-> o[j]]
    OBVIOUS
  <2> HIDE DEF o, Y
  <2>4. o \in Seq(Y) /\ Len(o) = n
    <3>1. \A i \in 1 .. n : o[i] \in Y
      BY <2>2
    <3>2. n \in Nat
      BY <1>0
    <3> QED
      BY ONLY <2>3, <3>1, <3>2
  <2> HIDE DEF outputs, s
  <2> QED
    BY <2>1, <2>2, <2>4 DEF ChunkAt
<1> HIDE DEF s, outputs, Y
<1>8. CutInto(WorldSize, n, s)
  BY <1>6 DEF CutInto, Even4All
<1>9. Collected(outputs, WorldSize) = s
  BY <1>0, <1>6, <1>7, <1>8, CollectedIs
<1>10. Forward(rows, size, weights) = Collected(outputs, WorldSize)
  <2>1. \A r \in Ranks : DOMAIN idx(r) = 1 .. n /\ \A i \in 1 .. n : idx(r)[i] \in 1 .. n
    BY <1>3 DEF Bijective
  <2> DEFINE ranks == RankOutputs(rows, size, weights)
  <2>2. ranks = [r \in Ranks |-> [indices |-> idx(r),
                     outputs |-> [i \in DOMAIN idx(r) |-> Computed(chunks[r][idx(r)[i]], weights)]]]
    BY DEF RankOutputs, chunks, micros, Computed
  <2> HIDE DEF ranks, idx
  <2>3. \A r \in Ranks : ranks[r].indices = idx(r) /\ ranks[r].outputs = out(r)
    BY <2>1, <2>2
  <2>4. Forward(rows, size, weights)
            = Collected([r \in Ranks |-> Reverted(ranks[r].outputs, ranks[r].indices)], WorldSize)
    BY DEF Forward, ranks
  <2> HIDE DEF out
  <2>5. [r \in Ranks |-> Reverted(ranks[r].outputs, ranks[r].indices)] = outputs
    BY <2>3 DEF outputs
  <2> QED
    BY <2>4, <2>5
<1> QED
  BY <1>9, <1>10 DEF s

-----------------------------------------------------------------------------
(* adjust_batch: the number of rows is a multiple of the number of ranks. *)
LEMMA LcmIs ==
    ASSUME NEW a \in Nat \ {0}, NEW b \in Nat \ {0}
    PROVE  LcmOf(a, b) \in 1 .. a * b /\ LcmOf(a, b) % a = 0 /\ LcmOf(a, b) % b = 0
<1> DEFINE S == { n \in 1 .. a * b : n % a = 0 /\ n % b = 0 }
           m == Min(S)
           Is(n) == /\ n % a = 0 /\ n % b = 0
                    /\ \A l \in 1 .. n - 1 : l % a # 0 \/ l % b # 0
           c == a * b
<1>1. c \in Nat /\ c >= 1
  <2>1. a \in Nat /\ b \in Nat /\ a >= 1 /\ b >= 1
    OBVIOUS
  <2> QED
    BY <2>1
<1>2. c % a = 0 /\ c % b = 0
  <2>1. 0 \in 0 .. a - 1 /\ 0 \in 0 .. b - 1 /\ a \in Int /\ b \in Int
    OBVIOUS
  <2>2. (b * a + 0) % a = 0 /\ (a * b + 0) % b = 0
    BY <2>1, QuotientOf
  <2>3. b * a + 0 = c /\ a * b + 0 = c
    OBVIOUS
  <2> QED
    BY <2>2, <2>3
<1> HIDE DEF c
<1>3. S = { n \in 1 .. c : n % a = 0 /\ n % b = 0 }
  BY DEF c
<1> HIDE DEF S
<1>4. S \in SUBSET Nat /\ S # {}
  <2>1. c \in S
    BY <1>1, <1>2, <1>3
  <2>2. S \subseteq 1 .. c
    BY <1>3
  <2>3. 1 .. c \subseteq Nat
    BY <1>1
  <2> QED
    BY <2>1, <2>2, <2>3
<1>5. m \in S /\ \A y \in S : m <= y
  BY <1>4, MinOfNaturals
<1> HIDE DEF m
<1>6. m \in 1 .. c /\ Is(m)
  <2>1. m \in 1 .. c /\ m % a = 0 /\ m % b = 0
    BY <1>3, <1>5
  <2>2. ASSUME NEW l \in 1 .. m - 1, l % a = 0, l % b = 0 PROVE FALSE
    <3>1. l \in 1 .. c
      BY <1>1, <2>1
    <3>2. l \in S
      BY <1>3, <2>2, <3>1
    <3>3. m <= l
      BY <1>5, <3>2
    <3> QED
      BY <2>1, <3>3
  <2> QED
    BY <2>1, <2>2
<1>7. LcmOf(a, b) = CHOOSE n \in 1 .. c : Is(n)
  BY DEF LcmOf, c
<1>8. LcmOf(a, b) \in 1 .. c /\ Is(LcmOf(a, b))
  <2> HIDE DEF Is
  <2> QED
    BY <1>6, <1>7
<1> QED
  BY <1>8 DEF c

(* What divides a divisor divides. *)
LEMMA MultipleOfMultiple ==
    ASSUME NEW w \in Nat \ {0}, NEW a \in Nat \ {0}, a % w = 0, NEW n \in Nat, n % a = 0
    PROVE  n % w = 0
<1> DEFINE q == n \div a  p == a \div w
<1>1. q \in Int /\ n = a * q
  <2>1. n \div a \in Int /\ n % a = n - a * (n \div a)
    BY Division
  <2>2. a * (n \div a) \in Int
    BY <2>1
  <2> QED
    BY <2>1, <2>2
<1>2. p \in Int /\ a = w * p
  <2>1. a \div w \in Int /\ a % w = a - w * (a \div w)
    BY Division
  <2>2. w * (a \div w) \in Int
    BY <2>1
  <2> QED
    BY <2>1, <2>2
<1> HIDE DEF p, q
<1>3. n = (p * q) * w + 0
  <2>1. n = (w * p) * q
    BY <1>1, <1>2
  <2>2. (w * p) * q = (p * q) * w
    BY <1>1, <1>2
  <2>3. (p * q) * w + 0 = (p * q) * w
    BY <1>1, <1>2
  <2> QED
    BY <2>1, <2>2, <2>3
<1> DEFINE r == p * q
<1>4. r \in Int /\ 0 \in 0 .. w - 1
  BY <1>1, <1>2
<1> HIDE DEF r
<1>5. (r * w + 0) % w = 0
  BY <1>4, QuotientOf
<1> QED
  BY <1>3, <1>5 DEF r

LEMMA SizeDivisorIs ==
    SizeDivisor \in Nat \ {0} /\ SizeDivisor % WorldSize = 0
<1> DEFINE rollout == LogProbMicro * WorldSize
           ref == IF UseKl THEN RefMicro * WorldSize ELSE rollout
           act == ActorMicro * WorldSize
           one == LcmOf(ref, rollout)
<1>1. {LogProbMicro, RefMicro, ActorMicro} \subseteq Nat \ {0} /\ WorldSize \in Nat \ {0}
  BY BatchSizesAssumption, WorldAssumption
<1>2. rollout \in Nat \ {0} /\ ref \in Nat \ {0} /\ act \in Nat \ {0}
  <2>1. \A x, y \in Nat \ {0} : x * y \in Nat \ {0}
    OBVIOUS
  <2> QED
    BY <1>1, <2>1
<1>3. act % WorldSize = 0
  <2>1. 0 \in 0 .. WorldSize - 1 /\ ActorMicro \in Int
    BY <1>1
  <2>2. (ActorMicro * WorldSize + 0) % WorldSize = 0
    BY <1>1, <2>1, QuotientOf
  <2>3. ActorMicro * WorldSize + 0 = act
    BY <1>2
  <2> QED
    BY <2>2, <2>3
<1>4. SizeDivisor = LcmOf(one, act)
  BY DEF SizeDivisor
<1> HIDE DEF rollout, ref, act
<1>5. one \in Nat \ {0}
  <2>1. one \in 1 .. ref * rollout
    BY <1>2, LcmIs
  <2> HIDE DEF one
  <2> QED
    BY <2>1
<1> HIDE DEF one
<1>6. LcmOf(one, act) \in 1 .. one * act /\ LcmOf(one, act) % act = 0
  BY <1>2, <1>5, LcmIs
<1> DEFINE d == LcmOf(one, act)
<1>7. d \in Nat \ {0} /\ d % act = 0
  BY <1>6
<1> HIDE DEF d
<1>8. d % WorldSize = 0
  BY <1>1, <1>2, <1>3, <1>7, MultipleOfMultiple
<1> QED
  BY <1>4, <1>7, <1>8 DEF d

LEMMA AdjustedLength ==
    ASSUME NEW n \in Nat
    PROVE  /\ ToAdd(n) \in Nat /\ (n + ToAdd(n)) % SizeDivisor = 0
           /\ (n + ToAdd(n)) % WorldSize = 0
<1> DEFINE s == SizeDivisor  q == n \div s  r == n % s  t == s * q
<1>1. s \in Nat \ {0} /\ s % WorldSize = 0 /\ WorldSize \in Nat \ {0}
  BY SizeDivisorIs, WorldAssumption
<1> HIDE DEF s
<1>2. q \in Int /\ r \in 0 .. s - 1 /\ r = n - t /\ t \in Int
  <2>1. n \div s \in Int /\ n % s \in 0 .. s - 1 /\ n % s = n - s * (n \div s)
    BY <1>1, Division
  <2>2. s * (n \div s) \in Int
    BY <1>1, <2>1
  <2> QED
    BY <2>1, <2>2
<1>3. ToAdd(n) = IF r = 0 THEN 0 ELSE s - r
  BY DEF ToAdd, s
<1> HIDE DEF q, r, t
<1>4. ToAdd(n) \in Nat
  BY <1>1, <1>2, <1>3
<1> DEFINE m == n + ToAdd(n)
<1>5. m % s = 0 /\ m \in Nat
  <2>1. 0 \in 0 .. s - 1 /\ q + 1 \in Int
    BY <1>1, <1>2
  <2>2. (q * s + 0) % s = 0
    BY <1>1, <1>2, <2>1, QuotientOf
  <2>3. ((q + 1) * s + 0) % s = 0
    BY <1>1, <2>1, QuotientOf
  <2>4. q * s + 0 = t /\ (q + 1) * s + 0 = t + s
    BY <1>1, <1>2 DEF t
  <2>5. m = IF r = 0 THEN t ELSE t + s
    BY <1>1, <1>2, <1>3
  <2> QED
    BY <1>4, <2>2, <2>3, <2>4, <2>5
<1> HIDE DEF m
<1>6. m % WorldSize = 0
  BY <1>1, <1>5, MultipleOfMultiple
<1> QED
  BY <1>4, <1>5, <1>6 DEF m, s

-----------------------------------------------------------------------------
(* Rows taken at positions that each occur once. *)
LEMMA ReorderedIs ==
    ASSUME NEW X, NEW n \in Nat, NEW rows \in Seq(X), Len(rows) = n, NEW idx \in Seq(1 .. n)
    PROVE  /\ Reordered(rows, idx) \in Seq(X) /\ Len(Reordered(rows, idx)) = Len(idx)
           /\ Reordered(rows, idx) = Mapped(idx, rows)
           /\ Len(idx) = n /\ Bijective(idx, 1 .. n, 1 .. n) => Rearranged(rows, Reordered(rows, idx))
<1> DEFINE t == Reordered(rows, idx)  l == Len(idx)
<1>1. l \in Nat /\ DOMAIN idx = 1 .. l /\ \A i \in 1 .. l : idx[i] \in 1 .. n
  OBVIOUS
<1>2. \A i \in 1 .. n : rows[i] \in X
  OBVIOUS
<1>3. t = [i \in 1 .. l |-> rows[idx[i]]]
  BY <1>1 DEF Reordered
<1>4. t = Mapped(idx, rows)
  BY <1>3 DEF Mapped
<1> HIDE DEF t, l
<1>5. \A i \in 1 .. l : rows[idx[i]] \in X
  BY <1>1, <1>2
<1>6. t \in Seq(X) /\ Len(t) = l /\ \A i \in 1 .. l : t[i] = rows[idx[i]]
  BY <1>1, <1>3, <1>5
<1>7. ASSUME l = n, Bijective(idx, 1 .. n, 1 .. n) PROVE Rearranged(rows, t)
  <2>1. idx \in [1 .. n -> 1 .. n]
    BY <1>7 DEF Bijective
  <2>2. idx \in Rearrangements(rows, t)
    BY <1>6, <1>7, <2>1 DEF Rearrangements
  <2> QED
    BY <2>2 DEF Rearranged
<1> QED
  BY <1>4, <1>6, <1>7 DEF t, l

LEMMA BalancedIs ==
    ASSUME NEW X, NEW n \in Nat \ {0}, NEW rows \in Seq(X), Len(rows) = n, Readable(n, rows),
           n % WorldSize = 0
    PROVE  Balanced(rows) \in Seq(X) /\ Len(Balanced(rows)) = n /\ Rearranged(rows, Balanced(rows))
<1> DEFINE ss == BalancedPartitions(LensOf(rows), WorldSize, TRUE)  idx == FlattenSeq(ss)
<1>0. WorldSize \in Nat \ {0} /\ n \in Nat
  BY WorldAssumption
<1>1. /\ LensOf(rows) \in Lens(n, rows[Longest(n, rows)].len)
      /\ rows[Longest(n, rows)].len \in Nat
  BY LensAre
<1>2. CanStart(n, WorldSize, TRUE) /\ TRUE \in BOOLEAN
  BY DEF CanStart
<1>3. ShareOut(n, WorldSize, ss)
  BY <1>0, <1>1, <1>2, BalancedShares
<1> HIDE DEF ss
<1>4. idx \in Seq(1 .. n) /\ Len(idx) = n /\ Bijective(idx, 1 .. n, 1 .. n)
  BY <1>0, <1>3, FlattenShares DEF ShareOut
<1>5. Balanced(rows) = Reordered(rows, idx)
  BY DEF Balanced, ss
<1> HIDE DEF idx
<1> QED
  BY <1>0, <1>4, <1>5, ReorderedIs

(* The micro batches of one mini batch have its rows. *)
InMicros(mini, micros) == [b \in DOMAIN micros |-> Reordered(mini, micros[b])]

LEMMA MiniInMicros ==
    ASSUME NEW X, NEW n \in Nat, NEW mini \in Seq(X), Len(mini) = n,
           NEW micros, GoodMicros(n, micros)
    PROVE  /\ InMicros(mini, micros) \in Seq(Seq(X)) /\ Len(InMicros(mini, micros)) = Len(micros)
           /\ Rearranged(mini, FlattenSeq(InMicros(mini, micros)))
           /\ \A b \in 1 .. Len(InMicros(mini, micros)) : InMicros(mini, micros)[b] # <<>>
<1> DEFINE bs == InMicros(mini, micros)
<1>0. bs = [b \in DOMAIN micros |-> Reordered(mini, micros[b])]
  BY DEF InMicros
<1> HIDE DEF bs
<1> DEFINE V == Seq(1 .. n)  W == Seq(X)  N == Len(micros)  idx == FlattenSeq(micros)
<1>1. micros \in Seq(V) /\ \A b \in 1 .. N : Len(micros[b]) > 0
  BY DEF GoodMicros
<1>2. idx \in Seq(1 .. n) /\ Len(idx) = n /\ Bijective(idx, 1 .. n, 1 .. n)
  BY DEF GoodMicros
<1> HIDE DEF idx, V
<1>3. N \in Nat /\ DOMAIN micros = 1 .. N /\ \A b \in 1 .. N : micros[b] \in V
  BY <1>1
<1> HIDE DEF N
<1>4. \A b \in 1 .. N : /\ Reordered(mini, micros[b]) \in W
                        /\ Len(Reordered(mini, micros[b])) = Len(micros[b])
                        /\ Reordered(mini, micros[b]) = Mapped(micros[b], mini)
  BY <1>3, ReorderedIs DEF V
<1> HIDE DEF W
<1>5. bs \in Seq(W) /\ Len(bs) = N /\ \A b \in 1 .. N : bs[b] = Reordered(mini, micros[b])
  <2>1. bs = [b \in 1 .. N |-> Reordered(mini, micros[b])]
    BY <1>0, <1>3
  <2>2. \A b \in 1 .. N : Reordered(mini, micros[b]) \in W
    BY <1>4
  <2>3. N \in Nat
    BY <1>3
  <2> QED
    BY ONLY <2>1, <2>2, <2>3
<1>6. \A b \in 1 .. N : bs[b] # <<>>
  <2> TAKE b \in 1 .. N
  <2>1. Len(bs[b]) > 0
    BY <1>1, <1>4, <1>5 DEF N
  <2> QED
    BY <2>1
<1>7. FlattenSeq(bs) = Mapped(idx, mini)
  <2>1. mini \in Maps(1 .. n, X)
    BY DEF Maps
  <2>2. bs \in Seq(Seq(X)) /\ micros \in Seq(Seq(1 .. n)) /\ Len(bs) = Len(micros)
    BY <1>1, <1>5 DEF V, W, N
  <2>3. \A b \in 1 .. Len(micros) : bs[b] = Mapped(micros[b], mini)
    BY <1>4, <1>5 DEF N
  <2>4. FlattenSeq(bs) = Mapped(FlattenSeq(micros), mini)
    BY ONLY <2>1, <2>2, <2>3, FlattenMapped, ZenonT(30)
  <2> QED
    BY <2>4 DEF idx
<1>8. Rearranged(mini, Reordered(mini, idx)) /\ Reordered(mini, idx) = Mapped(idx, mini)
  BY <1>2, ReorderedIs
<1> QED
  BY <1>5, <1>6, <1>7, <1>8 DEF N, W, bs

(* What is in one of the sequences is in all of them joined. *)
LEMMA FlattenHas ==
    ASSUME NEW X, NEW ss \in Seq(Seq(X)), NEW p \in 1 .. Len(ss), NEW x, IsIn(ss[p], x)
    PROVE  IsIn(FlattenSeq(ss), x)
<1> DEFINE N == Len(ss)  V == Seq(X)
<1>1. PICK f \in [0 .. N -> Seq(X)] : f[0] = <<>> /\ \A n \in 1 .. N : f[n] = f[n - 1] \o ss[n]
  BY FlattenSteps
<1>2. FlattenSeq(ss) = f[N]
  BY <1>1, FlattenIs
<1>3. N \in Nat /\ \A n \in 1 .. N : ss[n] \in Seq(X)
  <2>1. ss \in Seq(V)
    OBVIOUS
  <2> HIDE DEF V
  <2>2. N \in Nat /\ \A n \in 1 .. N : ss[n] \in V
    BY <2>1
  <2> QED
    BY <2>2 DEF V
<1> HIDE DEF N
<1>4. \A n \in 1 .. N : \A y : IsIn(f[n], y) <=> IsIn(f[n - 1], y) \/ IsIn(ss[n], y)
  <2> TAKE n \in 1 .. N
  <2>1. n - 1 \in 0 .. N
    BY <1>3
  <2>2. f[n - 1] \in Seq(X) /\ ss[n] \in Seq(X) /\ f[n] = f[n - 1] \o ss[n]
    BY <1>1, <1>3, <2>1
  <2> QED
    BY <2>2, JoinedElements
<1> DEFINE P == { n \in 0 .. N : n >= p => IsIn(f[n], x) }
<1>5. 0 \in P
  BY <1>3
<1>6. \A n \in 1 .. N : n - 1 \in P => n \in P
  <2> TAKE n \in 1 .. N
  <2> HAVE n - 1 \in P
  <2>1. n \in 0 .. N /\ n - 1 \in Int /\ n \in Int /\ p \in Int
    OBVIOUS
  <2>2. CASE n = p
    BY <1>4, <2>1, <2>2
  <2>3. CASE n # p
    <3>1. n >= p => n - 1 >= p
      BY <2>1, <2>3
    <3>2. n - 1 >= p => IsIn(f[n - 1], x)
      OBVIOUS
    <3>3. n >= p => IsIn(f[n], x)
      BY <1>4, <3>1, <3>2
    <3> QED
      BY <2>1, <3>3
  <2> QED
    BY <2>2, <2>3
<1> HIDE DEF P
<1>7. \A n \in 0 .. N : n \in P
  BY <1>3, <1>5, <1>6, UpToInduction
<1>8. N \in 0 .. N /\ N >= p
  BY <1>3 DEF N
<1> QED
  BY <1>2, <1>7, <1>8 DEF P

(* The mini batches of one rank have its rows. *)
Minis(rows, r) == Split(Chunks(rows, WorldSize)[r], MiniBatch)
LEMMA MinisAre ==
    ASSUME NEW n \in Nat \ {0}, NEW X, NEW rows \in Seq(X), Even4All(n, rows)
    PROVE  /\ \A r \in Ranks : /\ Minis(rows, r) \in Seq(Seq(X))
                               /\ Len(Minis(rows, r)) = CeilDiv(n, MiniBatch)
                               /\ FlattenSeq(Minis(rows, r)) = Chunks(rows, WorldSize)[r]
           /\ \A m \in 1 .. CeilDiv(n, MiniBatch) :
                  \E l \in Nat \ {0} : EveryRank(l, [q \in Ranks |-> Minis(rows, q)[m]])
<1> DEFINE c(r) == Chunks(rows, WorldSize)[r]  s(r) == Minis(rows, r)
           N == CeilDiv(n, MiniBatch)
           l(m) == Cut(n, MiniBatch, m) - Cut(n, MiniBatch, m - 1)
           V == Seq(X)
<1>0. MiniBatch \in Nat \ {0} /\ n \in Nat
  BY BatchSizesAssumption
<1>1. \A r \in Ranks : c(r) \in Seq(X) /\ ChunkAt(n, rows, c(r), r) /\ Readable(n, c(r))
  BY ChunksOfRows DEF EveryRank
<1>2. \A r \in Ranks : s(r) \in Seq(Seq(X)) /\ Len(s(r)) = N /\ Pieces(c(r), MiniBatch, s(r))
  <2> TAKE r \in Ranks
  <2> DEFINE t == c(r)
  <2>1. t \in Seq(X) /\ Len(t) = n
    BY <1>1 DEF ChunkAt
  <2>2. s(r) = Split(t, MiniBatch)
    BY DEF Minis
  <2> HIDE DEF t
  <2>3. /\ Split(t, MiniBatch) \in Seq(Seq(X)) /\ Len(Split(t, MiniBatch)) = CeilDiv(Len(t), MiniBatch)
        /\ Pieces(t, MiniBatch, Split(t, MiniBatch))
    BY <1>0, <2>1, SplitIs
  <2> QED
    BY <2>1, <2>2, <2>3 DEF t
<1>3. \A r \in Ranks : /\ FlattenSeq(s(r)) = c(r)
                       /\ \A m \in 1 .. N : Len(s(r)[m]) = l(m) /\ Len(s(r)[m]) > 0
  BY <1>1, <1>2 DEF Pieces, ChunkAt
<1>4. \A r \in Ranks : \A m \in 1 .. N : s(r)[m] \in Seq(X)
  <2> TAKE r \in Ranks
  <2> DEFINE t == s(r)
  <2>1. t \in Seq(V) /\ Len(t) = N
    BY <1>2
  <2> HIDE DEF t, V
  <2>2. \A m \in 1 .. N : t[m] \in V
    BY <2>1
  <2> QED
    BY <2>2 DEF t, V
<1>5. \A r \in Ranks : \A m \in 1 .. N : \A i \in 1 .. Len(s(r)[m]) : s(r)[m][i].len \in Nat \ {0}
  <2> TAKE r \in Ranks
  <2> TAKE m \in 1 .. N
  <2> TAKE i \in 1 .. Len(s(r)[m])
  <2>1. s(r) \in Seq(Seq(X)) /\ m \in 1 .. Len(s(r))
    BY <1>2
  <2>2. s(r)[m] \in Seq(X) /\ i \in DOMAIN s(r)[m]
    BY <1>4
  <2>3. IsIn(s(r)[m], s(r)[m][i])
    BY DEF IsIn
  <2>4. IsIn(FlattenSeq(s(r)), s(r)[m][i])
    BY <2>1, <2>3, FlattenHas
  <2>5. PICK j \in 1 .. Len(c(r)) : c(r)[j] = s(r)[m][i]
    BY <1>3, <2>4 DEF IsIn
  <2>6. c(r)[j].len \in Nat \ {0}
    BY <1>1 DEF Readable, ChunkAt
  <2> QED
    BY <2>5, <2>6
<1> HIDE DEF c, s, N, V
<1>6. \A m \in 1 .. N : \E k \in Nat \ {0} : EveryRank(k, [q \in Ranks |-> s(q)[m]])
  <2> TAKE m \in 1 .. N
  <2> DEFINE k == l(m)  ch == [q \in Ranks |-> s(q)[m]]
  <2>1. 0 \in Ranks
    BY WorldAssumption DEF Ranks
  <2>2. Len(s(0)[m]) = k /\ Len(s(0)[m]) > 0 /\ Len(s(0)[m]) \in Nat
    BY <1>3, <1>4, <2>1
  <2> HIDE DEF k
  <2>3. k \in Nat \ {0}
    BY <2>2
  <2>4. \A r \in Ranks : Readable(k, ch[r])
    <3> TAKE r \in Ranks
    <3> DEFINE t == s(r)[m]
    <3>1. ch[r] = t
      OBVIOUS
    <3>2. t \in Seq(X) /\ Len(t) = k
      BY <1>3, <1>4 DEF k
    <3>3. \A i \in 1 .. Len(t) : t[i].len \in Nat \ {0}
      BY <1>5
    <3> HIDE DEF t, ch
    <3>4. DOMAIN t = 1 .. k
      BY <3>2
    <3> QED
      BY <3>1, <3>2, <3>3, <3>4 DEF Readable
  <2>5. DOMAIN ch = Ranks
    OBVIOUS
  <2> HIDE DEF ch
  <2>6. EveryRank(k, ch)
    BY <2>4, <2>5 DEF EveryRank
  <2> QED
    BY <2>3, <2>6 DEF ch
<1> QED
  BY <1>2, <1>3, <1>6 DEF c, s, N

(* An update trains on all the rows, and all the ranks take as many steps. *)
RowsOf(t) ==
    Collected([r \in Ranks |-> FlattenSeq([m \in DOMAIN t[r] |-> FlattenSeq(t[r][m])])], WorldSize)
StepsAlike(t) ==
    \A q, r \in Ranks :
        /\ Len(t[q]) = Len(t[r])
        /\ \A m \in DOMAIN t[q] :
               /\ Len(t[q][m]) = Len(t[r][m])
               /\ \A b \in DOMAIN t[q][m] : t[q][m][b] # <<>>

LEMMA FlattenRanks ==
    ASSUME NEW X, NEW a, NEW b,
           \A r \in Ranks : a[r] \in Seq(X) /\ b[r] \in Seq(X) /\ Rearranged(a[r], b[r])
    PROVE  /\ Collected(a, WorldSize) \in Seq(X) /\ Collected(b, WorldSize) \in Seq(X)
           /\ Rearranged(Collected(a, WorldSize), Collected(b, WorldSize))
<1> DEFINE k == WorldSize  V == Seq(X)
           s(c) == [i \in 1 .. k |-> c[i - 1]]
<1>0. k \in Nat \ {0} /\ Ranks = 0 .. k - 1
  BY WorldAssumption DEF Ranks
<1> HIDE DEF k
<1>1. \A i \in 1 .. k : i - 1 \in Ranks
  BY <1>0
<1>2. \A r \in Ranks : a[r] \in V /\ b[r] \in V
  OBVIOUS
<1> HIDE DEF V
<1>3. /\ s(a) \in Seq(V) /\ Len(s(a)) = k /\ \A i \in 1 .. k : s(a)[i] = a[i - 1]
  BY <1>0, <1>1, <1>2
<1>4. /\ s(b) \in Seq(V) /\ Len(s(b)) = k /\ \A i \in 1 .. k : s(b)[i] = b[i - 1]
  BY <1>0, <1>1, <1>2
<1>5. Collected(a, WorldSize) = FlattenSeq(s(a)) /\ Collected(b, WorldSize) = FlattenSeq(s(b))
  BY DEF Collected, k
<1> HIDE DEF s
<1>6. \A i \in 1 .. Len(s(a)) : Rearranged(s(a)[i], s(b)[i])
  BY <1>1, <1>3, <1>4
<1>7. s(a) \in Seq(Seq(X)) /\ s(b) \in Seq(Seq(X)) /\ Len(s(a)) = Len(s(b))
  BY <1>3, <1>4 DEF V
<1>8. FlattenSeq(s(a)) \in Seq(X) /\ FlattenSeq(s(b)) \in Seq(X)
  BY <1>7, FlattenType
<1>9. Rearranged(FlattenSeq(s(a)), FlattenSeq(s(b)))
  BY <1>6, <1>7, FlattenRearranged
<1> QED
  BY <1>5, <1>8, <1>9

MiniAt(rows, size, r, m) ==
    LET micros == MicroBatches([q \in Ranks |-> Minis(rows, q)[m]], size)[r]
    IN  [b \in DOMAIN micros |-> Reordered(Minis(rows, r)[m], micros[b])]

LEMMA MiniAtIs ==
    ASSUME NEW n \in Nat \ {0}, NEW X, NEW rows \in Seq(X), Even4All(n, rows), NEW size \in Nat \ {0},
           NEW m \in 1 .. CeilDiv(n, MiniBatch)
    PROVE  /\ \A r \in Ranks :
                  /\ MiniAt(rows, size, r, m) \in Seq(Seq(X))
                  /\ Minis(rows, r)[m] \in Seq(X)
                  /\ Rearranged(Minis(rows, r)[m], FlattenSeq(MiniAt(rows, size, r, m)))
                  /\ \A b \in 1 .. Len(MiniAt(rows, size, r, m)) : MiniAt(rows, size, r, m)[b] # <<>>
           /\ \A q, r \in Ranks : Len(MiniAt(rows, size, q, m)) = Len(MiniAt(rows, size, r, m))
<1> DEFINE ch == [q \in Ranks |-> Minis(rows, q)[m]]
           micros == MicroBatches(ch, size)
           V == Seq(X)
           at(r) == [b \in DOMAIN micros[r] |-> Reordered(ch[r], micros[r][b])]
<1>1. PICK l \in Nat \ {0} : EveryRank(l, ch)
  BY MinisAre
<1>2. \A r \in Ranks : ch[r] \in Seq(X)
  <2> TAKE r \in Ranks
  <2> DEFINE t == Minis(rows, r)
  <2>1. t \in Seq(V) /\ Len(t) = CeilDiv(n, MiniBatch) /\ ch[r] = t[m]
    BY MinisAre
  <2> HIDE DEF t, V, ch
  <2>2. t[m] \in V
    BY <2>1
  <2> QED
    BY <2>1, <2>2 DEF V
<1>3. \A r \in Ranks : ch[r] = Minis(rows, r)[m]
  OBVIOUS
<1>4. \A r \in Ranks : MiniAt(rows, size, r, m) = at(r)
  BY <1>3 DEF MiniAt
<1> HIDE DEF ch
<1>5. InStep(l, micros)
  BY <1>1, MicroBatchesShare
<1> HIDE DEF micros
<1>6. \A r \in Ranks : /\ at(r) \in Seq(Seq(X)) /\ Len(at(r)) = Len(micros[r])
                       /\ Rearranged(ch[r], FlattenSeq(at(r)))
                       /\ \A b \in 1 .. Len(at(r)) : at(r)[b] # <<>>
  <2> TAKE r \in Ranks
  <2> DEFINE mini == ch[r]  mm == micros[r]  bs == at(r)
  <2>1. bs = InMicros(mini, mm)
    BY DEF InMicros
  <2>2. mini \in Seq(X) /\ Len(mini) = l
    <3>1. mini \in Seq(X) /\ Readable(l, mini)
      BY <1>1, <1>2 DEF EveryRank
    <3> HIDE DEF mini
    <3>2. DOMAIN mini = 1 .. l /\ l \in Nat
      BY <3>1 DEF Readable
    <3> QED
      BY <3>1, <3>2
  <2>3. GoodMicros(l, mm)
    BY <1>5 DEF InStep
  <2> HIDE DEF mini, mm, bs
  <2>4. /\ bs \in Seq(Seq(X)) /\ Len(bs) = Len(mm) /\ Rearranged(mini, FlattenSeq(bs))
        /\ \A b \in 1 .. Len(bs) : bs[b] # <<>>
    <3>1. l \in Nat
      OBVIOUS
    <3> QED
      BY <2>1, <2>2, <2>3, <3>1, MiniInMicros
  <2> QED
    BY <2>4 DEF mini, mm, bs
<1>7. \A q, r \in Ranks : Len(micros[q]) = Len(micros[r])
  BY <1>5 DEF InStep
<1> HIDE DEF at
<1> QED
  BY <1>2, <1>3, <1>4, <1>6, <1>7

(* The mini and micro batches of an update hold the rows of the batch, each as
   often as it is there, and the ranks have as many of them as each other. *)
THEOREM MiniBatchesAre ==
    ASSUME NEW n \in Nat \ {0}, NEW X, NEW rows \in Seq(X), Even4All(n, rows), NEW size \in Nat \ {0}
    PROVE  /\ RowsOf(MiniBatches(rows, size)) \in Seq(X)
           /\ Rearranged(rows, RowsOf(MiniBatches(rows, size)))
           /\ StepsAlike(MiniBatches(rows, size))
<1> DEFINE t == MiniBatches(rows, size)
           chunks == Chunks(rows, WorldSize)
           N == CeilDiv(n, MiniBatch)
           V == Seq(X)  W == Seq(V)
           all(r) == [m \in 1 .. N |-> FlattenSeq(MiniAt(rows, size, r, m))]
           flat == [r \in Ranks |-> FlattenSeq([m \in DOMAIN t[r] |-> FlattenSeq(t[r][m])])]
<1>0. WorldSize \in Nat \ {0} /\ Ranks = 0 .. WorldSize - 1 /\ n \in Nat /\ MiniBatch \in Nat \ {0}
  BY WorldAssumption, BatchSizesAssumption DEF Ranks
<1>1. N \in Nat
  BY <1>0, PieceCount
<1>2. \A r \in Ranks : /\ Minis(rows, r) \in Seq(Seq(X)) /\ Len(Minis(rows, r)) = N
                       /\ FlattenSeq(Minis(rows, r)) = chunks[r]
  BY MinisAre
<1>3. \A m \in 1 .. N :
          /\ \A r \in Ranks :
                  /\ MiniAt(rows, size, r, m) \in W
                  /\ Minis(rows, r)[m] \in V
                  /\ Rearranged(Minis(rows, r)[m], FlattenSeq(MiniAt(rows, size, r, m)))
                  /\ \A b \in 1 .. Len(MiniAt(rows, size, r, m)) : MiniAt(rows, size, r, m)[b] # <<>>
          /\ \A q, r \in Ranks : Len(MiniAt(rows, size, q, m)) = Len(MiniAt(rows, size, r, m))
  BY MiniAtIs
<1>4. t = [r \in Ranks |-> [m \in 1 .. N |-> MiniAt(rows, size, r, m)]]
  <2> DEFINE minis == [r \in Ranks |-> Split(chunks[r], MiniBatch)]
  <2>1. \A r \in Ranks : minis[r] = Minis(rows, r)
    BY DEF Minis
  <2>2. \A r \in Ranks : DOMAIN minis[r] = 1 .. N
    <3> TAKE r \in Ranks
    <3> DEFINE s == Minis(rows, r)
    <3>1. s \in Seq(V) /\ Len(s) = N
      BY <1>2
    <3> HIDE DEF s, V
    <3>2. DOMAIN s = 1 .. N
      BY <3>1
    <3> QED
      BY <2>1, <3>2 DEF s
  <2> DEFINE at(r, m) == LET micros == MicroBatches([q \in Ranks |-> minis[q][m]], size)[r]
                         IN  [b \in DOMAIN micros |-> Reordered(minis[r][m], micros[b])]
  <2>3. t = [r \in Ranks |-> [m \in DOMAIN minis[r] |-> at(r, m)]]
    BY DEF MiniBatches
  <2>4. \A r \in Ranks : \A m : at(r, m) = MiniAt(rows, size, r, m)
    <3> TAKE r \in Ranks
    <3> TAKE m
    <3>1. [q \in Ranks |-> minis[q][m]] = [q \in Ranks |-> Minis(rows, q)[m]]
      BY <2>1
    <3> HIDE DEF minis
    <3> QED
      BY <2>1, <3>1 DEF MiniAt
  <2> HIDE DEF at, minis, t, N
  <2> QED
    BY <2>2, <2>3, <2>4
<1> HIDE DEF t, chunks, N, V, W
<1>5. \A r \in Ranks : \A m \in 1 .. N : t[r][m] = MiniAt(rows, size, r, m)
  BY <1>4
<1>6. \A r \in Ranks : DOMAIN t[r] = 1 .. N /\ Len(t[r]) = N
  BY <1>1, <1>4
<1>7. StepsAlike(t)
  <2>1. \A r \in Ranks : \A m \in 1 .. N : DOMAIN t[r][m] = 1 .. Len(t[r][m])
    <3> TAKE r \in Ranks
    <3> TAKE m \in 1 .. N
    <3> DEFINE s == t[r][m]
    <3>1. s \in Seq(V)
      BY <1>3, <1>5 DEF W
    <3> HIDE DEF s
    <3>2. DOMAIN s = 1 .. Len(s)
      BY <3>1
    <3> QED
      BY <3>2 DEF s
  <2>2. \A q, r \in Ranks : \A m \in 1 .. N : Len(t[q][m]) = Len(t[r][m])
    BY <1>3, <1>5
  <2>3. \A r \in Ranks : \A m \in 1 .. N : \A b \in 1 .. Len(t[r][m]) : t[r][m][b] # <<>>
    BY <1>3, <1>5
  <2> QED
    BY <1>6, <2>1, <2>2, <2>3 DEF StepsAlike
<1>8. \A r \in Ranks : flat[r] = FlattenSeq(all(r))
  <2> TAKE r \in Ranks
  <2>1. [m \in DOMAIN t[r] |-> FlattenSeq(t[r][m])] = all(r)
    BY <1>5, <1>6
  <2> HIDE DEF all
  <2> QED
    BY <2>1
<1>9. \A r \in Ranks : all(r) \in Seq(Seq(X)) /\ FlattenSeq(all(r)) \in Seq(X)
                       /\ Rearranged(chunks[r], FlattenSeq(all(r)))
  <2> TAKE r \in Ranks
  <2> DEFINE u == all(r)  s == Minis(rows, r)
  <2>1. \A m \in 1 .. N : FlattenSeq(MiniAt(rows, size, r, m)) \in V
    BY <1>3, FlattenType DEF W, V
  <2>2. u \in Seq(V) /\ Len(u) = N /\ \A m \in 1 .. N : u[m] = FlattenSeq(MiniAt(rows, size, r, m))
    BY <1>1, <2>1
  <2> HIDE DEF u, s
  <2>3. s \in Seq(Seq(X)) /\ Len(s) = N /\ FlattenSeq(s) = chunks[r]
    BY <1>2 DEF s
  <2>4. \A m \in 1 .. Len(s) : Rearranged(s[m], u[m])
    BY <1>3, <2>2, <2>3 DEF s
  <2>5. u \in Seq(Seq(X)) /\ Len(s) = Len(u)
    BY <2>2, <2>3 DEF V
  <2>6. Rearranged(FlattenSeq(s), FlattenSeq(u))
    BY <2>3, <2>4, <2>5, FlattenRearranged
  <2>7. FlattenSeq(u) \in Seq(X)
    BY <2>5, FlattenType
  <2> QED
    BY <2>3, <2>5, <2>6, <2>7 DEF u
<1> HIDE DEF all, flat
<1>10. \A r \in Ranks : chunks[r] \in Seq(X) /\ ChunkAt(n, rows, chunks[r], r)
  BY ChunksOfRows DEF chunks
<1>11. Collected(chunks, WorldSize) = rows
  BY <1>0, <1>10, CollectedIs DEF Even4All
<1>12. Collected(flat, WorldSize) \in Seq(X) /\ Rearranged(Collected(chunks, WorldSize), Collected(flat, WorldSize))
  BY <1>8, <1>9, <1>10, FlattenRanks
<1>13. RowsOf(t) = Collected(flat, WorldSize)
  BY DEF RowsOf, flat
<1> QED
  BY <1>7, <1>11, <1>12, <1>13 DEF t

-----------------------------------------------------------------------------
(* Padding makes the number of rows a multiple, and leaves the rows in front. *)
LEMMA PaddedIs ==
    ASSUME NEW X, NEW s \in Seq(X), Len(s) > 0, NEW k \in Nat \ {0}
    PROVE  /\ Padded(s, k) \in Seq(X) /\ Len(Padded(s, k)) >= Len(s)
           /\ \E m \in Nat \ {0} : CutInto(k, m, Padded(s, k))
           /\ \A i \in 1 .. Len(s) : Padded(s, k)[i] = s[i]
<1> DEFINE n == Len(s)  q == n \div k  r == n % k  a == k * q  p == PadSize(n, k)
           pad == [i \in 1 .. p |-> s[((i - 1) % n) + 1]]
           t == s \o pad
<1>1. n \in Nat \ {0} /\ \A i \in 1 .. n : s[i] \in X
  OBVIOUS
<1>2. t = Padded(s, k)
  BY DEF Padded
<1>3. q \in Int /\ r \in 0 .. k - 1 /\ r = n - a /\ a \in Int
  <2>0. n \in Int
    BY <1>1
  <2>1. n \div k \in Int /\ n % k \in 0 .. k - 1 /\ n % k = n - k * (n \div k)
    <3> HIDE DEF n
    <3> QED
      BY <2>0, Division
  <2>2. k * (n \div k) \in Int
    BY <2>1
  <2> QED
    BY <2>1, <2>2
<1>4. p = IF r = 0 THEN 0 ELSE k - r
  <2>1. p = (k - r) % k
    BY DEF PadSize
  <2> HIDE DEF r, p
  <2>2. CASE r = 0
    <3>1. 0 \in 0 .. k - 1 /\ 1 \in Int
      OBVIOUS
    <3>2. (1 * k + 0) % k = 0
      BY <3>1, QuotientOf
    <3>3. 1 * k + 0 = k - 0
      OBVIOUS
    <3> QED
      BY <2>1, <2>2, <3>2, <3>3
  <2>3. CASE r # 0
    <3> DEFINE e == k - r
    <3>1. e \in 0 .. k - 1 /\ 0 \in Int
      BY <1>3, <2>3
    <3> HIDE DEF e
    <3>2. (0 * k + e) % k = e
      BY <3>1, QuotientOf
    <3>3. 0 * k + e = e
      BY <3>1
    <3>4. p = e
      BY <2>1, <3>2, <3>3 DEF e
    <3> QED
      BY <2>3, <3>4 DEF e
  <2> QED
    BY <2>2, <2>3
<1> HIDE DEF n, q, r, a, p
<1>5. p \in Nat
  BY <1>3, <1>4
<1>6. pad \in Seq(X) /\ Len(pad) = p
  <2>1. \A i \in 1 .. p : s[((i - 1) % n) + 1] \in X
    <3> TAKE i \in 1 .. p
    <3>1. i - 1 \in Int
      OBVIOUS
    <3>2. (i - 1) % n \in 0 .. n - 1
      BY <1>1, <3>1, Division
    <3> DEFINE j == (i - 1) % n
    <3> HIDE DEF j
    <3>3. j + 1 \in 1 .. n
      BY <1>1, <3>2 DEF j
    <3> QED
      BY <1>1, <3>3 DEF j
  <2> QED
    BY <1>5, <2>1
<1> HIDE DEF pad
<1>7. /\ t \in Seq(X) /\ Len(t) = n + p /\ \A i \in 1 .. n : t[i] = s[i]
  BY <1>6 DEF n
<1>8. \E m \in Nat \ {0} : n + p = k * m
  <2> DEFINE m == IF r = 0 THEN q ELSE q + 1
  <2>1. m \in Int /\ k * (q + 1) = k * q + k
    BY <1>3
  <2>2. k * m = n + p
    BY <1>1, <1>3, <1>4, <2>1 DEF a
  <2>3. m > 0
    <3>1. m <= 0 => k * m <= 0
      BY <2>1
    <3> DEFINE b == k * m
    <3>2. b > 0
      BY <1>1, <1>5, <2>2
    <3> HIDE DEF m
    <3>4. b \in Int
      BY <2>1
    <3>5. m <= 0 => b <= 0
      BY <3>1
    <3> HIDE DEF b
    <3>3. ~(m <= 0)
      BY <3>2, <3>4, <3>5
    <3> QED
      BY <2>1, <3>3
  <2> HIDE DEF m
  <2> QED
    BY <2>1, <2>2, <2>3
<1>9. Len(t) >= n
  BY <1>1, <1>5, <1>7
<1> HIDE DEF t
<1> QED
  BY <1>2, <1>7, <1>8, <1>9 DEF n, CutInto

(* The ranks that generate together return the answers to their own chunks. *)
Answer(prompt, weights) == [to |-> prompt, weights |-> weights]

AllAnswers(chunks, r, w) ==
    [i \in DOMAIN Gathered(chunks, TpGroup(r)) |-> Answer(Gathered(chunks, TpGroup(r))[i], w)]

ChunksOf(X, m, chunks) == \A q \in Ranks : chunks[q] \in Seq(X) /\ Len(chunks[q]) = m
AnswersIn(X, w, Y) == \A x \in X : Answer(x, w) \in Y

OwnAnswered(Y, m, chunks, r, w) ==
    /\ OwnAnswers(AllAnswers(chunks, r, w), r) \in Seq(Y)
    /\ Len(OwnAnswers(AllAnswers(chunks, r, w), r)) = m
    /\ \A i \in 1 .. m : OwnAnswers(AllAnswers(chunks, r, w), r)[i] = Answer(chunks[r][i], w)

LEMMA OwnAnswersAre ==
    ASSUME NEW X, NEW m \in Nat, NEW chunks, ChunksOf(X, m, chunks),
           NEW r \in Ranks, NEW w, NEW Y, AnswersIn(X, w, Y)
    PROVE  OwnAnswered(Y, m, chunks, r, w)
<1> DEFINE all == AllAnswers(chunks, r, w)
<1>c. /\ \A q \in Ranks : chunks[q] \in Seq(X) /\ Len(chunks[q]) = m
      /\ \A x \in X : Answer(x, w) \in Y
  BY DEF ChunksOf, AnswersIn
<1>b. all = [i \in DOMAIN Gathered(chunks, TpGroup(r)) |->
                 Answer(Gathered(chunks, TpGroup(r))[i], w)]
  BY DEF AllAnswers
<1> HIDE DEF all
<1> DEFINE T == TpSize  g == TpGroup(r)  o == r % T  a == g * T
           V == Seq(X)
           ss == [i \in 1 .. T |-> chunks[g * T + i - 1]]
           f == FlattenSeq(ss)
<1>0. T \in Nat \ {0} /\ WorldSize \in Nat \ {0} /\ WorldSize % T = 0 /\ Ranks = 0 .. WorldSize - 1
  BY WorldAssumption DEF Ranks
<1> HIDE DEF T
<1>1. g \in Int /\ o \in 0 .. T - 1 /\ r = a + o /\ a \in Int
  <2>1. r \in Int
    BY <1>0
  <2>2. r \div T \in Int /\ r % T \in 0 .. T - 1 /\ r % T = r - T * (r \div T)
    BY <1>0, <2>1, Division
  <2>3. g = r \div T
    BY DEF TpGroup, T
  <2>4. a = T * (r \div T) /\ a \in Int
    BY <1>0, <2>2, <2>3
  <2> HIDE DEF a, g
  <2> QED
    BY <2>1, <2>2, <2>3, <2>4
<1> HIDE DEF g, o
<1>2. \A i \in 1 .. T : a + i - 1 \in Ranks
  <2>1. g >= 0
    <3>1. g < 0 => g * T <= -T
      BY <1>0, <1>1
    <3> DEFINE b == g * T
    <3>2. b \in Int /\ r = b + o /\ (g < 0 => b <= -T)
      BY <1>1, <3>1
    <3>3. r >= 0 /\ o <= T - 1 /\ o \in Int /\ T \in Int
      BY <1>0, <1>1
    <3> HIDE DEF b
    <3> QED
      BY <1>1, <3>2, <3>3
  <2> DEFINE c == WorldSize \div T
  <2>2. c \in Int /\ WorldSize = c * T
    <3>1. WorldSize \in Int /\ WorldSize \div T \in Int /\ WorldSize % T = WorldSize - T * (WorldSize \div T)
      BY <1>0, Division
    <3>2. T * c \in Int /\ T * c = c * T
      BY <1>0, <3>1
    <3> HIDE DEF c
    <3> QED
      BY <1>0, <3>1, <3>2 DEF c
  <2> HIDE DEF c
  <2>3. g <= c - 1
    <3>1. g >= c => g * T >= c * T
      BY <1>0, <1>1, <2>2
    <3> QED
      BY <1>0, <1>1, <2>2, <3>1
  <2>4. (g + 1) * T <= c * T /\ (g + 1) * T = a + T /\ a >= 0
    BY <1>0, <1>1, <2>1, <2>2, <2>3
  <2> DEFINE d == c * T  e == (g + 1) * T
  <2>5. e \in Int /\ d \in Int /\ e <= d /\ e = a + T /\ a >= 0 /\ WorldSize = d
    BY <1>0, <1>1, <2>2, <2>4
  <2> HIDE DEF d, e, a
  <2> QED
    BY <1>0, <1>1, <2>5
<1> HIDE DEF a
<1>3. \A i \in 1 .. T : chunks[a + i - 1] \in V /\ Len(chunks[a + i - 1]) = m
  BY <1>2, <1>c
<1> HIDE DEF V
<1>4. ss \in Seq(V) /\ Len(ss) = T /\ \A i \in 1 .. T : ss[i] = chunks[a + i - 1]
  BY <1>0, <1>3 DEF a
<1>5. f = Gathered(chunks, TpGroup(r))
  BY DEF Gathered, T, g
<1> HIDE DEF ss
<1>6. ss \in Seq(Seq(X)) /\ \A p \in 1 .. Len(ss) : Len(ss[p]) = m
  BY <1>3, <1>4 DEF V
<1>7. /\ Len(f) = T * m /\ f \in Seq(X)
      /\ \A p \in 1 .. T : \A i \in 1 .. m : f[(p - 1) * m + i] = ss[p][i]
  <2>1. /\ Len(f) = Len(ss) * m
        /\ \A p \in 1 .. Len(ss) : \A i \in 1 .. m : f[(p - 1) * m + i] = ss[p][i]
    BY <1>6, FlattenBlocks
  <2>2. f \in Seq(X)
    BY <1>6, FlattenType
  <2> HIDE DEF f
  <2> QED
    BY <1>4, <2>1, <2>2
<1> HIDE DEF f
<1> DEFINE N == T * m
<1>8. N \in Nat
  BY <1>0
<1>9. all = [i \in 1 .. N |-> Answer(f[i], w)]
  BY <1>5, <1>7, <1>b
<1> HIDE DEF N
<1>10. \A i \in 1 .. N : f[i] \in X
  BY <1>7 DEF N
<1>11. all \in Seq(Y) /\ Len(all) = N /\ \A i \in 1 .. N : all[i] = Answer(f[i], w)
  <2>1. \A i \in 1 .. N : Answer(f[i], w) \in Y
    BY <1>10, <1>c
  <2> QED
    BY ONLY <1>8, <1>9, <2>1
<1>12. CutInto(T, m, all)
  BY <1>11 DEF CutInto, N
<1>13. Chunks(all, T)[o] \in Seq(Y) /\ ChunkAt(m, all, Chunks(all, T)[o], o)
  BY <1>0, <1>1, <1>11, <1>12, ChunkIs
<1> DEFINE own == OwnAnswers(all, r)
<1>14. own \in Seq(Y) /\ Len(own) = m /\ \A i \in 1 .. m : own[i] = all[o * m + i]
  BY <1>13 DEF OwnAnswers, ChunkAt, T, o
<1> HIDE DEF own
<1>15. \A i \in 1 .. m : own[i] = Answer(chunks[r][i], w)
  <2> TAKE i \in 1 .. m
  <2>1. o * m + i \in 1 .. N
    <3>1. m \in Nat \ {0} /\ o \in 0 .. T - 1 /\ T \in Nat
      BY <1>0, <1>1
    <3> QED
      BY <3>1, BlockIndex DEF N
  <2>2. own[i] = Answer(f[o * m + i], w)
    BY <1>11, <1>14, <2>1
  <2>3. o + 1 \in 1 .. T /\ (o + 1) - 1 = o
    BY <1>0, <1>1
  <2>4. f[o * m + i] = ss[o + 1][i]
    BY <1>7, <2>3
  <2>5. ss[o + 1] = chunks[r]
    <3>1. a + (o + 1) - 1 = r
      BY <1>1
    <3> QED
      BY <1>4, <2>3, <3>1
  <2> QED
    BY <2>2, <2>4, <2>5
<1> QED
  BY <1>14, <1>15 DEF own, all, OwnAnswered

(* generate_sequences: every prompt gets its own answer, whatever the padding,
   the ranks and their tensor parallel groups. *)
THEOREM AnswersAre ==
    ASSUME NEW X, NEW prompts \in Seq(X), Len(prompts) > 0, NEW w
    PROVE  Answers(prompts, w) = [i \in 1 .. Len(prompts) |-> Answer(prompts[i], w)]
<1> DEFINE k == WorldSize  n == Len(prompts)  padded == Padded(prompts, k)
           chunks == Chunks(padded, k)
           Y == { Answer(x, w) : x \in X }
           s == [i \in 1 .. Len(padded) |-> Answer(padded[i], w)]
           own(r) == OwnAnswers(AllAnswers(chunks, r, w), r)
           outputs == [r \in Ranks |-> own(r)]
<1>0. k \in Nat \ {0} /\ Ranks = 0 .. k - 1
  BY WorldAssumption DEF Ranks
<1>a. Answers(prompts, w) = SubSeq(Collected(outputs, k), 1, n)
  BY DEF Answers, Unpadded, AllAnswers, Answer
<1> HIDE DEF k
<1>1. /\ padded \in Seq(X) /\ Len(padded) >= n /\ n \in Nat
      /\ \A i \in 1 .. n : padded[i] = prompts[i]
  BY <1>0, PaddedIs
<1>2. PICK m \in Nat \ {0} : CutInto(k, m, padded)
  BY <1>0, PaddedIs
<1> HIDE DEF padded
<1>3. \A r \in Ranks : chunks[r] \in Seq(X) /\ ChunkAt(m, padded, chunks[r], r)
  BY <1>0, <1>1, <1>2, ChunkIs
<1> HIDE DEF chunks
<1>4. \A x \in X : Answer(x, w) \in Y
  OBVIOUS
<1>5. m \in Nat /\ \A r \in Ranks : chunks[r] \in Seq(X) /\ Len(chunks[r]) = m
  BY <1>3 DEF ChunkAt
<1> HIDE DEF Y
<1>6. \A r \in Ranks : /\ own(r) \in Seq(Y) /\ Len(own(r)) = m
                       /\ \A i \in 1 .. m : own(r)[i] = Answer(chunks[r][i], w)
  <2>1. ChunksOf(X, m, chunks) /\ AnswersIn(X, w, Y)
    BY <1>4, <1>5 DEF ChunksOf, AnswersIn
  <2>2. m \in Nat
    BY <1>5
  <2> TAKE r \in Ranks
  <2>3. r \in Ranks
    OBVIOUS
  <2>4. OwnAnswered(Y, m, chunks, r, w)
    BY ONLY <2>1, <2>2, <2>3, OwnAnswersAre
  <2> QED
    BY <2>4 DEF OwnAnswered
<1> HIDE DEF own
<1>7. s \in Seq(Y) /\ Len(s) = Len(padded) /\ \A y \in 1 .. Len(padded) : s[y] = Answer(padded[y], w)
  <2> DEFINE l == Len(padded)
  <2>1. l \in Nat /\ \A y \in 1 .. l : Answer(padded[y], w) \in Y
    BY <1>1, <1>4
  <2>2. s = [y \in 1 .. l |-> Answer(padded[y], w)]
    OBVIOUS
  <2> HIDE DEF l, s
  <2>3. s \in Seq(Y) /\ Len(s) = l /\ \A y \in 1 .. l : s[y] = Answer(padded[y], w)
    BY ONLY <2>1, <2>2
  <2> QED
    BY <2>3 DEF l
<1> HIDE DEF s
<1>8. \A r \in Ranks : outputs[r] \in Seq(Y) /\ ChunkAt(m, s, outputs[r], r)
  <2> TAKE r \in Ranks
  <2>1. outputs[r] = own(r)
    OBVIOUS
  <2>2. \A i \in 1 .. m : own(r)[i] = s[r * m + i]
    <3> TAKE i \in 1 .. m
    <3>1. k \in Nat /\ r \in 0 .. k - 1
      BY <1>0
    <3>2. r * m + i \in 1 .. k * m
      BY <3>1, BlockIndex
    <3>3. r * m + i \in 1 .. Len(padded)
      BY <1>2, <3>2 DEF CutInto
    <3>4. s[r * m + i] = Answer(padded[r * m + i], w)
      BY <1>7, <3>3
    <3>5. chunks[r][i] = padded[r * m + i]
      BY <1>3 DEF ChunkAt
    <3> QED
      BY <1>6, <3>4, <3>5
  <2> HIDE DEF outputs
  <2> QED
    BY <1>6, <2>1, <2>2 DEF ChunkAt
<1> HIDE DEF outputs
<1>9. CutInto(k, m, s) /\ m \in Nat
  BY <1>2, <1>7 DEF CutInto
<1>10. Collected(outputs, k) = s
  BY <1>0, <1>7, <1>8, <1>9, CollectedIs
<1>11. Answers(prompts, w) = SubSeq(s, 1, n)
  BY <1>a, <1>10
<1>12. \A i \in 1 .. n : s[i] = Answer(prompts[i], w)
  BY <1>1, <1>7
<1>13. SubSeq(s, 1, n) = [i \in 1 .. n |-> s[i]]
  BY <1>1, <1>7
<1> HIDE DEF n
<1>14. SubSeq(s, 1, n) = [i \in 1 .. n |-> Answer(prompts[i], w)]
  BY <1>12, <1>13
<1> QED
  BY <1>11, <1>14 DEF n

-----------------------------------------------------------------------------
(* The first rows of the groups, row by row. *)
FirstsOf(rows, es) ==
    CHOOSE firsts : firsts = [i \in 0 .. Len(rows) |->
        IF i = 0 THEN {}
        ELSE LET earlier == firsts[i - 1]
             IN  IF \E j \in earlier : Joins(rows[i], rows[j], es)
                 THEN earlier ELSE earlier \cup {i}]
FirstsGrow(n, rows, es, f) ==
    /\ f[0] = {}
    /\ \A i \in 1 .. n : f[i] = IF \E j \in f[i - 1] : Joins(rows[i], rows[j], es)
                                THEN f[i - 1] ELSE f[i - 1] \cup {i}

LEMMA FirstsExist ==
    ASSUME NEW n \in Nat, NEW rows, Len(rows) = n, NEW es
    PROVE  FirstsGrow(n, rows, es, FirstsOf(rows, es))
<1> DEFINE V == SUBSET (1 .. n)
           next(i, S) == IF \E j \in S : Joins(rows[i], rows[j], es) THEN S ELSE S \cup {i}
           step == [p \in (1 .. n) \X V |-> next(p[1], p[2])]
           Eq(f) == f = [i \in 0 .. n |-> IF i = 0 THEN {} ELSE next(i, f[i - 1])]
           g == FirstsOf(rows, es)
<1>1. \A i \in 1 .. n, S \in V : next(i, S) \in V
  OBVIOUS
<1>2. {} \in V
  OBVIOUS
<1> HIDE DEF V, next
<1>3. step \in [(1 .. n) \X V -> V] /\ \A i \in 1 .. n, S \in V : step[<<i, S>>] = next(i, S)
  BY <1>1
<1> HIDE DEF step
<1>4. Recursions(n, V, {}, step) # {}
  BY <1>2, <1>3, RecursionUpTo
<1>5. PICK f \in [0 .. n -> V] : f[0] = {} /\ \A i \in 1 .. n : f[i] = step[<<i, f[i - 1]>>]
  BY <1>4 DEF Recursions
<1>6. \A i \in 1 .. n : i \in 0 .. n /\ i - 1 \in 0 .. n /\ i # 0
  OBVIOUS
<1>7. \A i \in 1 .. n : f[i] = next(i, f[i - 1])
  <2> TAKE i \in 1 .. n
  <2>1. f[i - 1] \in V
    BY <1>5, <1>6
  <2> QED
    BY <1>3, <1>5, <2>1
<1>8. Eq(f)
  <2>1. f = [i \in 0 .. n |-> f[i]]
    BY <1>5
  <2>2. \A i \in 0 .. n : f[i] = IF i = 0 THEN {} ELSE next(i, f[i - 1])
    <3> TAKE i \in 0 .. n
    <3>1. i # 0 => i \in 1 .. n
      OBVIOUS
    <3> QED
      BY <1>5, <1>7, <3>1, Zenon
  <2> QED
    BY <2>1, <2>2
<1>9. g = CHOOSE h : Eq(h)
  BY DEF FirstsOf, next
<1>10. Eq(g)
  <2> HIDE DEF Eq, g
  <2> QED
    BY <1>8, <1>9
<1> HIDE DEF g
<1>11. g[0] = {} /\ \A i \in 1 .. n : g[i] = next(i, g[i - 1])
  <2>1. 0 \in 0 .. n
    OBVIOUS
  <2> QED
    BY <1>6, <1>10, <2>1
<1> QED
  BY <1>11 DEF FirstsGrow, next, g

GroupFacts(n, rows, es, g) ==
    /\ DOMAIN g = 1 .. n
    /\ \A i \in 1 .. n : g[i] \in 1 .. n /\ Joins(rows[i], rows[g[i]], es)
    /\ \A i, j \in 1 .. n : rows[i].uid = rows[j].uid /\ rows[i].obs = rows[j].obs => g[i] = g[j]
    /\ \A i, j \in 1 .. n : g[i] = i /\ g[j] = j /\ j < i => ~Joins(rows[i], rows[j], es)

(* build_step_group: a row joins the first row of its group, rows of one prompt
   and observation are in one group, and no first row joins an earlier one. *)
THEOREM StepGroupsAre ==
    ASSUME NEW n \in Nat, NEW rows, Len(rows) = n, DOMAIN rows = 1 .. n, NEW es
    PROVE  GroupFacts(n, rows, es, StepGroups(rows, es))
<1> DEFINE f == FirstsOf(rows, es)
           J(i, j) == Joins(rows[i], rows[j], es)
           with(i) == { j \in f[i] : J(i, j) }
           g == StepGroups(rows, es)
<1>1. g = [i \in 1 .. n |-> Min({ j \in f[i] : Joins(rows[i], rows[j], es) })]
  BY DEF StepGroups, FirstsOf
<1>2. f[0] = {} /\ \A i \in 1 .. n : f[i] = IF \E j \in f[i - 1] : J(i, j)
                                            THEN f[i - 1] ELSE f[i - 1] \cup {i}
  <2> HIDE DEF f
  <2>1. FirstsGrow(n, rows, es, f)
    BY FirstsExist DEF f
  <2> QED
    BY <2>1 DEF FirstsGrow
<1> HIDE DEF f, g
<1>3. \A i \in 1 .. n : g[i] = Min(with(i))
  BY <1>1
<1>4. \A i \in 1 .. n : J(i, i)
  BY DEF Joins, SamePrompt, AreSimilar
<1>5. \A i, j, x \in 1 .. n : rows[i].uid = rows[j].uid /\ rows[i].obs = rows[j].obs => (J(i, x) <=> J(j, x))
  BY DEF Joins, SamePrompt
<1> HIDE DEF J
<1>6. \A i \in 0 .. n : f[i] \subseteq 1 .. i
  <2> DEFINE P == { i \in 0 .. n : f[i] \subseteq 1 .. i }
  <2>1. 0 \in P
    BY <1>2
  <2>2. \A i \in 1 .. n : i - 1 \in P => i \in P
    <3> TAKE i \in 1 .. n
    <3> HAVE i - 1 \in P
    <3>0. f[i - 1] \subseteq 1 .. i - 1
      OBVIOUS
    <3>a. i \in 0 .. n
      OBVIOUS
    <3>b. f[i] \subseteq f[i - 1] \cup {i}
      BY <1>2
    <3>1. i \in 0 .. n /\ f[i - 1] \subseteq 1 .. i - 1 /\ f[i] \subseteq f[i - 1] \cup {i}
      BY <3>0, <3>a, <3>b
    <3>2. f[i] \subseteq 1 .. i
      BY <3>1
    <3> QED
      BY <3>1, <3>2
  <2> HIDE DEF P
  <2>3. \A i \in 0 .. n : i \in P
    BY <2>1, <2>2, UpToInduction
  <2> QED
    BY <2>3 DEF P
<1>7. \A i \in 1 .. n : with(i) # {}
  <2> TAKE i \in 1 .. n
  <2>1. CASE \E j \in f[i - 1] : J(i, j)
    BY <1>2, <2>1
  <2>2. CASE ~ \E j \in f[i - 1] : J(i, j)
    <3>1. i \in f[i]
      BY <1>2, <2>2
    <3> QED
      BY <1>4, <3>1
  <2> QED
    BY <2>1, <2>2
<1>8. \A i \in 1 .. n : \A j \in 0 .. n : i <= j =>
          f[i] \subseteq f[j] /\ \A x \in f[j] : x <= i => x \in f[i]
  <2> TAKE i \in 1 .. n
  <2> DEFINE P == { j \in 0 .. n : i <= j => f[i] \subseteq f[j] /\ \A x \in f[j] : x <= i => x \in f[i] }
  <2>1. 0 \in P
    OBVIOUS
  <2>2. \A j \in 1 .. n : j - 1 \in P => j \in P
    <3> TAKE j \in 1 .. n
    <3> HAVE j - 1 \in P
    <3>1. j \in 0 .. n
      OBVIOUS
    <3>2. CASE j < i
      BY <3>1, <3>2
    <3>3. CASE j = i
      BY <3>1, <3>3
    <3>4. CASE j > i
      <4>1. f[i] \subseteq f[j - 1] /\ \A x \in f[j - 1] : x <= i => x \in f[i]
        BY <3>4
      <4>2. f[j - 1] \subseteq f[j] /\ f[j] \subseteq f[j - 1] \cup {j}
        BY <1>2
      <4>3. \A x \in f[j] : x <= i => x \in f[i]
        BY <3>4, <4>1, <4>2
      <4>4. f[i] \subseteq f[j]
        BY <4>1, <4>2
      <4> QED
        BY <3>1, <4>3, <4>4
    <3> QED
      BY <3>2, <3>3, <3>4
  <2> HIDE DEF P
  <2>3. \A j \in 0 .. n : j \in P
    BY <2>1, <2>2, UpToInduction
  <2> QED
    BY <2>3 DEF P
<1>9. \A i \in 1 .. n : i \in 0 .. n /\ f[i] \subseteq 1 .. n
  <2> TAKE i \in 1 .. n
  <2>1. i \in 0 .. n /\ 1 .. i \subseteq 1 .. n
    OBVIOUS
  <2> QED
    BY <1>6, <2>1
<1>10. \A i \in 1 .. n : /\ g[i] \in f[i] /\ J(i, g[i])
                         /\ \A x \in f[i] : J(i, x) => g[i] <= x
  <2> TAKE i \in 1 .. n
  <2> DEFINE S == with(i)
  <2>1. S \in SUBSET Nat /\ S # {}
    BY <1>7, <1>9
  <2>2. \A x : x \in S <=> x \in f[i] /\ J(i, x)
    OBVIOUS
  <2> HIDE DEF S
  <2>3. Min(S) \in S /\ \A y \in S : Min(S) <= y
    BY <2>1, MinOfNaturals
  <2>4. g[i] = Min(S)
    BY <1>3 DEF S
  <2> QED
    BY <2>2, <2>3, <2>4
<1>11. \A i \in 1 .. n : g[i] \in 1 .. i /\ g[i] \in 1 .. n
  BY <1>6, <1>9, <1>10
<1>12. \A i, j \in 1 .. n : i <= j /\ rows[i].uid = rows[j].uid /\ rows[i].obs = rows[j].obs => g[i] = g[j]
  <2> SUFFICES ASSUME NEW i \in 1 .. n, NEW j \in 1 .. n, i <= j,
                      rows[i].uid = rows[j].uid, rows[i].obs = rows[j].obs
               PROVE  g[i] = g[j]
    OBVIOUS
  <2>1. j \in 0 .. n /\ f[i] \subseteq f[j] /\ \A x \in f[j] : x <= i => x \in f[i]
    BY <1>8, <1>9
  <2>2. \A x \in 1 .. n : J(i, x) <=> J(j, x)
    BY <1>5
  <2>3. g[j] <= g[i]
    BY <1>10, <1>11, <2>1, <2>2
  <2>4. g[j] \in f[i]
    BY <1>10, <1>11, <2>1, <2>3
  <2>5. g[i] <= g[j]
    BY <1>10, <1>11, <2>2, <2>4
  <2> QED
    BY <1>11, <2>3, <2>5
<1>13. \A i, j \in 1 .. n : rows[i].uid = rows[j].uid /\ rows[i].obs = rows[j].obs => g[i] = g[j]
  <2> TAKE i, j \in 1 .. n
  <2>1. i <= j \/ j <= i
    OBVIOUS
  <2> QED
    BY <1>12, <2>1
<1>14. \A i, j \in 1 .. n : g[i] = i /\ g[j] = j /\ j < i => ~J(i, j)
  <2> SUFFICES ASSUME NEW i \in 1 .. n, NEW j \in 1 .. n, g[i] = i, g[j] = j, j < i, J(i, j)
               PROVE  FALSE
    OBVIOUS
  <2>1. j \in f[i]
    BY <1>8, <1>9, <1>10
  <2> QED
    BY <1>10, <2>1
<1>15. DOMAIN g = 1 .. n
  BY <1>1
<1> QED
  BY <1>10, <1>11, <1>13, <1>14, <1>15 DEF GroupFacts, J, g

-----------------------------------------------------------------------------
(* A function on 1 .. N + 1 may be defined from its end. *)
Backward(N, step) ==
    { f \in [1 .. N + 1 -> Int] : f[N + 1] = 0 /\ \A j \in 1 .. N : f[j] = step[<<j, f[j + 1]>>] }

LEMMA BackwardRecursion ==
    ASSUME NEW N \in Nat, NEW step \in [(1 .. N) \X Int -> Int]
    PROVE  Backward(N, step) # {}
<1> DEFINE back == [p \in (1 .. N) \X Int |-> step[<<N + 1 - p[1], p[2]>>]]
<1>1. \A m \in 1 .. N : N + 1 - m \in 1 .. N
  OBVIOUS
<1>2. back \in [(1 .. N) \X Int -> Int] /\ \A m \in 1 .. N, v \in Int : back[<<m, v>>] = step[<<N + 1 - m, v>>]
  <2>1. \A m \in 1 .. N, v \in Int : step[<<N + 1 - m, v>>] \in Int
    BY <1>1
  <2> QED
    BY <2>1
<1> HIDE DEF back
<1>3. 0 \in Int
  OBVIOUS
<1>4. PICK h \in [0 .. N -> Int] : h[0] = 0 /\ \A m \in 1 .. N : h[m] = back[<<m, h[m - 1]>>]
  <2>1. Recursions(N, Int, 0, back) # {}
    BY <1>2, <1>3, RecursionUpTo
  <2> QED
    BY <2>1 DEF Recursions
<1> DEFINE f == [j \in 1 .. N + 1 |-> h[N + 1 - j]]
<1>5. \A j \in 1 .. N + 1 : N + 1 - j \in 0 .. N
  OBVIOUS
<1>6. f \in [1 .. N + 1 -> Int]
  BY <1>5
<1>7. f[N + 1] = 0
  BY <1>4
<1>8. \A j \in 1 .. N : f[j] = step[<<j, f[j + 1]>>]
  <2> TAKE j \in 1 .. N
  <2> DEFINE m == N + 1 - j
  <2>1. m \in 1 .. N /\ m - 1 \in 0 .. N /\ N + 1 - m = j /\ m - 1 = N + 1 - (j + 1)
        /\ j \in 1 .. N + 1 /\ j + 1 \in 1 .. N + 1
    OBVIOUS
  <2>2. f[j] = h[m] /\ f[j + 1] = h[m - 1]
    BY <2>1
  <2> HIDE DEF m, f
  <2>3. h[m] = back[<<m, h[m - 1]>>] /\ h[m - 1] \in Int
    BY <1>4, <2>1
  <2> QED
    BY <1>2, <2>1, <2>2, <2>3
<1> QED
  BY <1>6, <1>7, <1>8 DEF Backward

-----------------------------------------------------------------------------
(* How many of the rows up to j are of a trajectory. *)
PlayedBy(rows, t, j) == { l \in 1 .. j : rows[l].traj = t }
Played(rows, t, j) == Cardinality(PlayedBy(rows, t, j))

LEMMA PlayedCounts ==
    ASSUME NEW n \in Nat, NEW rows, NEW t
    PROVE  /\ Played(rows, t, 0) = 0
           /\ \A j \in 1 .. n : Played(rows, t, j) = Played(rows, t, j - 1)
                                    + IF rows[j].traj = t THEN 1 ELSE 0
           /\ \A j \in 0 .. n : Played(rows, t, j) \in Nat
<1>1. \A j \in Nat : IsFiniteSet(PlayedBy(rows, t, j)) /\ Played(rows, t, j) \in Nat
  <2> TAKE j \in Nat
  <2>1. IsFiniteSet(1 .. j)
    BY FS_Interval
  <2>2. PlayedBy(rows, t, j) \subseteq 1 .. j
    BY DEF PlayedBy
  <2>3. IsFiniteSet(PlayedBy(rows, t, j))
    BY <2>1, <2>2, FS_Subset
  <2> QED
    BY <2>3, FS_CardinalityType DEF Played
<1>2. Played(rows, t, 0) = 0
  <2>1. PlayedBy(rows, t, 0) = {}
    BY DEF PlayedBy
  <2> QED
    BY <2>1, FS_EmptySet DEF Played
<1>3. \A j \in 1 .. n : Played(rows, t, j) = Played(rows, t, j - 1) + IF rows[j].traj = t THEN 1 ELSE 0
  <2> TAKE j \in 1 .. n
  <2>1. j - 1 \in Nat /\ \A l : l \in 1 .. j <=> l \in 1 .. j - 1 \/ l = j
    OBVIOUS
  <2>2. IsFiniteSet(PlayedBy(rows, t, j - 1)) /\ j \notin PlayedBy(rows, t, j - 1)
    BY <1>1, <2>1 DEF PlayedBy
  <2>3. CASE rows[j].traj = t
    <3>1. PlayedBy(rows, t, j) = PlayedBy(rows, t, j - 1) \cup {j}
      BY <2>1, <2>3 DEF PlayedBy
    <3> QED
      BY <2>2, <2>3, <3>1, FS_AddElement DEF Played
  <2>4. CASE rows[j].traj # t
    <3>1. PlayedBy(rows, t, j) = PlayedBy(rows, t, j - 1)
      BY <2>1, <2>4 DEF PlayedBy
    <3> QED
      BY <1>1, <2>1, <2>4, <3>1 DEF Played
  <2> QED
    BY <2>3, <2>4
<1>4. \A j \in 0 .. n : Played(rows, t, j) \in Nat
  BY <1>1
<1> QED
  BY <1>2, <1>3, <1>4

(* The count grows, and passes every number on its way. *)
LEMMA PlayedGrows ==
    ASSUME NEW n \in Nat, NEW rows, NEW t
    PROVE  /\ \A j \in 0 .. n : \A i \in 1 .. n :
                  i <= j /\ rows[i].traj = t => Played(rows, t, i) <= Played(rows, t, j)
                                                /\ Played(rows, t, i) > 0
           /\ \A i, j \in 1 .. n : i < j /\ rows[i].traj = t /\ rows[j].traj = t
                  => Played(rows, t, i) < Played(rows, t, j)
           /\ \A j \in 0 .. n : \A s \in 1 .. Played(rows, t, j) :
                  \E i \in 1 .. n : i <= j /\ rows[i].traj = t /\ Played(rows, t, i) = s
<1> DEFINE c == [j \in 0 .. n |-> Played(rows, t, j)]
           T(i) == rows[i].traj = t
<1>1. \A j \in 0 .. n : c[j] = Played(rows, t, j)
  OBVIOUS
<1>2. \A i \in 1 .. n : i \in 0 .. n /\ i - 1 \in 0 .. n
  OBVIOUS
<1>3. /\ c[0] = 0
      /\ \A j \in 1 .. n : c[j] = c[j - 1] + IF T(j) THEN 1 ELSE 0
      /\ \A j \in 0 .. n : c[j] \in Nat
  BY <1>1, <1>2, PlayedCounts
<1> HIDE DEF c, T
<1>4. \A j \in 0 .. n : \A i \in 1 .. n : i <= j /\ T(i) => c[i] <= c[j] /\ c[i] > 0
  <2> DEFINE P == { j \in 0 .. n : \A i \in 1 .. n : i <= j /\ T(i) => c[i] <= c[j] /\ c[i] > 0 }
  <2>1. 0 \in P
    OBVIOUS
  <2>2. \A j \in 1 .. n : j - 1 \in P => j \in P
    <3> TAKE j \in 1 .. n
    <3> HAVE j - 1 \in P
    <3>1. \A i \in 1 .. n : i <= j - 1 /\ T(i) => c[i] <= c[j - 1] /\ c[i] > 0
      OBVIOUS
    <3>2. c[j - 1] \in Nat /\ c[j] \in Nat /\ c[j - 1] <= c[j] /\ (T(j) => c[j] > 0) /\ j \in 0 .. n
      BY <1>2, <1>3
    <3>3. \A i \in 1 .. n : i <= j /\ T(i) => c[i] <= c[j] /\ c[i] > 0
      <4> TAKE i \in 1 .. n
      <4> HAVE i <= j /\ T(i)
      <4>1. c[i] \in Nat
        BY <1>2, <1>3
      <4>2. CASE i = j
        BY <3>2, <4>2
      <4>3. CASE i # j
        <5>1. i <= j - 1
          BY <4>3
        <5>2. c[i] <= c[j - 1] /\ c[i] > 0
          BY <3>1, <5>1
        <5> HIDE DEF P
        <5> QED
          BY <3>2, <4>1, <5>2
      <4> QED
        BY <4>2, <4>3
    <3> QED
      BY <3>2, <3>3
  <2> HIDE DEF P
  <2>3. \A j \in 0 .. n : j \in P
    BY <2>1, <2>2, UpToInduction
  <2> QED
    BY <2>3 DEF P
<1>5. \A i, j \in 1 .. n : i < j /\ T(i) /\ T(j) => c[i] < c[j]
  <2> SUFFICES ASSUME NEW i \in 1 .. n, NEW j \in 1 .. n, i < j, T(i), T(j) PROVE c[i] < c[j]
    OBVIOUS
  <2>1. i <= j - 1 /\ j - 1 \in 0 .. n /\ i \in 0 .. n /\ j \in 0 .. n
    OBVIOUS
  <2>2. c[i] <= c[j - 1] /\ c[j] = c[j - 1] + 1 /\ c[i] \in Nat /\ c[j - 1] \in Nat
    BY <1>3, <1>4, <2>1
  <2> QED
    BY <2>2
<1>6. \A j \in 0 .. n : \A s \in 1 .. c[j] : \E i \in 1 .. n : i <= j /\ T(i) /\ c[i] = s
  <2> DEFINE Q(j) == \A s \in 1 .. c[j] : \E i \in 1 .. n : i <= j /\ T(i) /\ c[i] = s
             P == { j \in 0 .. n : Q(j) }
  <2>1. 0 \in P
    BY <1>3
  <2>2. \A j \in 1 .. n : j - 1 \in P => j \in P
    <3> TAKE j \in 1 .. n
    <3> HAVE j - 1 \in P
    <3>1. c[j - 1] \in Nat /\ c[j] \in Nat /\ j \in 0 .. n
          /\ c[j] = c[j - 1] + IF T(j) THEN 1 ELSE 0
      BY <1>2, <1>3
    <3>2. Q(j)
      <4> TAKE s \in 1 .. c[j]
      <4>1. CASE s \in 1 .. c[j - 1]
        BY <4>1
      <4>2. CASE s \notin 1 .. c[j - 1]
        <5>1. T(j) /\ s = c[j]
          BY <3>1, <4>2
        <5> QED
          BY <5>1
      <4> QED
        BY <4>1, <4>2
    <3> QED
      BY <3>1, <3>2
  <2> HIDE DEF P
  <2>3. \A j \in 0 .. n : j \in P
    BY <2>1, <2>2, UpToInduction
  <2> QED
    BY <2>3 DEF P
<1>7. \A i \in 1 .. n : c[i] = Played(rows, t, i)
  BY <1>1, <1>2
<1> QED
  BY <1>1, <1>4, <1>5, <1>6, <1>7 DEF T

-----------------------------------------------------------------------------
(* The rows as they were played: what BatchesAssumption says of them. *)
AsPlayed(n, rows) ==
    /\ DOMAIN rows = 1 .. n
    /\ \A i \in 1 .. n : rows[i].reward \in Int /\ rows[i].step = Played(rows, rows[i].traj, i)

(* The discounted sums of one trajectory, by positions and by steps. *)
RunningOf(N, rows, t) ==
    CHOOSE running : running = [j \in 1 .. N + 1 |->
        IF j > N THEN 0
        ELSE IF rows[j].traj = t THEN rows[j].reward + Gamma * running[j + 1]
        ELSE running[j + 1]]
RunsBack(n, rows, t, f) ==
    /\ f[n + 1] = 0
    /\ \A j \in 1 .. n : f[j] = IF rows[j].traj = t THEN rows[j].reward + Gamma * f[j + 1]
                                ELSE f[j + 1]

LEMMA RunningIs ==
    ASSUME NEW n \in Nat, NEW rows, AsPlayed(n, rows), NEW t
    PROVE  RunsBack(n, rows, t, RunningOf(n, rows, t))
<1> DEFINE next(j, v) == IF rows[j].traj = t THEN rows[j].reward + Gamma * v ELSE v
           step == [p \in (1 .. n) \X Int |-> next(p[1], p[2])]
           Eq(f) == f = [j \in 1 .. n + 1 |-> IF j > n THEN 0 ELSE next(j, f[j + 1])]
           g == RunningOf(n, rows, t)
<1>1. \A j \in 1 .. n, v \in Int : next(j, v) \in Int
  BY BatchSizesAssumption DEF AsPlayed
<1>2. g = CHOOSE f : Eq(f)
  BY DEF RunningOf
<1> HIDE DEF next, g
<1>3. step \in [(1 .. n) \X Int -> Int] /\ \A j \in 1 .. n, v \in Int : step[<<j, v>>] = next(j, v)
  BY <1>1
<1> HIDE DEF step
<1>4. PICK f \in [1 .. n + 1 -> Int] : f[n + 1] = 0 /\ \A j \in 1 .. n : f[j] = step[<<j, f[j + 1]>>]
  <2>1. Backward(n, step) # {}
    BY <1>3, BackwardRecursion
  <2> QED
    BY <2>1 DEF Backward
<1>5. \A j \in 1 .. n : j + 1 \in 1 .. n + 1 /\ j \in 1 .. n + 1 /\ ~(j > n)
  OBVIOUS
<1>6. \A j \in 1 .. n : f[j] = next(j, f[j + 1])
  <2> TAKE j \in 1 .. n
  <2>1. f[j + 1] \in Int
    BY <1>4, <1>5
  <2> QED
    BY <1>3, <1>4, <2>1
<1>7. Eq(f)
  <2>1. f = [j \in 1 .. n + 1 |-> f[j]]
    BY <1>4
  <2>2. \A j \in 1 .. n + 1 : f[j] = IF j > n THEN 0 ELSE next(j, f[j + 1])
    <3> TAKE j \in 1 .. n + 1
    <3>1. CASE j > n
      <4>1. j = n + 1
        BY <3>1
      <4> QED
        BY <1>4, <3>1, <4>1
    <3>2. CASE ~(j > n)
      <4>1. j \in 1 .. n
        BY <3>2
      <4> QED
        BY <1>6, <3>2, <4>1
    <3> QED
      BY <3>1, <3>2
  <2> QED
    BY <2>1, <2>2
<1>8. Eq(g)
  <2> HIDE DEF Eq
  <2> QED
    BY <1>2, <1>7
<1>9. g[n + 1] = 0 /\ \A j \in 1 .. n : g[j] = next(j, g[j + 1])
  <2>1. n + 1 \in 1 .. n + 1 /\ n + 1 > n
    OBVIOUS
  <2> QED
    BY <1>5, <1>8, <2>1
<1> QED
  BY <1>9 DEF RunsBack, next, g

StepsOf(rows, t) == { i \in DOMAIN rows : rows[i].traj = t }
RowAt(rows, t, s) == CHOOSE i \in StepsOf(rows, t) : rows[i].step = s
ReturnsOf(K, rows, t) ==
    CHOOSE ret : ret = [s \in 1 .. K + 1 |->
        IF s > K THEN 0 ELSE rows[RowAt(rows, t, s)].reward + Gamma * ret[s + 1]]

(* A step is found where it is. *)
LEMMA RowAtIs ==
    ASSUME NEW n \in Nat, NEW rows, AsPlayed(n, rows), NEW t
    PROVE  /\ Played(rows, t, n) = Cardinality(StepsOf(rows, t))
           /\ Played(rows, t, n) \in Nat
           /\ \A s \in 1 .. Played(rows, t, n) : RowAt(rows, t, s) \in 1 .. n
           /\ \A i \in 1 .. n : rows[i].traj = t =>
                  rows[i].step \in 1 .. Played(rows, t, n) /\ RowAt(rows, t, rows[i].step) = i
<1> DEFINE K == Played(rows, t, n)
<1>1. n \in 0 .. n /\ \A i \in 1 .. n : i <= n /\ i \in 0 .. n
  OBVIOUS
<1>2. \A i \in 1 .. n : rows[i].traj = t => rows[i].step = Played(rows, t, i)
  BY DEF AsPlayed
<1>3. \A i \in 0 .. n : Played(rows, t, i) \in Nat
  BY PlayedCounts
<1>4. StepsOf(rows, t) = { i \in 1 .. n : rows[i].traj = t }
  BY DEF StepsOf, AsPlayed
<1>5. \A i, j \in 1 .. n : rows[i].traj = t /\ rows[j].traj = t
                           /\ Played(rows, t, i) = Played(rows, t, j) => i = j
  <2> SUFFICES ASSUME NEW i \in 1 .. n, NEW j \in 1 .. n, rows[i].traj = t, rows[j].traj = t,
                      Played(rows, t, i) = Played(rows, t, j), i # j
               PROVE  FALSE
    OBVIOUS
  <2>1. i < j \/ j < i
    OBVIOUS
  <2>2. Played(rows, t, i) \in Nat
    BY <1>1, <1>3
  <2>3. Played(rows, t, i) < Played(rows, t, j) \/ Played(rows, t, j) < Played(rows, t, i)
    BY <2>1, PlayedGrows
  <2> QED
    BY <2>2, <2>3
<1>6. \A s \in 1 .. K : \E i \in StepsOf(rows, t) : rows[i].step = s
  <2>1. \A s \in 1 .. K : \E i \in 1 .. n : i <= n /\ rows[i].traj = t /\ Played(rows, t, i) = s
    BY <1>1, PlayedGrows
  <2> HIDE DEF K
  <2> QED
    BY <1>2, <1>4, <2>1
<1>7. \A s \in 1 .. K : RowAt(rows, t, s) \in StepsOf(rows, t) /\ rows[RowAt(rows, t, s)].step = s
  BY <1>6 DEF RowAt
<1>8. \A s \in 1 .. K : RowAt(rows, t, s) \in 1 .. n
  BY <1>4, <1>7
<1>9. \A i \in 1 .. n : rows[i].traj = t => rows[i].step \in 1 .. K /\ RowAt(rows, t, rows[i].step) = i
  <2> SUFFICES ASSUME NEW i \in 1 .. n, rows[i].traj = t
               PROVE  rows[i].step \in 1 .. K /\ RowAt(rows, t, rows[i].step) = i
    OBVIOUS
  <2>1. rows[i].step = Played(rows, t, i) /\ Played(rows, t, i) \in Nat /\ K \in Nat
    BY <1>1, <1>2, <1>3
  <2>2. Played(rows, t, i) <= K /\ Played(rows, t, i) > 0
    BY <1>1, PlayedGrows
  <2> HIDE DEF K
  <2>3. rows[i].step \in 1 .. K
    BY <2>1, <2>2
  <2> DEFINE j == RowAt(rows, t, rows[i].step)
  <2>4. j \in 1 .. n /\ rows[j].traj = t /\ rows[j].step = rows[i].step
    BY <1>4, <1>7, <2>3
  <2> HIDE DEF j
  <2>5. j = i
    BY <1>2, <1>5, <2>4
  <2> QED
    BY <2>3, <2>5 DEF j
<1>10. K = Cardinality(StepsOf(rows, t))
  BY <1>4 DEF Played, PlayedBy
<1> QED
  BY <1>1, <1>3, <1>8, <1>9, <1>10

StepsBack(K, rows, t, f) ==
    /\ f[K + 1] = 0
    /\ \A s \in 1 .. K : f[s] = rows[RowAt(rows, t, s)].reward + Gamma * f[s + 1]

LEMMA ReturnsAre ==
    ASSUME NEW n \in Nat, NEW rows, AsPlayed(n, rows), NEW t,
           NEW K \in Nat, K = Played(rows, t, n)
    PROVE  StepsBack(K, rows, t, ReturnsOf(K, rows, t))
<1> DEFINE next(s, v) == rows[RowAt(rows, t, s)].reward + Gamma * v
           step == [p \in (1 .. K) \X Int |-> next(p[1], p[2])]
           Eq(f) == f = [s \in 1 .. K + 1 |-> IF s > K THEN 0 ELSE next(s, f[s + 1])]
           g == ReturnsOf(K, rows, t)
<1>1. \A s \in 1 .. K, v \in Int : next(s, v) \in Int
  <2>1. \A s \in 1 .. K : RowAt(rows, t, s) \in 1 .. n
    BY RowAtIs
  <2>2. \A s \in 1 .. K : rows[RowAt(rows, t, s)].reward \in Int
    BY <2>1 DEF AsPlayed
  <2> QED
    BY <2>2, BatchSizesAssumption
<1>2. g = CHOOSE f : Eq(f)
  BY DEF ReturnsOf
<1> HIDE DEF next, g
<1>3. step \in [(1 .. K) \X Int -> Int] /\ \A s \in 1 .. K, v \in Int : step[<<s, v>>] = next(s, v)
  BY <1>1
<1> HIDE DEF step
<1>4. PICK f \in [1 .. K + 1 -> Int] : f[K + 1] = 0 /\ \A s \in 1 .. K : f[s] = step[<<s, f[s + 1]>>]
  <2>1. Backward(K, step) # {}
    BY <1>3, BackwardRecursion
  <2> QED
    BY <2>1 DEF Backward
<1>5. \A s \in 1 .. K : s + 1 \in 1 .. K + 1 /\ s \in 1 .. K + 1 /\ ~(s > K)
  OBVIOUS
<1>6. \A s \in 1 .. K : f[s] = next(s, f[s + 1])
  <2> TAKE s \in 1 .. K
  <2>1. f[s + 1] \in Int
    BY <1>4, <1>5
  <2> QED
    BY <1>3, <1>4, <2>1
<1>7. Eq(f)
  <2>1. f = [s \in 1 .. K + 1 |-> f[s]]
    BY <1>4
  <2>2. \A s \in 1 .. K + 1 : f[s] = IF s > K THEN 0 ELSE next(s, f[s + 1])
    <3> TAKE s \in 1 .. K + 1
    <3>1. CASE s > K
      <4>1. s = K + 1
        BY <3>1
      <4> QED
        BY <1>4, <3>1, <4>1
    <3>2. CASE ~(s > K)
      <4>1. s \in 1 .. K
        BY <3>2
      <4> QED
        BY <1>6, <3>2, <4>1
    <3> QED
      BY <3>1, <3>2
  <2> QED
    BY <2>1, <2>2
<1>8. Eq(g)
  <2> HIDE DEF Eq
  <2> QED
    BY <1>2, <1>7
<1>9. g[K + 1] = 0 /\ \A s \in 1 .. K : g[s] = next(s, g[s + 1])
  <2>1. K + 1 \in 1 .. K + 1 /\ K + 1 > K
    OBVIOUS
  <2> QED
    BY <1>5, <1>8, <2>1
<1> QED
  BY <1>9 DEF StepsBack, next, g

(* The return of a step from the end of the batch is that from the end of its
   trajectory. *)
LEMMA RunningAgrees ==
    ASSUME NEW n \in Nat, NEW rows, AsPlayed(n, rows), NEW t, NEW K \in Nat, K = Played(rows, t, n),
           NEW f, RunsBack(n, rows, t, f), NEW r, StepsBack(K, rows, t, r)
    PROVE  \A i \in 1 .. n : rows[i].traj = t => f[i] = r[rows[i].step]
<1> DEFINE c == [j \in 0 .. n |-> Played(rows, t, j)]
           T(i) == rows[i].traj = t
           P == { m \in 0 .. n : f[n - m + 1] = r[c[n - m] + 1] }
<1>1. \A j \in 1 .. n : j \in 0 .. n /\ j - 1 \in 0 .. n
  OBVIOUS
<1>2. /\ \A j \in 1 .. n : c[j] = c[j - 1] + IF T(j) THEN 1 ELSE 0
      /\ \A j \in 0 .. n : c[j] \in Nat
      /\ c[n] = K
  <2>1. n \in 0 .. n
    OBVIOUS
  <2>2. \A j \in 0 .. n : c[j] = Played(rows, t, j)
    OBVIOUS
  <2>3. c[n] = K
    BY <2>1, <2>2
  <2> HIDE DEF c
  <2>4. \A j \in 1 .. n : c[j] = c[j - 1] + IF T(j) THEN 1 ELSE 0
    <3> TAKE j \in 1 .. n
    <3>1. c[j] = Played(rows, t, j) /\ c[j - 1] = Played(rows, t, j - 1)
      BY <1>1, <2>2
    <3>2. Played(rows, t, j) = Played(rows, t, j - 1) + IF rows[j].traj = t THEN 1 ELSE 0
      BY PlayedCounts
    <3> QED
      BY <3>1, <3>2
  <2>5. \A j \in 0 .. n : c[j] \in Nat
    BY <2>2, PlayedCounts
  <2> QED
    BY <2>3, <2>4, <2>5
<1>3. \A j \in 1 .. n : T(j) => rows[j].step = c[j] /\ c[j] \in 1 .. K /\ RowAt(rows, t, c[j]) = j
  <2>1. \A j \in 1 .. n : T(j) => rows[j].step = c[j]
    BY <1>1 DEF AsPlayed
  <2> HIDE DEF c
  <2> QED
    BY <2>1, RowAtIs
<1> HIDE DEF c, T
<1>4. 0 \in P
  <2>1. n - 0 + 1 = n + 1 /\ n - 0 = n /\ 0 \in 0 .. n
    OBVIOUS
  <2>2. f[n + 1] = 0 /\ r[c[n] + 1] = 0
    BY <1>2 DEF RunsBack, StepsBack
  <2> QED
    BY <2>1, <2>2
<1>5. \A m \in 1 .. n : m - 1 \in P => m \in P
  <2> TAKE m \in 1 .. n
  <2> HAVE m - 1 \in P
  <2> DEFINE j == n - m + 1
  <2>1. f[j + 1] = r[c[j] + 1]
    <3>1. n - (m - 1) = j
      OBVIOUS
    <3> QED
      BY <3>1
  <2>2. j \in 1 .. n /\ n - m = j - 1 /\ m \in 0 .. n /\ n - m + 1 = j
    OBVIOUS
  <2> HIDE DEF j, P
  <2>3. f[j] = IF T(j) THEN rows[j].reward + Gamma * f[j + 1] ELSE f[j + 1]
    BY <2>2 DEF RunsBack, T
  <2>4. c[j] = c[j - 1] + (IF T(j) THEN 1 ELSE 0) /\ c[j - 1] \in Nat /\ c[j] \in Nat
    BY <1>1, <1>2, <2>2
  <2>5. f[j] = r[c[j - 1] + 1]
    <3>1. CASE T(j)
      <4>1. c[j] \in 1 .. K /\ RowAt(rows, t, c[j]) = j
        BY <1>3, <2>2, <3>1
      <4>2. r[c[j]] = rows[RowAt(rows, t, c[j])].reward + Gamma * r[c[j] + 1]
        BY <4>1 DEF StepsBack
      <4>3. c[j - 1] + 1 = c[j]
        BY <2>4, <3>1
      <4> QED
        BY <2>1, <2>3, <3>1, <4>1, <4>2, <4>3
    <3>2. CASE ~T(j)
      <4>1. c[j - 1] = c[j]
        BY <2>4, <3>2
      <4> QED
        BY <2>1, <2>3, <3>2, <4>1
    <3> QED
      BY <3>1, <3>2
  <2> QED
    BY <2>2, <2>5 DEF P
<1> HIDE DEF P
<1>6. \A m \in 0 .. n : m \in P
  BY <1>4, <1>5, UpToInduction
<1>7. \A i \in 1 .. n : T(i) => f[i] = r[c[i]]
  <2> TAKE i \in 1 .. n
  <2> HAVE T(i)
  <2> DEFINE m == n - i + 1
  <2>1. m \in 0 .. n /\ n - m + 1 = i /\ n - m = i - 1
    OBVIOUS
  <2>2. f[i] = r[c[i - 1] + 1]
    BY <1>6, <2>1 DEF P
  <2>3. c[i] = c[i - 1] + 1 /\ c[i - 1] \in Nat
    BY <1>1, <1>2
  <2> QED
    BY <2>2, <2>3
<1> QED
  BY <1>3, <1>7 DEF T

LEMMA ReturnIsPlayed ==
    ASSUME NEW n \in Nat, NEW rows, DOMAIN rows = 1 .. n, Len(rows) = n, AsPlayed(n, rows),
           NEW i \in 1 .. n, NEW row, row.traj = rows[i].traj, row.step = rows[i].step
    PROVE  PlayedReturn(rows, row) = ReturnAt(rows, i)
<1> DEFINE t == rows[i].traj
           K == Played(rows, t, n)
<1>1. K \in Nat /\ K = Cardinality(StepsOf(rows, t))
  BY RowAtIs
<1>2. ReturnAt(rows, i) = RunningOf(n, rows, t)[i]
  BY DEF ReturnAt, RunningOf
<1>3. PlayedReturn(rows, row) = ReturnsOf(Cardinality(StepsOf(rows, t)), rows, t)[rows[i].step]
  BY DEF PlayedReturn, ReturnsOf, RowAt, StepsOf
<1>4. RunsBack(n, rows, t, RunningOf(n, rows, t))
  BY RunningIs
<1>5. StepsBack(K, rows, t, ReturnsOf(K, rows, t))
  BY <1>1, ReturnsAre
<1>6. RunningOf(n, rows, t)[i] = ReturnsOf(K, rows, t)[rows[i].step]
  <2> DEFINE f == RunningOf(n, rows, t)
             r == ReturnsOf(K, rows, t)
  <2>1. RunsBack(n, rows, t, f) /\ StepsBack(K, rows, t, r)
    BY <1>4, <1>5
  <2> HIDE DEF f, r, K
  <2>2. \A j \in 1 .. n : rows[j].traj = t => f[j] = r[rows[j].step]
    BY <1>1, <2>1, RunningAgrees DEF K
  <2> QED
    BY <2>2 DEF f, r
<1> QED
  BY <1>1, <1>2, <1>3, <1>6

-----------------------------------------------------------------------------
(* A sequence of n elements, whatever they are. *)
Whole(n, s) == n \in Nat /\ s = [i \in 1 .. n |-> s[i]]

LEMMA WholeIs ==
    ASSUME NEW n, NEW s, Whole(n, s)
    PROVE  /\ n \in Nat /\ DOMAIN s = 1 .. n /\ Len(s) = n
           /\ s \in Seq(ToSet(s)) /\ s \in Seq({ s[i] : i \in 1 .. n })
<1>1. n \in Nat /\ s = [i \in 1 .. n |-> s[i]]
  BY DEF Whole
<1>2. DOMAIN s = 1 .. n
  BY <1>1
<1> DEFINE V == { s[i] : i \in 1 .. n }
<1>3. ToSet(s) = V
  BY <1>2 DEF ToSet
<1>4. \A i \in 1 .. n : s[i] \in V
  OBVIOUS
<1> HIDE DEF V
<1>5. s \in [1 .. n -> V]
  BY ONLY <1>1, <1>4
<1>6. s \in Seq(V)
  BY <1>1, <1>5
<1>7. Len(s) = n
  BY <1>1, <1>2, <1>6
<1> QED
  BY <1>1, <1>2, <1>3, <1>6, <1>7 DEF V

LEMMA SeqIsWhole ==
    ASSUME NEW X, NEW s \in Seq(X)
    PROVE  Whole(Len(s), s)
BY SeqIsFunction DEF Whole

(* A column is added, and all the others stay. *)
ColumnAdded(n, rows, name, values, new) ==
    /\ Whole(n, new)
    /\ \A i \in 1 .. n :
           /\ DOMAIN new[i] = DOMAIN rows[i] \cup {name} /\ new[i][name] = values[i]
           /\ \A f \in DOMAIN rows[i] : f # name => new[i][f] = rows[i][f]

LEMMA WithColumnIs ==
    ASSUME NEW n \in Nat, NEW rows, DOMAIN rows = 1 .. n, NEW name, NEW values
    PROVE  ColumnAdded(n, rows, name, values, WithColumn(rows, name, values))
<1> DEFINE new == WithColumn(rows, name, values)
           row(i) == [field \in DOMAIN rows[i] \cup {name} |->
                         IF field = name THEN values[i] ELSE rows[i][field]]
<1>1. new = [i \in 1 .. n |-> row(i)]
  BY DEF WithColumn
<1>2. \A i \in 1 .. n : new[i] = row(i)
  BY <1>1
<1>3. Whole(n, new)
  <2> HIDE DEF new, row
  <2> QED
    BY <1>1 DEF Whole
<1>4. \A i \in 1 .. n : /\ DOMAIN row(i) = DOMAIN rows[i] \cup {name}
                        /\ row(i)[name] = values[i]
                        /\ \A f \in DOMAIN rows[i] : f # name => row(i)[f] = rows[i][f]
  OBVIOUS
<1> HIDE DEF row, new
<1>5. ColumnAdded(n, rows, name, values, new)
  BY <1>2, <1>3, <1>4 DEF ColumnAdded
<1> QED
  BY <1>5 DEF new

-----------------------------------------------------------------------------
(* adjust_batch has every row once, or twice if it was chosen. *)
Source(n, dup, i) == IF i <= n THEN i ELSE dup[i - n]
CopiesOf(n, k, dup, c) == { i \in 1 .. n + k : Source(n, dup, i) = c }

LEMMA CopiesAre ==
    ASSUME NEW n \in Nat, NEW rows, Whole(n, rows), NEW k \in Nat, NEW dup \in DistinctChoices(n, k)
    PROVE  /\ Whole(n + k, WithCopies(rows, dup))
           /\ \A i \in 1 .. n + k : /\ Source(n, dup, i) \in 1 .. n
                                    /\ WithCopies(rows, dup)[i] = rows[Source(n, dup, i)]
<1> DEFINE V == ToSet(rows)
           copies == [i \in DOMAIN dup |-> rows[dup[i]]]
<1>1. rows \in Seq(V) /\ Len(rows) = n /\ DOMAIN rows = 1 .. n
  BY WholeIs
<1>2. dup \in [1 .. k -> 1 .. n]
  BY DEF DistinctChoices
<1>3. \A x \in 1 .. n : rows[x] \in V
  BY <1>1
<1>4. copies = [i \in 1 .. k |-> rows[dup[i]]] /\ \A i \in 1 .. k : copies[i] = rows[dup[i]]
  BY <1>2
<1> HIDE DEF V
<1>5. \A i \in 1 .. k : rows[dup[i]] \in V
  BY <1>2, <1>3
<1>6. copies \in Seq(V) /\ Len(copies) = k
  <2>1. copies \in [1 .. k -> V]
    BY <1>4, <1>5
  <2> HIDE DEF copies
  <2> QED
    BY <2>1
<1> DEFINE all == rows \o copies
<1>7. WithCopies(rows, dup) = all
  BY DEF WithCopies
<1> HIDE DEF copies
<1>8. all \in Seq(V) /\ JoinOf(rows, copies, all)
  BY <1>1, <1>6, JoinedAt
<1> HIDE DEF all
<1>9. Len(all) = n + k /\ (\A i \in 1 .. n : all[i] = rows[i]) /\ \A i \in 1 .. k : all[n + i] = copies[i]
  BY <1>1, <1>6, <1>8 DEF JoinOf
<1>10. Whole(n + k, all)
  BY <1>8, <1>9, SeqIsWhole
<1>11. \A i \in 1 .. n + k : Source(n, dup, i) \in 1 .. n /\ all[i] = rows[Source(n, dup, i)]
  <2> TAKE i \in 1 .. n + k
  <2>1. CASE i <= n
    BY <1>9, <2>1 DEF Source
  <2>2. CASE ~(i <= n)
    <3>1. i - n \in 1 .. k /\ n + (i - n) = i
      BY <2>2
    <3>2. Source(n, dup, i) = dup[i - n]
      BY <2>2 DEF Source
    <3> QED
      BY <1>2, <1>4, <1>9, <3>1, <3>2
  <2> QED
    BY <2>1, <2>2
<1> QED
  BY <1>7, <1>10, <1>11

LEMMA PairSize ==
    ASSUME NEW a, NEW b, a # b
    PROVE  Cardinality({a}) = 1 /\ Cardinality({a, b}) = 2
<1>1. IsFiniteSet({a}) /\ Cardinality({a}) = 1
  BY FS_Singleton
<1>2. {a} \cup {b} = {a, b} /\ b \notin {a}
  OBVIOUS
<1>3. Cardinality({a} \cup {b}) = Cardinality({a}) + 1
  BY <1>1, <1>2, FS_AddElement
<1> QED
  BY <1>1, <1>2, <1>3

LEMMA OnceOrTwice ==
    ASSUME NEW n \in Nat, NEW k \in Nat, NEW dup \in DistinctChoices(n, k), NEW c \in 1 .. n
    PROVE  Cardinality(CopiesOf(n, k, dup, c)) \in {1, 2}
<1>1. dup \in [1 .. k -> 1 .. n] /\ \A i, j \in 1 .. k : dup[i] = dup[j] => i = j
  BY DEF DistinctChoices, IsInjective
<1> DEFINE S == CopiesOf(n, k, dup, c)
<1>2. \A i : i \in S <=> i = c \/ (i \in 1 .. n + k /\ ~(i <= n) /\ dup[i - n] = c)
  BY DEF CopiesOf, Source
<1> HIDE DEF S
<1>3. \A i \in 1 .. n + k : ~(i <= n) => i - n \in 1 .. k
  OBVIOUS
<1>4. CASE \E i \in 1 .. n + k : ~(i <= n) /\ dup[i - n] = c
  <2>1. PICK i \in 1 .. n + k : ~(i <= n) /\ dup[i - n] = c
    BY <1>4
  <2>2. \A j \in 1 .. n + k : ~(j <= n) /\ dup[j - n] = c => j = i
    <3> TAKE j \in 1 .. n + k
    <3> HAVE ~(j <= n) /\ dup[j - n] = c
    <3>1. j - n \in 1 .. k /\ i - n \in 1 .. k
      BY <1>3, <2>1
    <3>2. j - n = i - n
      BY <1>1, <2>1, <3>1
    <3> QED
      BY <3>2
  <2>3. c # i
    BY <2>1
  <2>4. \A j : j \in S <=> j = c \/ j = i
    BY <1>2, <2>1, <2>2
  <2>5. S = {c, i}
    BY <2>4
  <2>6. Cardinality({c, i}) = 2
    BY <2>3, PairSize
  <2> QED
    BY <2>5, <2>6 DEF S
<1>5. CASE ~ \E i \in 1 .. n + k : ~(i <= n) /\ dup[i - n] = c
  <2>1. S = {c}
    BY <1>2, <1>5
  <2> QED
    BY <2>1, FS_Singleton DEF S
<1> QED
  BY <1>4, <1>5

(* No two turns that were played have the same name. *)
LEMMA NamesDiffer ==
    ASSUME NEW n \in Nat, NEW rows, AsPlayed(n, rows)
    PROVE  \A c, d \in 1 .. n : Name(rows[c]) = Name(rows[d]) => c = d
<1> SUFFICES ASSUME NEW c \in 1 .. n, NEW d \in 1 .. n, Name(rows[c]) = Name(rows[d]) PROVE c = d
  OBVIOUS
<1> DEFINE t == rows[c].traj
<1>1. rows[d].traj = t /\ rows[d].step = rows[c].step
  BY DEF Name
<1>2. \A i \in 1 .. n : rows[i].traj = t => RowAt(rows, t, rows[i].step) = i
  <2> HIDE DEF t
  <2> QED
    BY RowAtIs
<1> QED
  BY <1>1, <1>2

(* In another order there are as many rows of a name. *)
LEMMA RearrangedTimes ==
    ASSUME NEW X, NEW s \in Seq(X), NEW t \in Seq(X), Rearranged(s, t), NEW name
    PROVE  TimesIn(t, name) = TimesIn(s, name)
<1>1. PICK p \in Rearrangements(s, t) : TRUE
  BY DEF Rearranged
<1>2. /\ p \in [1 .. Len(t) -> 1 .. Len(s)] /\ Bijective(p, 1 .. Len(t), 1 .. Len(s))
      /\ \A i \in 1 .. Len(t) : t[i] = s[p[i]]
  BY <1>1 DEF Rearrangements
<1> DEFINE S == { i \in DOMAIN s : Name(s[i]) = name }
           T == { i \in DOMAIN t : Name(t[i]) = name }
           q == [i \in T |-> p[i]]
<1>3. DOMAIN s = 1 .. Len(s) /\ DOMAIN t = 1 .. Len(t)
  OBVIOUS
<1>4. (\A i : i \in T <=> i \in 1 .. Len(t) /\ Name(t[i]) = name)
      /\ \A i : i \in S <=> i \in 1 .. Len(s) /\ Name(s[i]) = name
  BY <1>3
<1>5. \A i \in T : q[i] = p[i]
  OBVIOUS
<1>a. Len(t) \in Nat
  OBVIOUS
<1>b. DOMAIN q = T /\ q = [i \in T |-> q[i]]
  OBVIOUS
<1> HIDE DEF S, T, q
<1>6. \A i \in T : q[i] \in S
  BY <1>2, <1>4, <1>5
<1>7. q \in [T -> S]
  BY <1>6, <1>b
<1>8. Bijective(q, T, S)
  <2>1. \A x, y \in T : q[x] = q[y] => x = y
    BY <1>2, <1>4, <1>5 DEF Bijective
  <2>2. \A y \in S : \E x \in T : q[x] = y
    BY <1>2, <1>4, <1>5 DEF Bijective
  <2> QED
    BY <1>7, <2>1, <2>2 DEF Bijective
<1>9. IsFiniteSet(T)
  <2>1. IsFiniteSet(1 .. Len(t))
    BY <1>a, FS_Interval
  <2>2. T \subseteq 1 .. Len(t)
    BY <1>4
  <2> QED
    BY <2>1, <2>2, FS_Subset
<1>10. Cardinality(S) = Cardinality(T)
  BY <1>8, <1>9, BijectiveSize
<1> QED
  BY <1>10 DEF TimesIn, S, T

-----------------------------------------------------------------------------
(* What the rows of one micro batch weigh. *)
LEMMA TokensAre ==
    ASSUME NEW n \in Nat \ {0}, NEW X, NEW rows \in Seq(X), Len(rows) = n, Readable(n, rows),
           NEW items \in Seq(1 .. n), Once(items)
    PROVE  Total(LensOf(Reordered(rows, items))) = Weight(n, LensOf(rows), Elements(items))
<1> DEFINE w == LensOf(rows)
           lens == LensOf(Reordered(rows, items))
           m == Len(items)
<1>1. w \in Maps(1 .. n, Nat) /\ \A i \in 1 .. n : w[i] = rows[i].len
  BY LensAre
<1>2. Reordered(rows, items) = [i \in 1 .. m |-> rows[items[i]]]
  <2>1. DOMAIN items = 1 .. m
    OBVIOUS
  <2> QED
    BY <2>1 DEF Reordered
<1>a. m \in Nat /\ \A i \in 1 .. m : items[i] \in 1 .. n
  OBVIOUS
<1>3. lens = [i \in 1 .. m |-> rows[items[i]].len]
  <2> HIDE DEF m
  <2> QED
    BY <1>2 DEF LensOf
<1>4. lens = Mapped(items, w)
  <2>1. \A i \in 1 .. m : w[items[i]] = rows[items[i]].len
    BY <1>1, <1>a
  <2> HIDE DEF lens, w
  <2> QED
    BY <1>3, <2>1 DEF Mapped
<1> HIDE DEF w, lens
<1>5. Mapped(items, w) \in Seq(Nat) /\ Len(Mapped(items, w)) = m
  BY <1>1, MappedType
<1>6. Mapped(items, w) \in Maps(1 .. m, Nat)
  <2>1. \A s \in Seq(Nat) : s \in [1 .. Len(s) -> Nat]
    OBVIOUS
  <2> HIDE DEF m
  <2> QED
    BY <1>5, <2>1 DEF Maps
<1>7. PICK f \in [0 .. m -> Nat] : SumsTo(m, Mapped(items, w), f) /\ Total(Mapped(items, w)) = f[m]
  <2> HIDE DEF m
  <2> QED
    BY <1>6, <1>a, TotalIs
<1>8. f[m] = Weight(n, w, Elements(items))
  BY <1>1, <1>7, WeightOfSequence
<1> QED
  BY <1>4, <1>7, <1>8 DEF lens, w

(* The parts of a partition together weigh the total. *)
LEMMA PartsWeighTotal ==
    ASSUME NEW n \in Nat, NEW w \in Maps(1 .. n, Nat), NEW k \in Nat, NEW ss, ShareOut(n, k, ss),
           NEW m \in Nat, \A p \in 1 .. k : Weight(n, w, Elements(ss[p])) >= m
    PROVE  Total(w) >= k * m
<1> DEFINE S == [p \in 1 .. k |-> Elements(ss[p])]
<1>1. \A p \in 1 .. k : S[p] = Elements(ss[p])
  OBVIOUS
<1>2. /\ \A p \in 1 .. k : \A j \in 1 .. Len(ss[p]) : ss[p][j] \in 1 .. n
      /\ \A p, q \in 1 .. k : \A i \in 1 .. Len(ss[p]) : \A j \in 1 .. Len(ss[q]) :
             ss[p][i] = ss[q][j] => p = q /\ i = j
      /\ \A x \in 1 .. n : \E p \in 1 .. k : IsIn(ss[p], x)
  <2>1. ss \in Seq(Seq(1 .. n)) /\ Len(ss) = k
    BY DEF ShareOut
  <2>2. \A p \in 1 .. k : ss[p] \in Seq(1 .. n)
    <3> DEFINE V == Seq(1 .. n)
    <3> HIDE DEF V
    <3> QED
      BY <2>1 DEF V
  <2>3. \A p \in 1 .. k : \A j \in 1 .. Len(ss[p]) : ss[p][j] \in 1 .. n
    BY <2>2
  <2>4. \A p, q \in 1 .. k : \A i \in 1 .. Len(ss[p]) : \A j \in 1 .. Len(ss[q]) :
             ss[p][i] = ss[q][j] => p = q /\ i = j
    BY <2>1 DEF ShareOut, Apart
  <2>5. \A x \in 1 .. n : \E p \in 1 .. k : IsIn(ss[p], x)
    BY <2>1 DEF ShareOut
  <2> QED
    BY <2>3, <2>4, <2>5
<1>3. \A p, q \in 1 .. k : p # q => Disjoint(S[p], S[q])
  BY <1>1, <1>2, SMTT(30) DEF Disjoint, Elements
<1>4. UNION { S[p] : p \in 1 .. k } = 1 .. n
  <2>1. \A p \in 1 .. k : S[p] \subseteq 1 .. n
    BY <1>1, <1>2 DEF Elements
  <2>2. \A x \in 1 .. n : \E p \in 1 .. k : x \in S[p]
    <3> TAKE x \in 1 .. n
    <3>1. PICK p \in 1 .. k : IsIn(ss[p], x)
      BY <1>2
    <3>2. x \in Elements(ss[p])
      BY <3>1 DEF IsIn, Elements
    <3> QED
      BY <1>1, <3>2
  <2> HIDE DEF S
  <2> QED
    BY <2>1, <2>2
<1>5. \A p \in 1 .. k : Weight(n, w, S[p]) >= m
  BY <1>1
<1> HIDE DEF S
<1>6. Weight(n, w, UNION { S[p] : p \in 1 .. k }) >= k * m
  <2>1. Heavy(n, w, k, S, m) /\ AllDisjoint(k, S)
    BY <1>3, <1>5 DEF Heavy, AllDisjoint
  <2>2. Weight(n, w, Together(k, S)) >= k * m
    BY <2>1, WeightOfMany
  <2> QED
    BY <2>2 DEF Together
<1>7. Total(w) = Weight(n, w, 1 .. n)
  BY TotalIs
<1> QED
  BY <1>4, <1>6, <1>7

(* With as many parts as are needed, even parts are small enough. *)
LEMMA LightParts ==
    ASSUME NEW n \in Nat \ {0}, NEW k \in 1 .. n, NEW d \in Nat, NEW lens \in Lens(n, d), NEW ss,
           ShareOut(n, k, ss), NoneEmpty(k, ss), Even(n, k, lens, d, ss),
           k = n \/ Total(lens) <= k * MaxTokenLen
    PROVE  \A p \in 1 .. k : Weight(n, lens, Elements(ss[p])) <= MaxTokenLen + d
<1> DEFINE W(p) == Weight(n, lens, Elements(ss[p]))
           M == MaxTokenLen
<1>1. M \in Nat \ {0} /\ k \in Nat /\ k > 0
  BY BatchSizesAssumption
<1>2. lens \in Maps(1 .. n, Nat) /\ \A i \in 1 .. n : lens[i] \in Nat /\ lens[i] <= d
  BY DEF Lens, Maps
<1>3. \A A : Weight(n, lens, A) \in Nat
  BY <1>2, WeightIs
<1>4. SUFFICES ASSUME NEW p \in 1 .. k, ~(W(p) <= M + d) PROVE FALSE
  OBVIOUS
<1>5. CASE k = n
  <2>1. ss \in Seq(Seq(1 .. n)) /\ Len(ss) = n /\ Len(ss[p]) = 1
    BY <1>5, PartsOfOne DEF ShareOut
  <2>2. ss[p][1] \in 1 .. n
    <3>1. ss[p] \in Seq(1 .. n)
      <4> DEFINE V == Seq(1 .. n)
      <4> HIDE DEF V
      <4> QED
        BY <1>5, <2>1 DEF V
    <3> QED
      BY <2>1, <3>1
  <2>3. Elements(ss[p]) = {ss[p][1]}
    BY <2>1 DEF Elements
  <2>4. W(p) = lens[ss[p][1]]
    BY <1>2, <2>2, <2>3, WeightOfOne, SMTT(30)
  <2>5. lens[ss[p][1]] <= d /\ lens[ss[p][1]] \in Nat
    BY <1>2, <2>2
  <2> HIDE DEF W, M
  <2> QED
    BY <1>1, <1>4, <2>4, <2>5
<1>6. CASE Total(lens) <= k * M
  <2>1. \A q \in 1 .. k : W(q) >= M + 1
    <3> TAKE q \in 1 .. k
    <3>1. W(p) <= W(q) + d
      BY DEF Even
    <3>2. W(p) \in Nat /\ W(q) \in Nat
      BY <1>3
    <3> HIDE DEF W, M
    <3> QED
      BY <1>1, <1>4, <3>1, <3>2
  <2>2. M + 1 \in Nat
    BY <1>1
  <2>3. Total(lens) >= k * (M + 1)
    <3> HIDE DEF M
    <3> QED
      BY <1>1, <1>2, <2>1, <2>2, PartsWeighTotal
  <2>4. Total(lens) \in Nat
    <3>1. Total(lens) = Weight(n, lens, 1 .. n)
      BY <1>2, TotalIs
    <3> QED
      BY <1>3, <3>1
  <2> HIDE DEF M
  <2>5. k * (M + 1) = k * M + k /\ k * M \in Nat
    BY <1>1
  <2> DEFINE T == Total(lens)
             Z == k * M
  <2>6. T \in Nat /\ Z \in Nat /\ T <= Z /\ T >= Z + k
    BY <1>6, <2>3, <2>4, <2>5
  <2> HIDE DEF T, Z
  <2> QED
    BY <1>1, <2>6
<1> QED
  BY <1>5, <1>6 DEF M

(* The micro batches of all the ranks are light. *)
LightMicros(rows, micros) ==
    \A r \in Ranks :
        LET mine == Chunks(rows, WorldSize)[r]
        IN  \A b \in DOMAIN micros[r] :
                \E i \in DOMAIN mine :
                    Total(LensOf(Reordered(mine, micros[r][b]))) <= MaxTokenLen + mine[i].len

LEMMA MicrosAreLight ==
    ASSUME NEW n \in Nat \ {0}, NEW X, NEW rows \in Seq(X), Even4All(n, rows),
           NEW size \in Nat \ {0}, UseDynamicBsz
    PROVE  LightMicros(rows, MicroBatches(Chunks(rows, WorldSize), size))
<1> DEFINE chunks == Chunks(rows, WorldSize)
           micros == MicroBatches(chunks, size)
<1>1. EveryRank(n, chunks) /\ \A r \in Ranks : chunks[r] \in Seq(X) /\ Len(chunks[r]) = n
  BY ChunksOfRows DEF ChunkAt
<1> HIDE DEF chunks
<1>2. PICK q \in Ranks :
         /\ OwnCounts(chunks)[q] \in 1 .. n
         /\ \A r \in Ranks : OwnCounts(chunks)[r] <= OwnCounts(chunks)[q]
         /\ Shared(n, OwnCounts(chunks)[q], chunks, micros)
  BY <1>1, MicroBatchesShare
<1> DEFINE k == OwnCounts(chunks)[q]
<1>3. k \in 1 .. n
  BY <1>2
<1> HIDE DEF micros
<1>4. ASSUME NEW r \in Ranks
      PROVE  \A b \in DOMAIN micros[r] :
                \E i \in DOMAIN chunks[r] :
                    Total(LensOf(Reordered(chunks[r], micros[r][b]))) <= MaxTokenLen + chunks[r][i].len
  <2> DEFINE mine == chunks[r]
             i == Longest(n, mine)
             d == mine[i].len
             lens == LensOf(mine)
             own == OwnMicroCount(lens, MaxTokenLen)
             T == Total(lens)
             ss == micros[r]
  <2>1. mine \in Seq(X) /\ Len(mine) = n /\ Readable(n, mine) /\ DOMAIN mine = 1 .. n
    BY <1>1 DEF EveryRank, Readable
  <2>2. OwnCounts(chunks)[r] = own
    BY <1>1 DEF OwnCounts, EveryRank
  <2>3. own <= k
    BY <1>2, <2>2
  <2>4. ShareOut(n, k, ss) /\ NoneEmpty(k, ss) /\ Even(n, k, lens, d, ss)
    BY <1>2 DEF Shared
  <2> HIDE DEF mine, own, k, ss
  <2>5. lens \in Lens(n, d) /\ i \in 1 .. n /\ d \in Nat
    BY <2>1, LensAre
  <2>6. own \in 1 .. n /\ T \in Nat /\ (own = n \/ T <= own * MaxTokenLen)
    BY <2>1, OwnCount DEF own
  <2>7. k = n \/ T <= k * MaxTokenLen
    <3> DEFINE M == MaxTokenLen
    <3>1. M \in Nat
      BY BatchSizesAssumption
    <3> HIDE DEF M, T, lens
    <3>2. own \in Nat /\ k \in Nat /\ own <= k
      BY <1>3, <2>3, <2>6
    <3>3. own * M <= k * M /\ own * M \in Nat /\ k * M \in Nat
      <4>1. k * M = own * M + (k - own) * M /\ (k - own) * M \in Nat /\ own * M \in Nat /\ k * M \in Nat
        BY <3>1, <3>2
      <4> DEFINE A == own * M
                 B == (k - own) * M
      <4> HIDE DEF A, B
      <4> QED
        BY <4>1 DEF A, B
    <3>4. own = n => k = n
      BY <1>3, <2>6, <3>2
    <3> DEFINE A == own * M
               B == k * M
    <3>5. T <= A => T <= B
      <4>1. A \in Nat /\ B \in Nat /\ A <= B
        BY <3>3
      <4> HIDE DEF A, B
      <4> QED
        BY <2>6, <4>1
    <3> QED
      BY <2>6, <3>4, <3>5 DEF M
  <2>8. \A b \in 1 .. k : Weight(n, lens, Elements(ss[b])) <= MaxTokenLen + d
    <3> HIDE DEF lens, d, T
    <3>1. n \in Nat \ {0}
      OBVIOUS
    <3> QED
      BY <1>3, <2>4, <2>5, <2>7, LightParts DEF T
  <2>9. DOMAIN ss = 1 .. k /\ \A b \in 1 .. k : ss[b] \in Seq(1 .. n) /\ Once(ss[b])
    <3>1. ss \in Seq(Seq(1 .. n)) /\ Len(ss) = k /\ Apart(ss)
      BY <2>4 DEF ShareOut
    <3>2. DOMAIN ss = 1 .. k /\ \A b \in 1 .. k : ss[b] \in Seq(1 .. n)
      <4> DEFINE V == Seq(1 .. n)
      <4> HIDE DEF V
      <4> QED
        BY <3>1 DEF V
    <3>3. \A b \in 1 .. k : Once(ss[b])
      BY <3>1 DEF Apart, Once
    <3> QED
      BY <3>2, <3>3
  <2>10. \A b \in 1 .. k : Total(LensOf(Reordered(mine, ss[b]))) = Weight(n, lens, Elements(ss[b]))
    BY <2>1, <2>9, TokensAre
  <2>11. \A b \in DOMAIN ss : Total(LensOf(Reordered(mine, ss[b]))) <= MaxTokenLen + mine[i].len
    <3> HIDE DEF lens
    <3> QED
      BY <2>8, <2>9, <2>10
  <2>12. i \in DOMAIN mine
    BY <2>1, <2>5
  <2> HIDE DEF i
  <2>13. \A b \in DOMAIN ss : \E j \in DOMAIN mine : Total(LensOf(Reordered(mine, ss[b]))) <= MaxTokenLen + mine[j].len
    BY <2>11, <2>12
  <2> QED
    BY <2>13 DEF mine, ss
<1> QED
  BY <1>4 DEF LightMicros, chunks, micros

-----------------------------------------------------------------------------
(* What the rollout returned. *)
BaseFields == {"traj", "step", "uid", "obs", "reward", "valid", "len", "generated_by"}
RolloutRows(n, rows) ==
    /\ n \in Nat \ {0} /\ Whole(n, rows) /\ AsPlayed(n, rows)
    /\ \A i \in 1 .. n : DOMAIN rows[i] = BaseFields /\ rows[i].len \in Nat \ {0}

(* The batch that is made of it: m rows for all the ranks, each of them one of
   the n rows with more columns, and no row left out. *)
SameTurn(row, played) == \A f \in BaseFields : row[f] = played[f]
MadeOf(n, played, m, rows) ==
    /\ n \in Nat \ {0} /\ m \in Nat \ {0} /\ m % WorldSize = 0 /\ Whole(m, rows)
    /\ \A i \in 1 .. m : DOMAIN rows[i] = DOMAIN rows[1]
    /\ BaseFields \cup {"step_rewards"} \subseteq DOMAIN rows[1]
    /\ \A i \in 1 .. m : \E c \in 1 .. n : SameTurn(rows[i], played[c])
    /\ \A c \in 1 .. n : TimesIn(rows, Name(played[c])) \in {1, 2}

(* What is right in its columns. *)
HasColumn(rows, column) == column \in DOMAIN rows[1]
ComputedColumns == {"old_log_probs", "ref_log_prob", "values", "token_level_scores"}
Aligned(m, rows) ==
    \A column \in ComputedColumns :
        HasColumn(rows, column) => \A i \in 1 .. m : rows[i][column].of = Name(rows[i])
Returned(m, played, rows) ==
    \A i \in 1 .. m : rows[i].step_rewards =
        PlayedReturn(played, rows[i]) - (IF HasColumn(rows, "step_group") THEN Penalty(rows[i]) ELSE 0)
OnPolicyRows(m, rows) ==
    HasColumn(rows, "old_log_probs") =>
        \A i \in 1 .. m : rows[i].old_log_probs.weights = rows[i].generated_by
Resemble(a, b, enable_similarity) == IF enable_similarity THEN AreSimilar(a, b) ELSE a = b
InGroup(m, rows, i) ==
    /\ rows[rows[i].step_group].uid = rows[i].uid
    /\ Resemble(rows[i].obs, rows[rows[i].step_group].obs, rows[i].by_similarity)
    /\ \A j \in 1 .. m : rows[i].uid = rows[j].uid /\ rows[i].obs = rows[j].obs
                             => rows[i].step_group = rows[j].step_group
    /\ \A j \in 1 .. m :
           (rows[i].step_group = i /\ rows[j].step_group = j /\ j < i /\ rows[i].uid = rows[j].uid)
               => ~Resemble(rows[i].obs, rows[j].obs, rows[i].by_similarity)
Grouped(m, rows) == HasColumn(rows, "step_group") => \A i \in 1 .. m : InGroup(m, rows, i)
GoodBatch(n, played, m, rows) ==
    /\ MadeOf(n, played, m, rows) /\ Aligned(m, rows) /\ Returned(m, played, rows)
    /\ OnPolicyRows(m, rows) /\ Grouped(m, rows)

-----------------------------------------------------------------------------
(* The turn of a row, however many columns it has. *)
LEMMA SameRow ==
    ASSUME NEW a, NEW b, SameTurn(a, b)
    PROVE  /\ Name(a) = Name(b) /\ Penalty(a) = Penalty(b)
           /\ a.traj = b.traj /\ a.step = b.step /\ a.uid = b.uid /\ a.obs = b.obs /\ a.len = b.len
           /\ a.generated_by = b.generated_by
           /\ \A played : PlayedReturn(played, a) = PlayedReturn(played, b)
<1>1. /\ a.traj = b.traj /\ a.step = b.step /\ a.uid = b.uid /\ a.obs = b.obs /\ a.len = b.len
      /\ a.generated_by = b.generated_by /\ a.valid = b.valid
  BY DEF SameTurn, BaseFields
<1>2. \A played : PlayedReturn(played, a) = PlayedReturn(played, b)
  BY <1>1 DEF PlayedReturn
<1> QED
  BY <1>1, <1>2 DEF Name, Penalty

(* Rows with a column more are still those that were played. *)
LEMMA ColumnKeepsTurns ==
    ASSUME NEW n, NEW played, NEW m, NEW rows, MadeOf(n, played, m, rows),
           NEW name, name \notin BaseFields, NEW values, NEW new,
           ColumnAdded(m, rows, name, values, new)
    PROVE  /\ MadeOf(n, played, m, new)
           /\ \A i \in 1 .. m : SameTurn(new[i], rows[i])
           /\ DOMAIN new[1] = DOMAIN rows[1] \cup {name}
<1>1. /\ m \in Nat \ {0} /\ Whole(m, rows) /\ Whole(m, new)
      /\ \A i \in 1 .. m : DOMAIN rows[i] = DOMAIN rows[1]
      /\ BaseFields \subseteq DOMAIN rows[1]
  BY DEF MadeOf, ColumnAdded
<1>2. 1 \in 1 .. m
  BY <1>1
<1>3. \A i \in 1 .. m : DOMAIN new[i] = DOMAIN rows[1] \cup {name}
  BY <1>1 DEF ColumnAdded
<1>4. \A i \in 1 .. m : SameTurn(new[i], rows[i])
  <2> TAKE i \in 1 .. m
  <2>1. BaseFields \subseteq DOMAIN rows[i] /\ \A f \in BaseFields : f # name
    BY <1>1
  <2>2. \A f \in DOMAIN rows[i] : f # name => new[i][f] = rows[i][f]
    BY DEF ColumnAdded
  <2> QED
    BY <2>1, <2>2 DEF SameTurn
<1>5. DOMAIN rows = 1 .. m /\ DOMAIN new = 1 .. m
  BY <1>1, WholeIs
<1>6. \A c : TimesIn(new, c) = TimesIn(rows, c)
  <2> TAKE c
  <2>1. \A i \in 1 .. m : Name(new[i]) = Name(rows[i])
    BY <1>4, SameRow
  <2>2. { i \in DOMAIN new : Name(new[i]) = c } = { i \in DOMAIN rows : Name(rows[i]) = c }
    BY <1>5, <2>1
  <2> QED
    BY <2>2 DEF TimesIn
<1>7. \A i \in 1 .. m : \E c \in 1 .. n : SameTurn(new[i], played[c])
  <2> TAKE i \in 1 .. m
  <2>1. PICK c \in 1 .. n : SameTurn(rows[i], played[c])
    BY DEF MadeOf
  <2>2. SameTurn(new[i], played[c])
    BY <1>4, <2>1 DEF SameTurn
  <2> QED
    BY <2>2
<1>8. \A i \in 1 .. m : DOMAIN new[i] = DOMAIN new[1]
  BY <1>2, <1>3
<1>9. BaseFields \cup {"step_rewards"} \subseteq DOMAIN new[1]
  BY <1>2, <1>3 DEF MadeOf
<1>10. MadeOf(n, played, m, new)
  <2>1. n \in Nat \ {0} /\ m % WorldSize = 0 /\ \A c \in 1 .. n : TimesIn(rows, Name(played[c])) \in {1, 2}
    BY DEF MadeOf
  <2> QED
    BY <1>1, <1>6, <1>7, <1>8, <1>9, <2>1 DEF MadeOf
<1> QED
  BY <1>2, <1>3, <1>4, <1>10

(* A batch is even for all the ranks, and readable. *)
LEMMA MadeOfIsEven ==
    ASSUME NEW n, NEW played, NEW m, NEW rows, MadeOf(n, played, m, rows), RolloutRows(n, played)
    PROVE  /\ rows \in Seq(ToSet(rows)) /\ Len(rows) = m /\ DOMAIN rows = 1 .. m
           /\ \E e \in Nat \ {0} : Even4All(e, rows)
<1>1. m \in Nat \ {0} /\ m % WorldSize = 0 /\ Whole(m, rows)
  BY DEF MadeOf
<1>2. rows \in Seq(ToSet(rows)) /\ Len(rows) = m /\ DOMAIN rows = 1 .. m
  BY <1>1, WholeIs
<1>3. \A i \in 1 .. m : rows[i].len \in Nat \ {0}
  <2> TAKE i \in 1 .. m
  <2>1. PICK c \in 1 .. n : SameTurn(rows[i], played[c])
    BY DEF MadeOf
  <2> QED
    BY <2>1, SameRow DEF RolloutRows
<1>4. WorldSize \in Nat \ {0} /\ m \in Int
  BY <1>1, WorldAssumption
<1> DEFINE e == m \div WorldSize
<1>5. e \in Int /\ m % WorldSize = m - WorldSize * e
  BY <1>4, Division
<1> HIDE DEF e
<1>6. WorldSize * e = m
  <2> DEFINE z == WorldSize * e
  <2>1. z \in Int
    BY <1>4, <1>5
  <2> HIDE DEF z
  <2>2. m - z = 0
    BY <1>1, <1>5 DEF z
  <2>3. z = m
    BY <1>4, <2>1, <2>2
  <2> QED
    BY <2>3 DEF z
<1>7. e \in Nat \ {0}
  <2>1. e <= 0 => WorldSize * e <= 0
    BY <1>4, <1>5
  <2> QED
    BY <1>1, <1>5, <1>6, <2>1
<1>8. Even4All(e, rows)
  BY <1>2, <1>3, <1>6 DEF Even4All, CutInto, Readable
<1> QED
  BY <1>2, <1>7, <1>8

(* The columns that a forward pass adds. *)
ForwardColumns == {"old_log_probs", "ref_log_prob", "values"}
LEMMA ForwardColumn ==
    ASSUME NEW n, NEW played, NEW m, NEW rows, GoodBatch(n, played, m, rows), RolloutRows(n, played),
           ~HasColumn(rows, "step_group"), NEW name \in ForwardColumns,
           NEW size \in Nat \ {0}, NEW w,
           name = "old_log_probs" => \A c \in 1 .. n : played[c].generated_by = w,
           NEW new, new = WithColumn(rows, name, Forward(rows, size, w))
    PROVE  /\ GoodBatch(n, played, m, new) /\ ~HasColumn(new, "step_group")
           /\ \A i \in 1 .. m : Name(new[i]) = Name(rows[i])
<1> DEFINE values == Forward(rows, size, w)
<1>1. MadeOf(n, played, m, rows) /\ rows \in Seq(ToSet(rows)) /\ Len(rows) = m /\ DOMAIN rows = 1 .. m
  BY MadeOfIsEven DEF GoodBatch
<1>2. \A i \in 1 .. m : values[i] = Computed(rows[i], w)
  <2>1. PICK e \in Nat \ {0} : Even4All(e, rows)
    BY <1>1, MadeOfIsEven
  <2>2. values = [i \in 1 .. m |-> Computed(rows[i], w)]
    BY <1>1, <2>1, ForwardIs
  <2> HIDE DEF values
  <2> QED
    BY <2>2
<1>3. \A i \in 1 .. m : values[i].of = Name(rows[i]) /\ values[i].weights = w
  <2> HIDE DEF values
  <2> TAKE i \in 1 .. m
  <2>1. values[i] = [of |-> Name(rows[i]), weights |-> w]
    BY <1>2 DEF Computed
  <2> QED
    BY <2>1
<1>4. ColumnAdded(m, rows, name, values, new)
  BY <1>1, WithColumnIs DEF MadeOf
<1> HIDE DEF values
<1>5. name \notin BaseFields /\ name # "step_rewards" /\ name # "step_group"
      /\ name # "token_level_scores" /\ name \in ComputedColumns
  BY DEF ForwardColumns, BaseFields, ComputedColumns
<1>6. /\ MadeOf(n, played, m, new) /\ \A i \in 1 .. m : SameTurn(new[i], rows[i])
      /\ DOMAIN new[1] = DOMAIN rows[1] \cup {name}
  BY <1>1, <1>4, <1>5, ColumnKeepsTurns
<1>7. \A i \in 1 .. m : /\ new[i][name] = values[i]
                        /\ \A f \in DOMAIN rows[1] : f # name => new[i][f] = rows[i][f]
  BY <1>1, <1>4 DEF ColumnAdded, MadeOf
<1>8. \A i \in 1 .. m : Name(new[i]) = Name(rows[i]) /\ new[i].generated_by = rows[i].generated_by
                        /\ \A p : PlayedReturn(p, new[i]) = PlayedReturn(p, rows[i])
  BY <1>6, SameRow
<1>9. ~HasColumn(new, "step_group")
  BY <1>5, <1>6 DEF HasColumn
<1>10. Aligned(m, new)
  <2> SUFFICES ASSUME NEW column \in ComputedColumns, HasColumn(new, column), NEW i \in 1 .. m
               PROVE  new[i][column].of = Name(new[i])
    BY DEF Aligned
  <2>1. CASE column = name
    BY <1>3, <1>7, <1>8, <2>1
  <2>2. CASE column # name
    <3>1. column \in DOMAIN rows[1]
      BY <1>6, <2>2 DEF HasColumn
    <3>2. rows[i][column].of = Name(rows[i])
      BY <3>1 DEF GoodBatch, Aligned, HasColumn
    <3>3. new[i][column] = rows[i][column]
      BY <1>7, <2>2, <3>1
    <3> QED
      BY <1>8, <3>2, <3>3
  <2> QED
    BY <2>1, <2>2
<1>11. Returned(m, played, new)
  <2> SUFFICES ASSUME NEW i \in 1 .. m
               PROVE  new[i].step_rewards = PlayedReturn(played, new[i]) - 0
    BY <1>9 DEF Returned
  <2>1. new[i].step_rewards = rows[i].step_rewards
    <3>1. "step_rewards" \in DOMAIN rows[1]
      BY <1>1 DEF MadeOf
    <3> QED
      BY <1>5, <1>7, <3>1
  <2>2. rows[i].step_rewards = PlayedReturn(played, rows[i]) - 0
    BY DEF GoodBatch, Returned
  <2> QED
    BY <1>8, <2>1, <2>2
<1>12. OnPolicyRows(m, new)
  <2> SUFFICES ASSUME HasColumn(new, "old_log_probs"), NEW i \in 1 .. m
               PROVE  new[i].old_log_probs.weights = new[i].generated_by
    BY DEF OnPolicyRows
  <2>1. CASE name = "old_log_probs"
    <3>1. PICK c \in 1 .. n : SameTurn(rows[i], played[c])
      BY <1>1 DEF MadeOf
    <3>2. rows[i].generated_by = w
      BY <2>1, <3>1, SameRow
    <3> QED
      BY <1>3, <1>7, <1>8, <2>1, <3>2
  <2>2. CASE name # "old_log_probs"
    <3>1. "old_log_probs" \in DOMAIN rows[1]
      BY <1>6, <2>2 DEF HasColumn
    <3>2. rows[i].old_log_probs.weights = rows[i].generated_by
      BY <3>1 DEF GoodBatch, OnPolicyRows, HasColumn
    <3> QED
      BY <1>7, <1>8, <2>2, <3>1, <3>2
  <2> QED
    BY <2>1, <2>2
<1>13. Grouped(m, new)
  BY <1>9 DEF Grouped
<1> QED
  BY <1>6, <1>8, <1>9, <1>10, <1>11, <1>12, <1>13 DEF GoodBatch

-----------------------------------------------------------------------------
(* The returns of the rows that were played. *)
LEMMA RunningIsInt ==
    ASSUME NEW n \in Nat, NEW rows, AsPlayed(n, rows), NEW t, NEW f, RunsBack(n, rows, t, f)
    PROVE  \A j \in 1 .. n + 1 : f[j] \in Int
<1> DEFINE P == { m \in 0 .. n : f[n + 1 - m] \in Int }
<1>1. 0 \in P
  BY DEF RunsBack
<1>2. \A m \in 1 .. n : m - 1 \in P => m \in P
  <2> TAKE m \in 1 .. n
  <2> HAVE m - 1 \in P
  <2> DEFINE j == n + 1 - m
  <2>1. f[j + 1] \in Int
    <3>1. n + 1 - (m - 1) = j + 1
      OBVIOUS
    <3> QED
      BY <3>1
  <2>2. j \in 1 .. n /\ m \in 0 .. n
    OBVIOUS
  <2> HIDE DEF j, P
  <2>3. f[j] \in Int
    <3>1. f[j] = (IF rows[j].traj = t THEN rows[j].reward + Gamma * f[j + 1] ELSE f[j + 1])
      BY <2>2 DEF RunsBack
    <3>2. rows[j].reward \in Int /\ Gamma \in Int
      BY <2>2, BatchSizesAssumption DEF AsPlayed
    <3> QED
      BY <2>1, <3>1, <3>2
  <2> QED
    BY <2>2, <2>3 DEF j, P
<1> HIDE DEF P
<1>3. \A m \in 0 .. n : m \in P
  BY <1>1, <1>2, UpToInduction
<1>4. \A j \in 1 .. n + 1 : n + 1 - j \in 0 .. n /\ n + 1 - (n + 1 - j) = j
  OBVIOUS
<1> QED
  BY <1>3, <1>4 DEF P

(* The return of a row that was played is a number. *)
LEMMA ReturnOfTurn ==
    ASSUME NEW n, NEW played, RolloutRows(n, played), NEW c \in 1 .. n,
           NEW row, SameTurn(row, played[c])
    PROVE  PlayedReturn(played, row) = ReturnAt(played, c) /\ PlayedReturn(played, row) \in Int
<1>1. n \in Nat /\ AsPlayed(n, played) /\ Whole(n, played)
  BY DEF RolloutRows
<1>2. DOMAIN played = 1 .. n /\ Len(played) = n
  BY <1>1, WholeIs
<1>3. row.traj = played[c].traj /\ row.step = played[c].step
  BY SameRow
<1>4. PlayedReturn(played, row) = ReturnAt(played, c)
  BY <1>1, <1>2, <1>3, ReturnIsPlayed
<1> DEFINE t == played[c].traj
<1>5. ReturnAt(played, c) = RunningOf(n, played, t)[c]
  BY <1>2 DEF ReturnAt, RunningOf
<1> HIDE DEF t
<1>6. RunsBack(n, played, t, RunningOf(n, played, t))
  BY <1>1, RunningIs
<1>7. c \in 1 .. n + 1
  BY <1>1
<1>8. RunningOf(n, played, t)[c] \in Int
  BY <1>1, <1>6, <1>7, RunningIsInt
<1> QED
  BY <1>4, <1>5, <1>8

-----------------------------------------------------------------------------
(* The batch before the first worker call. *)
Fresh(n, played, m, rows) ==
    /\ MadeOf(n, played, m, rows) /\ Returned(m, played, rows)
    /\ \A i \in 1 .. m : DOMAIN rows[i] = BaseFields \cup {"step_rewards"}

LEMMA FreshIsGood ==
    ASSUME NEW n, NEW played, NEW m, NEW rows, Fresh(n, played, m, rows)
    PROVE  GoodBatch(n, played, m, rows) /\ ~HasColumn(rows, "step_group")
<1>1. 1 \in 1 .. m
  BY DEF Fresh, MadeOf
<1>2. DOMAIN rows[1] = BaseFields \cup {"step_rewards"}
  BY <1>1 DEF Fresh
<1>3. \A column \in ComputedColumns \cup {"step_group"} : ~HasColumn(rows, column)
  BY <1>2 DEF HasColumn, ComputedColumns, BaseFields
<1>4. "old_log_probs" \in ComputedColumns
  BY DEF ComputedColumns
<1> QED
  BY <1>3, <1>4 DEF Fresh, GoodBatch, Aligned, OnPolicyRows, Grouped

LEMMA PreparedIsFresh ==
    ASSUME NEW n, NEW played, RolloutRows(n, played),
           NEW dup \in DistinctChoices(n, ToAdd(n))
    PROVE  Fresh(n, played, n + ToAdd(n), Prepared(played, dup))
<1> DEFINE k == ToAdd(n)
           m == n + k
           ret == WithReturns(played)
           rows == Prepared(played, dup)
           values == [i \in DOMAIN played |-> ReturnAt(played, i)]
           src(i) == Source(n, dup, i)
<1>1. n \in Nat \ {0} /\ n \in Nat /\ AsPlayed(n, played) /\ Whole(n, played)
      /\ \A i \in 1 .. n : DOMAIN played[i] = BaseFields
  BY DEF RolloutRows
<1>2. DOMAIN played = 1 .. n
  BY <1>1, WholeIs
<1>3. k \in Nat /\ m % WorldSize = 0
  BY <1>1, AdjustedLength
<1>4. ColumnAdded(n, played, "step_rewards", values, ret)
  BY <1>1, <1>2, WithColumnIs DEF WithReturns
<1>5. \A i \in 1 .. n : values[i] = ReturnAt(played, i)
  BY <1>2
<1> HIDE DEF values
<1>6. rows = WithCopies(ret, dup)
  BY DEF Prepared
<1> HIDE DEF rows, ret, k
<1>7. Whole(n, ret)
  BY <1>4 DEF ColumnAdded
<1>8. Whole(m, rows) /\ \A i \in 1 .. m : src(i) \in 1 .. n /\ rows[i] = ret[src(i)]
  BY <1>1, <1>3, <1>6, <1>7, CopiesAre DEF k
<1> HIDE DEF src
<1>9. \A c \in 1 .. n : /\ SameTurn(ret[c], played[c]) /\ ret[c].step_rewards = ReturnAt(played, c)
                        /\ DOMAIN ret[c] = BaseFields \cup {"step_rewards"}
  <2> TAKE c \in 1 .. n
  <2>1. DOMAIN ret[c] = BaseFields \cup {"step_rewards"}
        /\ ret[c]["step_rewards"] = values[c]
        /\ \A f \in BaseFields : f # "step_rewards" => ret[c][f] = played[c][f]
    BY <1>1, <1>4 DEF ColumnAdded
  <2>2. "step_rewards" \notin BaseFields
    BY DEF BaseFields
  <2> QED
    BY <1>5, <2>1, <2>2 DEF SameTurn
<1>10. \A i \in 1 .. m : SameTurn(rows[i], played[src(i)]) /\ DOMAIN rows[i] = BaseFields \cup {"step_rewards"}
  BY <1>8, <1>9
<1>11. m \in Nat \ {0} /\ 1 \in 1 .. m
  BY <1>1, <1>3
<1>12. \A c \in 1 .. n : TimesIn(rows, Name(played[c])) \in {1, 2}
  <2> TAKE c \in 1 .. n
  <2>1. DOMAIN rows = 1 .. m
    BY <1>8, WholeIs
  <2>2. \A i \in 1 .. m : Name(rows[i]) = Name(played[src(i)])
    BY <1>10, SameRow
  <2>3. \A i \in 1 .. m : Name(rows[i]) = Name(played[c]) <=> src(i) = c
    BY <1>1, <1>8, <2>2, NamesDiffer
  <2>4. { i \in DOMAIN rows : Name(rows[i]) = Name(played[c]) } = CopiesOf(n, k, dup, c)
    <3> HIDE DEF m
    <3>1. CopiesOf(n, k, dup, c) = { i \in 1 .. m : src(i) = c }
      BY DEF CopiesOf, m, src
    <3> QED
      BY <2>1, <2>3, <3>1
  <2>5. Cardinality(CopiesOf(n, k, dup, c)) \in {1, 2}
    BY <1>1, <1>3, OnceOrTwice DEF k
  <2> QED
    BY <2>4, <2>5 DEF TimesIn
<1>13. MadeOf(n, played, m, rows)
  <2>1. \A i \in 1 .. m : DOMAIN rows[i] = DOMAIN rows[1]
    BY <1>10, <1>11
  <2>2. BaseFields \cup {"step_rewards"} \subseteq DOMAIN rows[1]
    BY <1>10, <1>11
  <2>3. \A i \in 1 .. m : \E c \in 1 .. n : SameTurn(rows[i], played[c])
    BY <1>8, <1>10
  <2> HIDE DEF m
  <2> QED
    BY <1>1, <1>3, <1>8, <1>11, <1>12, <2>1, <2>2, <2>3 DEF MadeOf
<1>14. Returned(m, played, rows)
  <2>1. ~HasColumn(rows, "step_group")
    BY <1>10, <1>11 DEF HasColumn, BaseFields
  <2> SUFFICES ASSUME NEW i \in 1 .. m PROVE rows[i].step_rewards = PlayedReturn(played, rows[i]) - 0
    BY <2>1 DEF Returned
  <2>2. rows[i].step_rewards = ReturnAt(played, src(i))
    BY <1>8, <1>9
  <2>3. PlayedReturn(played, rows[i]) = ReturnAt(played, src(i)) /\ PlayedReturn(played, rows[i]) \in Int
    BY <1>8, <1>10, ReturnOfTurn
  <2> QED
    BY <2>2, <2>3
<1>15. Fresh(n, played, m, rows)
  <2> HIDE DEF m
  <2> QED
    BY <1>10, <1>13, <1>14 DEF Fresh
<1> QED
  BY <1>15 DEF k, rows

(* Balancing changes the order only. *)
LEMMA BalancedIsFresh ==
    ASSUME NEW n, NEW played, RolloutRows(n, played), NEW m, NEW rows, Fresh(n, played, m, rows)
    PROVE  Fresh(n, played, m, Balanced(rows)) /\ Len(Balanced(rows)) = m
<1> DEFINE X == ToSet(rows)
           new == Balanced(rows)
<1>1. MadeOf(n, played, m, rows) /\ m \in Nat \ {0} /\ m % WorldSize = 0
  BY DEF Fresh, MadeOf
<1>2. rows \in Seq(X) /\ Len(rows) = m /\ DOMAIN rows = 1 .. m
  BY <1>1, MadeOfIsEven
<1>3. Readable(m, rows)
  <2>1. \A i \in 1 .. m : rows[i].len \in Nat \ {0}
    <3> TAKE i \in 1 .. m
    <3>1. PICK c \in 1 .. n : SameTurn(rows[i], played[c])
      BY <1>1 DEF MadeOf
    <3> QED
      BY <3>1, SameRow DEF RolloutRows
  <2> QED
    BY <1>2, <2>1 DEF Readable
<1> HIDE DEF X
<1>4. new \in Seq(X) /\ Len(new) = m /\ Rearranged(rows, new)
  BY <1>1, <1>2, <1>3, BalancedIs
<1> HIDE DEF new
<1>5. PICK p \in Rearrangements(rows, new) : TRUE
  BY <1>4 DEF Rearranged
<1>6. \A i \in 1 .. m : p[i] \in 1 .. m /\ new[i] = rows[p[i]]
  BY <1>2, <1>4, <1>5 DEF Rearrangements
<1>7. Whole(m, new)
  BY <1>4, SeqIsWhole
<1>8. \A c : TimesIn(new, c) = TimesIn(rows, c)
  BY <1>2, <1>4, RearrangedTimes
<1>9. 1 \in 1 .. m
  BY <1>1
<1>10. \A i \in 1 .. m : DOMAIN new[i] = BaseFields \cup {"step_rewards"}
  BY <1>6 DEF Fresh
<1>11. MadeOf(n, played, m, new)
  <2>1. \A i \in 1 .. m : \E c \in 1 .. n : SameTurn(new[i], played[c])
    BY <1>1, <1>6 DEF MadeOf
  <2>2. \A i \in 1 .. m : DOMAIN new[i] = DOMAIN new[1]
    BY <1>9, <1>10
  <2>3. BaseFields \cup {"step_rewards"} \subseteq DOMAIN new[1]
    BY <1>9, <1>10
  <2>4. n \in Nat \ {0} /\ \A c \in 1 .. n : TimesIn(new, Name(played[c])) \in {1, 2}
    BY <1>1, <1>8 DEF MadeOf
  <2> QED
    BY <1>1, <1>7, <2>1, <2>2, <2>3, <2>4 DEF MadeOf
<1>12. Returned(m, played, new)
  <2>1. HasColumn(new, "step_group") <=> HasColumn(rows, "step_group")
    BY <1>9, <1>10 DEF HasColumn, Fresh
  <2> QED
    BY <1>6, <2>1 DEF Returned, Fresh
<1> QED
  BY <1>4, <1>10, <1>11, <1>12 DEF Fresh, new

-----------------------------------------------------------------------------
(* The columns that compute_advantage adds, one after the other. *)
AdvantageColumns == {"token_level_scores", "step_rewards", "step_group", "by_similarity"}
ScoresAt(m, rows, scores) ==
    \A i \in 1 .. m : scores[i] = [of |-> Name(rows[i]), value |-> scores[i].value]
Scored(rows, scores) ==
    WithColumn(rows, "token_level_scores", [i \in DOMAIN rows |->
        [scores[i] EXCEPT !.value = @ - Penalty(rows[i])]])
Penalised(rows, scores) ==
    WithColumn(Scored(rows, scores), "step_rewards",
               [i \in DOMAIN rows |-> rows[i].step_rewards - Penalty(rows[i])])
InGroups(rows, scores, es) ==
    WithColumn(Penalised(rows, scores), "step_group", StepGroups(rows, es))
Advanced(rows, scores, es) ==
    WithColumn(InGroups(rows, scores, es), "by_similarity", [i \in DOMAIN rows |-> es])

AdvancedTo(m, rows, scores, es, new) ==
    \A i \in 1 .. m :
        /\ SameTurn(new[i], rows[i])
        /\ new[i].token_level_scores = [scores[i] EXCEPT !.value = @ - Penalty(rows[i])]
        /\ new[i].step_rewards = rows[i].step_rewards - Penalty(rows[i])
        /\ new[i].step_group = StepGroups(rows, es)[i]
        /\ new[i].by_similarity = es
        /\ \A f \in DOMAIN rows[1] : f \notin AdvantageColumns => new[i][f] = rows[i][f]

LEMMA AdvancedIs ==
    ASSUME NEW n, NEW played, NEW m, NEW rows, MadeOf(n, played, m, rows), NEW scores, NEW es
    PROVE  /\ MadeOf(n, played, m, Advanced(rows, scores, es))
           /\ DOMAIN Advanced(rows, scores, es)[1] = DOMAIN rows[1] \cup AdvantageColumns
           /\ AdvancedTo(m, rows, scores, es, Advanced(rows, scores, es))
<1> DEFINE v1 == [i \in DOMAIN rows |-> [scores[i] EXCEPT !.value = @ - Penalty(rows[i])]]
           v2 == [i \in DOMAIN rows |-> rows[i].step_rewards - Penalty(rows[i])]
           v3 == StepGroups(rows, es)
           v4 == [i \in DOMAIN rows |-> es]
           r1 == Scored(rows, scores)
           r2 == Penalised(rows, scores)
           r3 == InGroups(rows, scores, es)
           r4 == Advanced(rows, scores, es)
<1>1. m \in Nat /\ Whole(m, rows)
  BY DEF MadeOf
<1>2. DOMAIN rows = 1 .. m
  BY <1>1, WholeIs
<1>3. \A i \in 1 .. m : /\ v1[i] = [scores[i] EXCEPT !.value = @ - Penalty(rows[i])]
                        /\ v2[i] = rows[i].step_rewards - Penalty(rows[i])
                        /\ v4[i] = es
  BY <1>2
<1>4. r1 = WithColumn(rows, "token_level_scores", v1) /\ r2 = WithColumn(r1, "step_rewards", v2)
      /\ r3 = WithColumn(r2, "step_group", v3) /\ r4 = WithColumn(r3, "by_similarity", v4)
  BY DEF Scored, Penalised, InGroups, Advanced
<1> HIDE DEF v1, v2, v3, v4, r1, r2, r3, r4
<1>5. AdvantageColumns \cap BaseFields = {}
  BY DEF AdvantageColumns, BaseFields
<1>6. "token_level_scores" \notin BaseFields /\ "step_rewards" \notin BaseFields
      /\ "step_group" \notin BaseFields /\ "by_similarity" \notin BaseFields
  BY DEF BaseFields
<1>7. ColumnAdded(m, rows, "token_level_scores", v1, r1)
  BY <1>1, <1>2, <1>4, WithColumnIs
<1>8. /\ MadeOf(n, played, m, r1) /\ DOMAIN r1[1] = DOMAIN rows[1] \cup {"token_level_scores"}
      /\ \A i \in 1 .. m : SameTurn(r1[i], rows[i])
  BY <1>6, <1>7, ColumnKeepsTurns
<1>9. ColumnAdded(m, r1, "step_rewards", v2, r2)
  <2>1. DOMAIN r1 = 1 .. m
    BY <1>8, WholeIs DEF MadeOf
  <2> QED
    BY <1>1, <1>4, <2>1, WithColumnIs
<1>10. /\ MadeOf(n, played, m, r2) /\ DOMAIN r2[1] = DOMAIN r1[1] \cup {"step_rewards"}
       /\ \A i \in 1 .. m : SameTurn(r2[i], r1[i])
  BY <1>6, <1>8, <1>9, ColumnKeepsTurns
<1>11. ColumnAdded(m, r2, "step_group", v3, r3)
  <2>1. DOMAIN r2 = 1 .. m
    BY <1>10, WholeIs DEF MadeOf
  <2> QED
    BY <1>1, <1>4, <2>1, WithColumnIs
<1>12. /\ MadeOf(n, played, m, r3) /\ DOMAIN r3[1] = DOMAIN r2[1] \cup {"step_group"}
       /\ \A i \in 1 .. m : SameTurn(r3[i], r2[i])
  BY <1>6, <1>10, <1>11, ColumnKeepsTurns
<1>13. ColumnAdded(m, r3, "by_similarity", v4, r4)
  <2>1. DOMAIN r3 = 1 .. m
    BY <1>12, WholeIs DEF MadeOf
  <2> QED
    BY <1>1, <1>4, <2>1, WithColumnIs
<1>14. /\ MadeOf(n, played, m, r4) /\ DOMAIN r4[1] = DOMAIN r3[1] \cup {"by_similarity"}
       /\ \A i \in 1 .. m : SameTurn(r4[i], r3[i])
  BY <1>6, <1>12, <1>13, ColumnKeepsTurns
<1>15. DOMAIN r4[1] = DOMAIN rows[1] \cup AdvantageColumns
  BY <1>8, <1>10, <1>12, <1>14 DEF AdvantageColumns
<1>16. \A i \in 1 .. m : DOMAIN rows[i] = DOMAIN rows[1] /\ DOMAIN r1[i] = DOMAIN r1[1]
                         /\ DOMAIN r2[i] = DOMAIN r2[1] /\ DOMAIN r3[i] = DOMAIN r3[1]
  BY <1>8, <1>10, <1>12 DEF MadeOf
<1>17. ASSUME NEW i \in 1 .. m
       PROVE  /\ SameTurn(r4[i], rows[i])
              /\ r4[i].token_level_scores = v1[i] /\ r4[i].step_rewards = v2[i]
              /\ r4[i].step_group = v3[i] /\ r4[i].by_similarity = v4[i]
              /\ \A f \in DOMAIN rows[1] : f \notin AdvantageColumns => r4[i][f] = rows[i][f]
  <2>1. SameTurn(r4[i], rows[i])
    BY <1>8, <1>10, <1>12, <1>14 DEF SameTurn
  <2>2. r1[i].token_level_scores = v1[i]
        /\ \A f \in DOMAIN rows[1] : f # "token_level_scores" => r1[i][f] = rows[i][f]
    BY <1>7, <1>16 DEF ColumnAdded
  <2>3. r2[i].step_rewards = v2[i]
        /\ \A f \in DOMAIN r1[1] : f # "step_rewards" => r2[i][f] = r1[i][f]
    BY <1>9, <1>16 DEF ColumnAdded
  <2>4. r3[i].step_group = v3[i]
        /\ \A f \in DOMAIN r2[1] : f # "step_group" => r3[i][f] = r2[i][f]
    BY <1>11, <1>16 DEF ColumnAdded
  <2>5. r4[i].by_similarity = v4[i]
        /\ \A f \in DOMAIN r3[1] : f # "by_similarity" => r4[i][f] = r3[i][f]
    BY <1>13, <1>16 DEF ColumnAdded
  <2>6. r4[i].token_level_scores = v1[i]
    <3>1. "token_level_scores" \in DOMAIN r1[1] /\ "token_level_scores" \in DOMAIN r2[1]
          /\ "token_level_scores" \in DOMAIN r3[1]
      BY <1>8, <1>10, <1>12
    <3> QED
      BY <2>2, <2>3, <2>4, <2>5, <3>1
  <2>7. r4[i].step_rewards = v2[i]
    <3>1. "step_rewards" \in DOMAIN r2[1] /\ "step_rewards" \in DOMAIN r3[1]
      BY <1>10, <1>12
    <3> QED
      BY <2>3, <2>4, <2>5, <3>1
  <2>8. r4[i].step_group = v3[i]
    <3>1. "step_group" \in DOMAIN r3[1]
      BY <1>12
    <3> QED
      BY <2>4, <2>5, <3>1
  <2>9. \A f \in DOMAIN rows[1] : f \notin AdvantageColumns => r4[i][f] = rows[i][f]
    <3> TAKE f \in DOMAIN rows[1]
    <3> HAVE f \notin AdvantageColumns
    <3>1. f # "token_level_scores" /\ f # "step_rewards" /\ f # "step_group" /\ f # "by_similarity"
      BY DEF AdvantageColumns
    <3>2. f \in DOMAIN r1[1] /\ f \in DOMAIN r2[1] /\ f \in DOMAIN r3[1]
      BY <1>8, <1>10, <1>12
    <3> QED
      BY <2>2, <2>3, <2>4, <2>5, <3>1, <3>2
  <2> QED
    BY <2>1, <2>5, <2>6, <2>7, <2>8, <2>9
<1>18. AdvancedTo(m, rows, scores, es, r4)
  BY <1>3, <1>17 DEF AdvancedTo, v3
<1> QED
  BY <1>14, <1>15, <1>18 DEF r4

(* Rows of one name are of one prompt and observation. *)
LEMMA OneName ==
    ASSUME NEW n, NEW played, RolloutRows(n, played), NEW m, NEW rows, MadeOf(n, played, m, rows),
           NEW i \in 1 .. m, NEW j \in 1 .. m, Name(rows[i]) = Name(rows[j])
    PROVE  rows[i].uid = rows[j].uid /\ rows[i].obs = rows[j].obs
<1>1. PICK c \in 1 .. n : SameTurn(rows[i], played[c])
  BY DEF MadeOf
<1>2. PICK d \in 1 .. n : SameTurn(rows[j], played[d])
  BY DEF MadeOf
<1>3. Name(played[c]) = Name(played[d])
  BY <1>1, <1>2, SameRow
<1>4. c = d
  BY <1>3, NamesDiffer DEF RolloutRows
<1> QED
  BY <1>1, <1>2, <1>4, SameRow

LEMMA AdvancedIsGood ==
    ASSUME NEW n, NEW played, RolloutRows(n, played), NEW m, NEW rows, GoodBatch(n, played, m, rows),
           ~HasColumn(rows, "step_group"), NEW scores, ScoresAt(m, rows, scores), NEW es,
           NEW new, new = Advanced(rows, scores, es)
    PROVE  GoodBatch(n, played, m, new)
<1>1. MadeOf(n, played, m, rows)
  BY DEF GoodBatch
<1>2. /\ MadeOf(n, played, m, new)
      /\ DOMAIN new[1] = DOMAIN rows[1] \cup AdvantageColumns
      /\ AdvancedTo(m, rows, scores, es, new)
  BY <1>1, AdvancedIs
<1>3. \A i \in 1 .. m : SameTurn(new[i], rows[i]) /\ Name(new[i]) = Name(rows[i])
                        /\ Penalty(new[i]) = Penalty(rows[i])
                        /\ new[i].uid = rows[i].uid /\ new[i].obs = rows[i].obs
                        /\ new[i].generated_by = rows[i].generated_by
                        /\ \A p : PlayedReturn(p, new[i]) = PlayedReturn(p, rows[i])
  <2> TAKE i \in 1 .. m
  <2>1. SameTurn(new[i], rows[i])
    BY <1>2 DEF AdvancedTo
  <2> QED
    BY <2>1, SameRow
<1>4. Aligned(m, new)
  <2> SUFFICES ASSUME NEW column \in ComputedColumns, HasColumn(new, column), NEW i \in 1 .. m
               PROVE  new[i][column].of = Name(new[i])
    BY DEF Aligned
  <2>1. CASE column = "token_level_scores"
    <3>1. new[i].token_level_scores = [scores[i] EXCEPT !.value = @ - Penalty(rows[i])]
      BY <1>2 DEF AdvancedTo
    <3>2. scores[i] = [of |-> Name(rows[i]), value |-> scores[i].value]
      BY DEF ScoresAt
    <3>3. new[i].token_level_scores.of = Name(rows[i])
      BY <3>1, <3>2
    <3> QED
      BY <1>3, <2>1, <3>3
  <2>2. CASE column # "token_level_scores"
    <3>1. column \notin AdvantageColumns
      BY <2>2 DEF AdvantageColumns, ComputedColumns
    <3>2. column \in DOMAIN rows[1]
      BY <1>2, <3>1 DEF HasColumn
    <3>3. rows[i][column].of = Name(rows[i])
      BY <3>2 DEF GoodBatch, Aligned, HasColumn
    <3>4. new[i][column] = rows[i][column]
      BY <1>2, <3>1, <3>2 DEF AdvancedTo
    <3> QED
      BY <1>3, <3>3, <3>4
  <2> QED
    BY <2>1, <2>2
<1>5. HasColumn(new, "step_group")
  BY <1>2 DEF HasColumn, AdvantageColumns
<1>6. Returned(m, played, new)
  <2> SUFFICES ASSUME NEW i \in 1 .. m
               PROVE  new[i].step_rewards = PlayedReturn(played, new[i]) - Penalty(new[i])
    BY <1>5 DEF Returned
  <2>1. new[i].step_rewards = rows[i].step_rewards - Penalty(rows[i])
    BY <1>2 DEF AdvancedTo
  <2>2. rows[i].step_rewards = PlayedReturn(played, rows[i]) - 0
    BY DEF GoodBatch, Returned
  <2>3. PICK c \in 1 .. n : SameTurn(rows[i], played[c])
    BY <1>1 DEF MadeOf
  <2>4. PlayedReturn(played, rows[i]) \in Int
    BY <2>3, ReturnOfTurn
  <2>5. rows[i].step_rewards = PlayedReturn(played, rows[i])
    BY <2>2, <2>4
  <2> QED
    BY <1>3, <2>1, <2>5
<1>7. OnPolicyRows(m, new)
  <2> SUFFICES ASSUME HasColumn(new, "old_log_probs"), NEW i \in 1 .. m
               PROVE  new[i].old_log_probs.weights = new[i].generated_by
    BY DEF OnPolicyRows
  <2>1. "old_log_probs" \notin AdvantageColumns
    BY DEF AdvantageColumns
  <2>2. "old_log_probs" \in DOMAIN rows[1]
    BY <1>2, <2>1 DEF HasColumn
  <2>3. rows[i].old_log_probs.weights = rows[i].generated_by
    BY <2>2 DEF GoodBatch, OnPolicyRows, HasColumn
  <2>4. new[i].old_log_probs = rows[i].old_log_probs
    BY <1>2, <2>1, <2>2 DEF AdvancedTo
  <2> QED
    BY <1>3, <2>3, <2>4
<1>8. Grouped(m, new)
  <2> DEFINE g == StepGroups(rows, es)
  <2>1. GroupFacts(m, rows, es, g)
    <3>1. m \in Nat /\ Len(rows) = m /\ DOMAIN rows = 1 .. m
      BY <1>1, WholeIs DEF MadeOf
    <3> QED
      BY <3>1, StepGroupsAre
  <2>2. \A i \in 1 .. m : new[i].step_group = g[i] /\ new[i].by_similarity = es
    BY <1>2 DEF AdvancedTo
  <2> HIDE DEF g
  <2>3. \A a, b : Joins(a, b, es) <=> a.uid = b.uid /\ Resemble(a.obs, b.obs, es)
    BY DEF Joins, SamePrompt, Resemble
  <2>4. ASSUME NEW i \in 1 .. m PROVE InGroup(m, new, i)
    <3>1. g[i] \in 1 .. m /\ Joins(rows[i], rows[g[i]], es)
      BY <2>1 DEF GroupFacts
    <3>2. rows[i].uid = rows[g[i]].uid /\ Resemble(rows[i].obs, rows[g[i]].obs, es)
      BY <2>3, <3>1
    <3>3. /\ new[new[i].step_group].uid = new[i].uid
          /\ Resemble(new[i].obs, new[new[i].step_group].obs, new[i].by_similarity)
      BY <1>3, <2>2, <3>1, <3>2
    <3>4. \A j \in 1 .. m : new[i].uid = new[j].uid /\ new[i].obs = new[j].obs
                               => new[i].step_group = new[j].step_group
      <4> TAKE j \in 1 .. m
      <4> HAVE new[i].uid = new[j].uid /\ new[i].obs = new[j].obs
      <4>2. rows[i].uid = rows[j].uid /\ rows[i].obs = rows[j].obs
        BY <1>3
      <4>3. g[i] = g[j]
        BY <2>1, <4>2 DEF GroupFacts
      <4> QED
        BY <2>2, <4>3
    <3>5. \A j \in 1 .. m :
              (new[i].step_group = i /\ new[j].step_group = j /\ j < i /\ new[i].uid = new[j].uid)
                  => ~Resemble(new[i].obs, new[j].obs, new[i].by_similarity)
      <4> SUFFICES ASSUME NEW j \in 1 .. m, new[i].step_group = i, new[j].step_group = j, j < i,
                          new[i].uid = new[j].uid
                   PROVE  ~Resemble(new[i].obs, new[j].obs, new[i].by_similarity)
        OBVIOUS
      <4>1. g[i] = i /\ g[j] = j
        BY <2>2
      <4>2. ~Joins(rows[i], rows[j], es)
        BY <2>1, <4>1 DEF GroupFacts
      <4>3. rows[i].uid = rows[j].uid
        BY <1>3
      <4>4. ~Resemble(rows[i].obs, rows[j].obs, es)
        BY <2>3, <4>2, <4>3
      <4> QED
        BY <1>3, <2>2, <4>4
    <3> QED
      BY <3>3, <3>4, <3>5 DEF InGroup
  <2> QED
    BY <2>4 DEF Grouped
<1> QED
  BY <1>2, <1>4, <1>6, <1>7, <1>8 DEF GoodBatch

-----------------------------------------------------------------------------
(* The rows of a rollout, with the weights that generated them. *)
LEMMA RolloutIs ==
    ASSUME NEW b \in Batches, NEW values, NEW new, new = WithColumn(b, "generated_by", values)
    PROVE  /\ RolloutRows(Len(b), new) /\ Len(new) = Len(b)
           /\ \A i \in 1 .. Len(b) : new[i].generated_by = values[i]
<1> DEFINE n == Len(b)
           X == ToSet(b)
<1>1. /\ b # <<>> /\ b \in Seq(X)
      /\ \A i \in DOMAIN b :
             /\ DOMAIN b[i] = {"traj", "step", "uid", "obs", "reward", "valid", "len"}
             /\ b[i].reward \in Int /\ b[i].len \in Nat \ {0}
             /\ b[i].step = Cardinality({ j \in 1 .. i : b[j].traj = b[i].traj })
  BY BatchesAssumption
<1> HIDE DEF X
<1>2. n \in Nat \ {0} /\ DOMAIN b = 1 .. n
  BY <1>1
<1>3. ColumnAdded(n, b, "generated_by", values, new)
  BY <1>2, WithColumnIs
<1> HIDE DEF n
<1>4. \A i \in 1 .. n :
          /\ DOMAIN new[i] = BaseFields /\ new[i].generated_by = values[i]
          /\ new[i].reward = b[i].reward /\ new[i].len = b[i].len /\ new[i].step = b[i].step
          /\ new[i].traj = b[i].traj
  <2> TAKE i \in 1 .. n
  <2>1. DOMAIN b[i] = {"traj", "step", "uid", "obs", "reward", "valid", "len"}
    BY <1>1, <1>2
  <2>2. /\ DOMAIN new[i] = DOMAIN b[i] \cup {"generated_by"} /\ new[i]["generated_by"] = values[i]
        /\ \A f \in DOMAIN b[i] : f # "generated_by" => new[i][f] = b[i][f]
    BY <1>3 DEF ColumnAdded
  <2>3. DOMAIN new[i] = BaseFields
    BY <2>1, <2>2 DEF BaseFields
  <2> QED
    BY <2>1, <2>2, <2>3
<1>5. Whole(n, new) /\ DOMAIN new = 1 .. n /\ Len(new) = n
  BY <1>3, WholeIs DEF ColumnAdded
<1>6. \A i \in 1 .. n : new[i].step = Played(new, new[i].traj, i)
  <2> TAKE i \in 1 .. n
  <2>1. \A j \in 1 .. i : j \in 1 .. n
    BY <1>2
  <2>2. PlayedBy(new, new[i].traj, i) = { j \in 1 .. i : b[j].traj = b[i].traj }
    BY <1>4, <2>1 DEF PlayedBy
  <2> QED
    BY <1>1, <1>2, <1>4, <2>2 DEF Played
<1>7. AsPlayed(n, new)
  BY <1>1, <1>2, <1>4, <1>5, <1>6 DEF AsPlayed
<1>8. \A i \in 1 .. n : DOMAIN new[i] = BaseFields /\ new[i].len \in Nat \ {0}
  BY <1>1, <1>2, <1>4
<1>9. RolloutRows(n, new)
  BY <1>2, <1>5, <1>7, <1>8 DEF RolloutRows
<1> QED
  BY <1>4, <1>5, <1>9 DEF n

-----------------------------------------------------------------------------
(* The workers. *)
WorkersNext == \E m \in Methods : Begin(m) \/ Run(m) \/ End(m)

Busy(m) == method \notin {"none", "generate_sequences", "compute_ref_log_prob"}
           /\ m = ModelOf(method)

(* Where everything is, with the optimizer that a checkpoint brings back. *)
Placed ==
    /\ ran => method # "none"
    /\ engine.awake = (method = "generate_sequences")
    /\ \A m \in Models :
          /\ m \in OffloadParam => params[m] = IF Busy(m) THEN "gpu" ELSE "cpu"
          /\ m \notin OffloadParam => params[m] = "gpu"
          /\ m \in OffloadOptimizer => optimizer[m] =
                 IF Busy(m) /\ (method \in UpdateMethods \/ (method \in LoadMethods /\ ran))
                 THEN "gpu" ELSE "cpu"
          /\ m \notin OffloadOptimizer => optimizer[m] = "gpu"

(* The streams that are in use, and those that are kept meanwhile. *)
Trained(r) == [of |-> "training", seed |-> r, drawn |-> updates["actor"] + updates["critic"]]
Streams ==
    /\ \A r \in Ranks : gen_random_states[r].of = "generation"
    /\ \A r, q \in Ranks : TpGroup(q) = TpGroup(r) => gen_random_states[q] = gen_random_states[r]
    /\ method = "generate_sequences" =>
          /\ \A r \in Ranks : rng[r].of = "generation" /\ torch_random_states[r] = Trained(r)
          /\ \A r, q \in Ranks : TpGroup(q) = TpGroup(r) => rng[q] = rng[r]
    /\ method # "generate_sequences" => \A r \in Ranks : rng[r] = Trained(r)

WorkersInv == WorkersTypeOK /\ Placed /\ Streams

-----------------------------------------------------------------------------
(* The types of the state of the workers. *)
LEMMA MethodFacts ==
    /\ "none" \notin Methods
    /\ UpdateMethods \subseteq Methods /\ LoadMethods \subseteq Methods
    /\ "generate_sequences" \notin UpdateMethods \cup LoadMethods
    /\ "compute_ref_log_prob" \notin UpdateMethods \cup LoadMethods
    /\ UpdateMethods \cap LoadMethods = {}
    /\ \A m \in Methods : ModelOf(m) \in Models
    /\ ModelOf("update_actor") = "actor" /\ ModelOf("update_critic") = "critic"
    /\ UpdateMethods = {"update_actor", "update_critic"}
BY DEF Methods, UpdateMethods, LoadMethods, ModelOf, Models

LEMMA RanksAreNat == \A r \in Ranks : r \in Nat /\ TpGroup(r) \in Nat
BY WorldAssumption DEF Ranks, TpGroup

LEMMA WorkersInitInv == WorkersInit => WorkersInv
<1> SUFFICES ASSUME WorkersInit PROVE WorkersInv
  OBVIOUS
<1>1. \A r \in Ranks : /\ TrainingStream(r) \in RandomState(Nat)
                       /\ GenerationStream(r) \in RandomState(Nat)
  BY RanksAreNat DEF TrainingStream, GenerationStream, GenSeed, RandomState
<1>2. WorkersTypeOK
  BY <1>1 DEF WorkersInit, WorkersTypeOK, Place
<1>3. Placed
  BY DEF WorkersInit, Placed, Busy
<1>4. Streams
  <2>1. updates["actor"] + updates["critic"] = 0
    BY DEF WorkersInit, Models
  <2> QED
    BY <2>1 DEF WorkersInit, Streams, Trained, TrainingStream, GenerationStream, GenSeed
<1> QED
  BY <1>2, <1>3, <1>4 DEF WorkersInv

LEMMA DrawnStates ==
    ASSUME NEW states \in [Ranks -> RandomState(Nat)]
    PROVE  /\ Drawn(states) \in [Ranks -> RandomState(Nat)]
           /\ \A r \in Ranks : Drawn(states)[r] = [of |-> states[r].of, seed |-> states[r].seed,
                                                   drawn |-> states[r].drawn + 1]
<1> SUFFICES ASSUME NEW r \in Ranks
             PROVE  /\ [states[r] EXCEPT !.drawn = @ + 1] \in RandomState(Nat)
                    /\ [states[r] EXCEPT !.drawn = @ + 1]
                         = [of |-> states[r].of, seed |-> states[r].seed,
                            drawn |-> states[r].drawn + 1]
  BY DEF Drawn
<1>1. states[r] \in RandomState(Nat)
  OBVIOUS
<1> QED
  BY <1>1 DEF RandomState

LEMMA BeginTypes == ASSUME WorkersTypeOK, NEW m \in Methods, Begin(m) PROVE WorkersTypeOK'
<1> USE DEF WorkersTypeOK
<1>1. CASE m = "generate_sequences"
  <2>1. engine' = [awake |-> TRUE, weights |-> updates["actor"]] /\ updates["actor"] \in Nat
    BY <1>1 DEF Begin, Enter, WokenUp, Models
  <2>2. engine' \in [awake : BOOLEAN, weights : Nat \cup {-1}]
    BY <2>1
  <2>3. params' \in [Models -> Place]
    BY <1>1 DEF Begin, Enter, Place
  <2>4. rng' = gen_random_states /\ torch_random_states' = rng
        /\ UNCHANGED <<optimizer, updates, gen_random_states>>
    BY <1>1 DEF Begin, Enter
  <2>5. method' = m /\ ran' = ran
    BY DEF Begin
  <2> QED
    BY <2>2, <2>3, <2>4, <2>5
<1>2. CASE m = "compute_ref_log_prob"
  BY <1>2 DEF Begin
<1>3. CASE m \notin {"generate_sequences", "compute_ref_log_prob"}
  BY <1>3 DEF Begin, Load, Place
<1> QED
  BY <1>1, <1>2, <1>3

LEMMA RunTypes == ASSUME WorkersTypeOK, NEW m \in Methods, Run(m) PROVE WorkersTypeOK'
<1>1. rng' \in [Ranks -> RandomState(Nat)]
  BY DrawnStates DEF WorkersTypeOK, Run
<1>2. updates' \in [Models -> Nat]
  BY MethodFacts DEF WorkersTypeOK, Run
<1>3. optimizer' \in [Models -> Place]
  BY DEF WorkersTypeOK, Run, Place
<1> QED
  BY <1>1, <1>2, <1>3 DEF WorkersTypeOK, Run

LEMMA EndTypes == ASSUME WorkersTypeOK, NEW m \in Methods, End(m) PROVE WorkersTypeOK'
<1> USE DEF WorkersTypeOK
<1>1. CASE m = "generate_sequences"
  <2>1. engine' = [engine EXCEPT !.awake = FALSE]
    BY <1>1 DEF End, Exit
  <2>2. engine' \in [awake : BOOLEAN, weights : Nat \cup {-1}]
    BY <2>1
  <2>3. /\ gen_random_states' = rng /\ rng' = torch_random_states
        /\ UNCHANGED <<params, optimizer, updates, torch_random_states>>
    BY <1>1 DEF End, Exit, KeptStates
  <2>4. method' = "none" /\ ran' = FALSE
    BY DEF End
  <2> QED
    BY <2>2, <2>3, <2>4
<1>2. CASE m = "compute_ref_log_prob"
  BY <1>2 DEF End
<1>3. CASE m \notin {"generate_sequences", "compute_ref_log_prob"}
  <2>1. params' \in [Models -> Place] /\ optimizer' \in [Models -> Place]
    BY <1>3 DEF End, Offload, Place
  <2>2. UNCHANGED <<updates, engine, rng, torch_random_states, gen_random_states>>
    BY <1>3 DEF End, Offload
  <2>3. method' = "none" /\ ran' = FALSE
    BY DEF End
  <2> QED
    BY <2>1, <2>2, <2>3
<1> QED
  BY <1>1, <1>2, <1>3

-----------------------------------------------------------------------------
(* The places of models and optimizers. *)
LEMMA BeginPlaces ==
    ASSUME WorkersTypeOK, Placed, NEW m \in Methods, Begin(m)
    PROVE  Placed'
<1>1. method = "none" /\ method' = m /\ ran' = ran /\ ~ran
  BY DEF Begin, Placed, WorkersTypeOK
<1>2. \A n \in Models : ~Busy(n)
  BY <1>1 DEF Busy
<1>3. params \in [Models -> Place] /\ optimizer \in [Models -> Place]
  BY DEF WorkersTypeOK
<1>4. CASE m = "generate_sequences"
  <2>1. engine'.awake = TRUE /\ optimizer' = optimizer
    BY <1>4 DEF Begin, Enter, WokenUp
  <2>2. \A n \in Models : params'[n] = params[n]
    BY <1>2, <1>3, <1>4 DEF Begin, Enter, Placed, Models
  <2>3. \A n \in Models : ~Busy(n)'
    BY <1>1, <1>4 DEF Busy
  <2> QED
    BY <1>1, <1>2, <1>4, <2>1, <2>2, <2>3 DEF Placed
<1>5. CASE m = "compute_ref_log_prob"
  <2>1. \A n \in Models : ~Busy(n)'
    BY <1>1, <1>5 DEF Busy
  <2> QED
    BY <1>1, <1>2, <1>5, <2>1 DEF Begin, Placed
<1>6. CASE m \notin {"generate_sequences", "compute_ref_log_prob"}
  <2>1. \A n \in Models : Busy(n)' <=> n = ModelOf(m)
    BY <1>1, <1>6, MethodFacts DEF Busy
  <2>2. /\ params' = [params EXCEPT ![ModelOf(m)] =
                         IF ModelOf(m) \in OffloadParam THEN "gpu" ELSE @]
        /\ optimizer' = [optimizer EXCEPT ![ModelOf(m)] =
                         IF ModelOf(m) \in OffloadOptimizer /\ m \in UpdateMethods
                         THEN "gpu" ELSE @]
        /\ engine' = engine
    BY <1>6 DEF Begin, Load
  <2> QED
    BY <1>1, <1>2, <1>3, <1>6, <2>1, <2>2 DEF Placed
<1> QED
  BY <1>4, <1>5, <1>6

LEMMA RunPlaces ==
    ASSUME WorkersTypeOK, Placed, NEW m \in Methods, Run(m)
    PROVE  Placed'
<1>1. method = m /\ method' = m /\ ~ran /\ ran' /\ params' = params /\ engine' = engine
  BY DEF Run
<1>2. \A n \in Models : Busy(n)' <=> Busy(n)
  BY <1>1 DEF Busy
<1>3. optimizer \in [Models -> Place]
  BY DEF WorkersTypeOK
<1>4. m # "none"
  BY MethodFacts
<1>5. CASE m \in LoadMethods
  <2>1. optimizer' = [optimizer EXCEPT ![ModelOf(m)] = "gpu"]
    BY <1>5 DEF Run
  <2>2. \A n \in Models : Busy(n) <=> n = ModelOf(m)
    BY <1>1, <1>4, <1>5, MethodFacts DEF Busy
  <2> QED
    BY <1>1, <1>2, <1>3, <1>4, <1>5, <2>1, <2>2, MethodFacts DEF Placed
<1>6. CASE m \notin LoadMethods
  <2>1. optimizer' = optimizer
    BY <1>6 DEF Run
  <2> QED
    BY <1>1, <1>2, <1>4, <1>6, <2>1 DEF Placed
<1> QED
  BY <1>5, <1>6

LEMMA EndPlaces ==
    ASSUME WorkersTypeOK, Placed, NEW m \in Methods, End(m)
    PROVE  Placed'
<1>1. method = m /\ method' = "none" /\ ran /\ ~ran'
  BY DEF End
<1>2. \A n \in Models : ~Busy(n)'
  BY <1>1 DEF Busy
<1>3. params \in [Models -> Place] /\ optimizer \in [Models -> Place]
  BY DEF WorkersTypeOK
<1>4. CASE m = "generate_sequences"
  <2>1. engine'.awake = FALSE /\ params' = params /\ optimizer' = optimizer
    BY <1>4 DEF End, Exit, WorkersTypeOK
  <2>2. \A n \in Models : ~Busy(n)
    BY <1>1, <1>4 DEF Busy
  <2> QED
    BY <1>1, <1>2, <2>1, <2>2 DEF Placed
<1>5. CASE m = "compute_ref_log_prob"
  <2>1. \A n \in Models : ~Busy(n)
    BY <1>1, <1>5 DEF Busy
  <2> QED
    BY <1>1, <1>2, <1>5, <2>1 DEF End, Placed
<1>6. CASE m \notin {"generate_sequences", "compute_ref_log_prob"}
  <2>1. \A n \in Models : Busy(n) <=> n = ModelOf(m)
    BY <1>1, <1>6, MethodFacts DEF Busy
  <2>2. /\ params' = [params EXCEPT ![ModelOf(m)] =
                         IF ModelOf(m) \in OffloadParam THEN "cpu" ELSE @]
        /\ optimizer' = [optimizer EXCEPT ![ModelOf(m)] =
                         IF ModelOf(m) \in OffloadOptimizer
                              /\ m \in UpdateMethods \cup LoadMethods
                         THEN "cpu" ELSE @]
        /\ engine' = engine
    BY <1>6 DEF End, Offload, OffloadsOptimizer
  <2> QED
    BY <1>1, <1>2, <1>3, <1>6, <2>1, <2>2 DEF Placed
<1> QED
  BY <1>4, <1>5, <1>6

-----------------------------------------------------------------------------
(* The streams of random numbers. *)
LEMMA BeginStreams ==
    ASSUME WorkersTypeOK, Streams, NEW m \in Methods, Begin(m)
    PROVE  Streams'
<1>1. method = "none" /\ method' = m /\ updates' = updates
  BY DEF Begin, Enter, Load
<1>2. \A r : Trained(r)' = Trained(r)
  BY <1>1 DEF Trained
<1>3. gen_random_states' = gen_random_states
  BY DEF Begin, Enter, Load
<1>4. CASE m = "generate_sequences"
  <2>1. rng' = gen_random_states /\ torch_random_states' = rng
    BY <1>4 DEF Begin, Enter
  <2> QED
    BY <1>1, <1>2, <1>3, <1>4, <2>1 DEF Streams
<1>5. CASE m # "generate_sequences"
  <2>1. rng' = rng
    BY <1>5 DEF Begin, Load
  <2> QED
    BY <1>1, <1>2, <1>3, <1>5, <2>1 DEF Streams
<1> QED
  BY <1>4, <1>5

LEMMA RunStreams ==
    ASSUME WorkersTypeOK, Streams, NEW m \in Methods, Run(m)
    PROVE  Streams'
<1>1. /\ method = m /\ method' = m
      /\ torch_random_states' = torch_random_states /\ gen_random_states' = gen_random_states
  BY DEF Run
<1>2. /\ updates \in [Models -> Nat] /\ updates["actor"] \in Nat /\ updates["critic"] \in Nat
      /\ rng \in [Ranks -> RandomState(Nat)]
  BY DEF WorkersTypeOK, Models
<1>3. CASE m \in UpdateMethods
  <2>1. updates'["actor"] + updates'["critic"] = updates["actor"] + updates["critic"] + 1
    <3>1. updates' = [updates EXCEPT ![ModelOf(m)] = @ + 1]
      BY <1>3 DEF Run
    <3>2. CASE m = "update_actor"
      BY <1>2, <3>1, <3>2, MethodFacts DEF Models
    <3>3. CASE m = "update_critic"
      BY <1>2, <3>1, <3>3, MethodFacts DEF Models
    <3> QED
      BY <1>3, <3>2, <3>3, MethodFacts
  <2>2. rng' = Drawn(rng)
    BY <1>3 DEF Run
  <2>3. \A r \in Ranks : rng'[r] = Trained(r)'
    BY <1>1, <1>2, <1>3, <2>1, <2>2, DrawnStates, MethodFacts DEF Streams, Trained
  <2> QED
    BY <1>1, <1>3, <2>3, MethodFacts DEF Streams
<1>4. CASE m \notin UpdateMethods
  <2>1. updates' = updates
    BY <1>2, <1>4 DEF Run
  <2>2. \A r : Trained(r)' = Trained(r)
    BY <2>1 DEF Trained
  <2>3. CASE m = "generate_sequences"
    <3>1. rng' = Drawn(rng)
      BY <2>3 DEF Run
    <3>2. /\ \A r \in Ranks : rng'[r].of = "generation"
          /\ \A r, q \in Ranks : TpGroup(q) = TpGroup(r) => rng'[q] = rng'[r]
      <4>1. \A r \in Ranks : rng'[r] = [of |-> rng[r].of, seed |-> rng[r].seed,
                                       drawn |-> rng[r].drawn + 1]
        BY <1>2, <3>1, DrawnStates
      <4>2. /\ \A r \in Ranks : rng[r].of = "generation"
            /\ \A r, q \in Ranks : TpGroup(q) = TpGroup(r) => rng[q] = rng[r]
        BY <1>1, <2>3 DEF Streams
      <4>3. ASSUME NEW r \in Ranks PROVE rng'[r].of = "generation"
        <5>1. rng'[r] = [of |-> rng[r].of, seed |-> rng[r].seed, drawn |-> rng[r].drawn + 1]
          BY <4>1
        <5>2. rng[r].of = "generation"
          BY <4>2
        <5> QED
          BY <5>1, <5>2
      <4>4. ASSUME NEW r \in Ranks, NEW q \in Ranks, TpGroup(q) = TpGroup(r)
            PROVE  rng'[q] = rng'[r]
        <5>1. rng[q] = rng[r]
          BY <4>2, <4>4
        <5>2. rng'[q] = [of |-> rng[q].of, seed |-> rng[q].seed, drawn |-> rng[q].drawn + 1]
          BY <4>1
        <5>3. rng'[r] = [of |-> rng[r].of, seed |-> rng[r].seed, drawn |-> rng[r].drawn + 1]
          BY <4>1
        <5> QED
          BY <5>1, <5>2, <5>3
      <4> QED
        BY <4>3, <4>4
    <3> QED
      BY <1>1, <2>2, <2>3, <3>2 DEF Streams
  <2>4. CASE m # "generate_sequences"
    <3>1. rng' = rng
      BY <1>4, <2>4 DEF Run
    <3> QED
      BY <1>1, <2>2, <2>4, <3>1 DEF Streams
  <2> QED
    BY <2>3, <2>4
<1> QED
  BY <1>3, <1>4

LEMMA EndStreams ==
    ASSUME WorkersTypeOK, Streams, NEW m \in Methods, End(m)
    PROVE  Streams'
<1>1. method = m /\ method' = "none" /\ updates' = updates
  BY DEF End, Exit, Offload
<1>2. \A r : Trained(r)' = Trained(r)
  BY <1>1 DEF Trained
<1>3. CASE m = "generate_sequences"
  <2>1. rng' = torch_random_states /\ gen_random_states' = rng
    BY <1>3 DEF End, Exit, KeptStates
  <2> QED
    BY <1>1, <1>2, <1>3, <2>1 DEF Streams
<1>4. CASE m # "generate_sequences"
  <2>1. rng' = rng /\ gen_random_states' = gen_random_states
    BY <1>4 DEF End, Offload
  <2> QED
    BY <1>1, <1>2, <1>4, <2>1 DEF Streams
<1> QED
  BY <1>3, <1>4

LEMMA WorkersStep == WorkersInv /\ [WorkersNext]_workerVars => WorkersInv'
<1>1. WorkersInv /\ WorkersNext => WorkersInv'
  BY BeginTypes, RunTypes, EndTypes, BeginPlaces, RunPlaces, EndPlaces,
     BeginStreams, RunStreams, EndStreams DEF WorkersInv, WorkersNext
<1>2. WorkersInv /\ UNCHANGED workerVars => WorkersInv'
  <2> SUFFICES ASSUME WorkersInv, UNCHANGED workerVars PROVE WorkersInv'
    OBVIOUS
  <2>1. WorkersTypeOK'
    BY DEF WorkersInv, WorkersTypeOK, workerVars
  <2>2. Placed'
    BY DEF WorkersInv, Placed, Busy, workerVars
  <2>3. Streams'
    BY DEF WorkersInv, Streams, Trained, workerVars
  <2> QED
    BY <2>1, <2>2, <2>3 DEF WorkersInv
<1> QED
  BY <1>1, <1>2

LEMMA WorkersInvImplies == WorkersInv => MemoryIsHandedOver /\ RandomStreams
<1> SUFFICES ASSUME WorkersInv PROVE MemoryIsHandedOver /\ RandomStreams
  OBVIOUS
<1>1. method \in UpdateMethods => Computing
  BY MethodFacts DEF Computing
<1>2. Computing => ModelOf(method) \in Models /\ Busy(ModelOf(method))
  BY MethodFacts DEF Computing, Busy, WorkersInv, WorkersTypeOK
<1>3. \A m \in Models : (Computing => m # ModelOf(method)) => ~Busy(m)
  BY DEF Computing, Busy
<1>4. MemoryIsHandedOver
  BY <1>1, <1>2, <1>3 DEF WorkersInv, Placed, MemoryIsHandedOver
<1>5. RandomStreams
  BY DEF WorkersInv, Streams, RandomStreams, Trained, TpPeers
<1> QED
  BY <1>4, <1>5

-----------------------------------------------------------------------------
(* The driver reaches the workers by their methods only. *)
LEMMA DriverCallsWorkers == [Next]_vars => [WorkersNext]_workerVars
<1>1. /\ "generate_sequences" \in Methods /\ "compute_log_prob" \in Methods
      /\ "compute_ref_log_prob" \in Methods /\ "compute_values" \in Methods
      /\ UpdateMethods \subseteq Methods /\ LoadMethods \subseteq Methods
      /\ {"save_actor", "save_critic"} \subseteq Methods
  BY DEF Methods, UpdateMethods, LoadMethods
<1>2. Call => WorkersNext
  BY DEF Call, WorkersNext
<1>3. Generate => WorkersNext
  BY <1>1 DEF Generate, WorkersNext
<1>4. ComputeLogProb \/ ComputeRefLogProb \/ ComputeValues => WorkersNext
  BY <1>1 DEF ComputeLogProb, ComputeRefLogProb, ComputeValues, WorkersNext
<1>5. Update \/ LoadOrSave => WorkersNext
  BY <1>1 DEF Update, LoadOrSave, WorkersNext
<1>6. Return => WorkersNext
  BY DEF Return, WorkersNext
<1>7. Prepare \/ PrepareFails \/ RewardDone \/ Advantage \/ NextIteration
        => UNCHANGED workerVars
  BY DEF Prepare, PrepareFails, RewardDone, Advantage, NextIteration
<1>8. Stopped \/ UNCHANGED vars => UNCHANGED workerVars
  BY DEF Stopped, vars
<1> QED
  BY <1>2, <1>3, <1>4, <1>5, <1>6, <1>7, <1>8 DEF Next

(* What the workers keep straight holds throughout the training. *)
THEOREM TrainingWorkers == Spec => []WorkersInv
<1>1. Init => WorkersInv
  BY WorkersInitInv DEF Init
<1>2. WorkersInv /\ [Next]_vars => WorkersInv'
  BY WorkersStep, DriverCallsWorkers
<1> QED
  BY <1>1, <1>2, PTL DEF Spec

(* In every step of the training, whatever is offloaded: the engine is awake
   only to generate, a method has its model in place, and nothing that is to
   be offloaded stays on the devices. *)
THEOREM TrainingMemory == Spec => []MemoryIsHandedOver
BY TrainingWorkers, WorkersInvImplies, PTL

(* With any number of ranks in a tensor parallel group, these draw the same
   numbers when they generate, and training does not notice. *)
THEOREM TrainingRandom == Spec => []RandomStreams
BY TrainingWorkers, WorkersInvImplies, PTL

-----------------------------------------------------------------------------
(* After every line but the last there is another to go to. *)
LEMMA Earliest ==
    ASSUME NEW S \in SUBSET (1 .. 16), S # {}
    PROVE  \E i \in S : \A j \in S : i <= j
<1> SUFFICES ASSUME \A i \in S : \E j \in S : j < i PROVE FALSE
  OBVIOUS
<1> DEFINE Above == { n \in Nat : \A j \in S : n < j }
<1>1. 0 \in Above
  OBVIOUS
<1>2. ASSUME NEW n \in Nat, n \in Above PROVE n + 1 \in Above
  <2>1. n + 1 \notin S
    BY <1>2
  <2> QED
    BY <1>2, <2>1
<1>3. 16 \notin Above
  <2>1. PICK j \in S : j \in 1 .. 16
    OBVIOUS
  <2> QED
    BY <2>1
<1> HIDE DEF Above
<1>4. ASSUME NEW n \in Nat, n \in Above PROVE n + 4 \in Above
  <2>1. n + 1 \in Above
    BY <1>2, <1>4
  <2>2. (n + 1) + 1 \in Above
    BY <1>2, <2>1
  <2>3. (n + 2) + 1 \in Above
    BY <1>2, <2>2
  <2>4. (n + 3) + 1 \in Above
    BY <1>2, <2>3
  <2> QED
    BY <2>4
<1>5. 0 + 4 \in Above
  BY <1>1, <1>4
<1>6. 4 + 4 \in Above
  BY <1>4, <1>5
<1>7. 8 + 4 \in Above
  BY <1>4, <1>6
<1>8. 12 + 4 \in Above
  BY <1>4, <1>7
<1> QED
  BY <1>3, <1>8

AllLines ==
    {"load_actor", "load_critic", "validate", "next",
     "rollout", "prepare", "compute_log_prob", "compute_ref_log_prob",
     "compute_values", "advantage", "update_critic", "update_actor",
     "test", "save_actor", "save_critic"}

LEMMA LinesAre ==
    /\ DOMAIN Lines = 1 .. 16 /\ Lines[16] = "next"
    /\ ToSet(Lines) = AllLines
    /\ \A i \in 1 .. 16 : Lines[i] \in AllLines
<1>1. DOMAIN Lines = 1 .. 16 /\ Lines[16] = "next"
  BY DEF Lines
<1>2. \A i \in 1 .. 16 : Lines[i] \in AllLines
  BY DEF Lines, AllLines
<1>3. \A line \in AllLines : \E i \in 1 .. 16 : Lines[i] = line
  <2>1. /\ Lines[1] = "load_actor" /\ Lines[2] = "load_critic" /\ Lines[3] = "validate"
        /\ Lines[4] = "next" /\ Lines[5] = "rollout" /\ Lines[6] = "prepare"
        /\ Lines[7] = "compute_log_prob" /\ Lines[8] = "compute_ref_log_prob"
        /\ Lines[9] = "compute_values" /\ Lines[10] = "advantage"
        /\ Lines[11] = "update_critic" /\ Lines[12] = "update_actor" /\ Lines[13] = "test"
        /\ Lines[14] = "save_actor" /\ Lines[15] = "save_critic"
    BY DEF Lines
  <2>2. \A i \in {1, 2, 3, 4, 5, 6, 7, 8, 9, 10, 11, 12, 13, 14, 15} : i \in 1 .. 16
    OBVIOUS
  <2> QED
    BY <2>1, <2>2 DEF AllLines
<1> QED
  BY <1>1, <1>2, <1>3 DEF ToSet

LEMMA FirstExists ==
    ASSUME NEW S \in SUBSET (1 .. 16), S # {}
    PROVE  (CHOOSE i \in S : \A j \in S : i <= j) \in S
BY Earliest, Zenon

LEMMA NextLineIsALine ==
    ASSUME pc \in AllLines, pc # "next"
    PROVE  NextLine \in AllLines
<1> DEFINE here == CHOOSE i \in DOMAIN Lines : Lines[i] = pc
           later == { i \in DOMAIN Lines : i > here /\ Needed(Lines[i]) }
<1>1. here \in 1 .. 16 /\ Lines[here] = pc
  BY LinesAre DEF ToSet
<1>2. here # 16
  BY <1>1, LinesAre
<1> HIDE DEF here
<1>3. Needed("next")
  BY DEF Needed, CriticLines
<1>4. 16 \in later /\ later \subseteq 1 .. 16
  BY <1>1, <1>2, <1>3, LinesAre
<1> DEFINE first == CHOOSE i \in later : \A j \in later : i <= j
<1>5. first \in later
  <2>1. later \in SUBSET (1 .. 16) /\ later # {}
    BY <1>4
  <2> HIDE DEF later
  <2> QED
    BY <2>1, FirstExists
<1>6. NextLine = Lines[first]
  BY DEF NextLine, here
<1> QED
  BY <1>4, <1>5, <1>6, LinesAre

(* A future is a record, and a method is called from its own line. *)
DriverInv ==
    /\ TypeOK
    /\ future = [done |-> future.done, scores |-> future.scores]

LEMMA DriverInit == Init => DriverInv
<1> SUFFICES ASSUME Init PROVE DriverInv
  OBVIOUS
<1>1. WorkersTypeOK /\ method = "none"
  BY WorkersInitInv DEF Init, WorkersInv, WorkersInit
<1>2. MaxTurns \in Nat \ {0} /\ TotalSteps \in Nat
  BY TrainerAssumption
<1> QED
  BY <1>1, <1>2, LinesAre
     DEF Init, DriverInv, TypeOK, AllLines, NoFuture

LEMMA DriverStep == DriverInv /\ WorkersInv /\ WorkersInv' /\ [Next]_vars => DriverInv'
<1> SUFFICES ASSUME DriverInv, WorkersInv, WorkersInv', [Next]_vars PROVE DriverInv'
  OBVIOUS
<1>1. /\ WorkersTypeOK' /\ MaxTurns \in Nat \ {0} /\ TotalSteps \in Nat
      /\ pc \in AllLines \cup {"done", "failed"}
      /\ method # "none" => method = MethodAt(pc)
      /\ global_steps \in 0 .. TotalSteps /\ turn \in 1 .. MaxTurns
      /\ future.done \in BOOLEAN
      /\ future = [done |-> future.done, scores |-> future.scores]
      /\ method \in Methods \cup {"none"}
  BY LinesAre, TrainerAssumption
     DEF DriverInv, WorkersInv, TypeOK, WorkersTypeOK
<1>2. SUFFICES /\ pc' \in AllLines \cup {"done", "failed"}
               /\ method' # "none" => method' = MethodAt(pc)'
               /\ global_steps' \in 0 .. TotalSteps /\ turn' \in 1 .. MaxTurns
               /\ future'.done \in BOOLEAN
               /\ future' = [done |-> future'.done, scores |-> future'.scores]
  BY <1>1, LinesAre DEF DriverInv, TypeOK
<1>3. MethodAt(pc)' = MethodAt(pc')
  BY DEF MethodAt
<1>4. pc \in {"prepare", "advantage", "next", "done", "failed"} => method = "none"
  BY <1>1 DEF MethodAt, Methods
<1>5. CASE Call
  <2>1. method' = MethodAt(pc) /\ UNCHANGED driverVars
    BY <1>5 DEF Call, Begin
  <2> QED
    BY <1>1, <1>3, <2>1 DEF driverVars
<1>6. CASE Generate \/ ComputeLogProb \/ ComputeRefLogProb \/ ComputeValues \/ Update
           \/ LoadOrSave
  <2>1. method' = method /\ UNCHANGED <<pc, global_steps, turn, future>>
    BY <1>6 DEF Generate, ComputeLogProb, ComputeRefLogProb, ComputeValues, Update,
                LoadOrSave, Run, driverVars
  <2> QED
    BY <1>1, <1>3, <2>1
<1>7. CASE Return
  <2>1. method' = "none" /\ UNCHANGED <<global_steps, future>>
    BY <1>7 DEF Return, End
  <2>2. pc' \in AllLines \cup {"done"} /\ turn' \in 1 .. MaxTurns
    <3>1. pc \in AllLines /\ pc # "next"
      BY <1>1, <1>7 DEF Return, MethodAt, Methods
    <3>2. NextLine \in AllLines
      BY <3>1, NextLineIsALine
    <3>3. \/ pc' \in Following /\ turn' = 1
          \/ pc' = pc /\ turn < MaxTurns /\ turn' = turn + 1
      BY <1>7 DEF Return
    <3>4. Following \subseteq AllLines \cup {"done"}
      BY <3>2 DEF Following, AllLines
    <3> QED
      BY <1>1, <3>1, <3>3, <3>4
  <2> QED
    BY <1>1, <2>1, <2>2
<1>8. CASE Prepare
  <2>1. pc = "prepare" /\ pc' = NextLine /\ method' = method
        /\ UNCHANGED <<global_steps, turn>>
    BY <1>8 DEF Prepare, workerVars
  <2>2. future' = [done |-> FALSE, scores |-> Scores(batch')]
    BY <1>8 DEF Prepare
  <2>3. NextLine \in AllLines
    BY <2>1, NextLineIsALine DEF AllLines
  <2>4. future'.done \in BOOLEAN
        /\ future' = [done |-> future'.done, scores |-> future'.scores]
    BY <2>2
  <2> QED
    BY <1>1, <1>4, <2>1, <2>3, <2>4
<1>9. CASE PrepareFails
  BY <1>1, <1>4, <1>9 DEF PrepareFails, workerVars
<1>10. CASE RewardDone
  <2>1. future' = [future EXCEPT !.done = TRUE]
    BY <1>10 DEF RewardDone
  <2>2. future' = [done |-> TRUE, scores |-> future.scores]
    BY <1>1, <2>1
  <2>3. UNCHANGED <<pc, method, global_steps, turn>>
    BY <1>10 DEF RewardDone, workerVars
  <2> QED
    BY <1>1, <1>3, <2>2, <2>3
<1>11. CASE Advantage
  <2>1. pc = "advantage" /\ pc' = NextLine /\ method' = method
        /\ future' = NoFuture /\ UNCHANGED <<global_steps, turn>>
    BY <1>11 DEF Advantage, workerVars
  <2>2. NextLine \in AllLines
    BY <2>1, NextLineIsALine DEF AllLines
  <2> QED
    BY <1>1, <1>4, <2>1, <2>2 DEF NoFuture
<1>12. CASE NextIteration
  <2>1. pc = "next" /\ method' = method /\ UNCHANGED <<turn, future>>
    BY <1>12 DEF NextIteration, workerVars
  <2>2. pc' \in {"done", "rollout"}
        /\ global_steps' = IF IsLastStep THEN global_steps ELSE global_steps + 1
    BY <1>12 DEF NextIteration
  <2> QED
    BY <1>1, <1>4, <2>1, <2>2 DEF IsLastStep, AllLines
<1>13. CASE Stopped \/ UNCHANGED vars
  <2>1. UNCHANGED <<pc, method, global_steps, turn, future>>
    BY <1>13 DEF Stopped, vars, workerVars, driverVars
  <2> QED
    BY <1>1, <1>3, <2>1
<1> QED
  BY <1>5, <1>6, <1>7, <1>8, <1>9, <1>10, <1>11, <1>12, <1>13 DEF Next

(* The states of driver and workers are those their types allow; the driver
   never leaves a line, or the last turn, with a method under way. *)
THEOREM TrainingTypeOK == Spec => []TypeOK
<1>1. Init => DriverInv /\ WorkersInv
  BY DriverInit, WorkersInitInv DEF Init
<1>2. DriverInv /\ WorkersInv /\ [Next]_vars => (DriverInv /\ WorkersInv)'
  BY DriverStep, WorkersStep, DriverCallsWorkers
<1>3. DriverInv => TypeOK
  BY DEF DriverInv
<1> QED
  BY <1>1, <1>2, <1>3, PTL DEF Spec

-----------------------------------------------------------------------------
(* Which line comes next. *)
LaterLines(i) == { j \in 1 .. 16 : j > i /\ Needed(Lines[j]) }

LEMMA LineNumbers ==
    /\ Lines[1] = "load_actor" /\ Lines[2] = "load_critic" /\ Lines[3] = "validate"
    /\ Lines[4] = "next" /\ Lines[5] = "rollout" /\ Lines[6] = "prepare"
    /\ Lines[7] = "compute_log_prob" /\ Lines[8] = "compute_ref_log_prob"
    /\ Lines[9] = "compute_values" /\ Lines[10] = "advantage"
    /\ Lines[11] = "update_critic" /\ Lines[12] = "update_actor" /\ Lines[13] = "test"
    /\ Lines[14] = "save_actor" /\ Lines[15] = "save_critic" /\ Lines[16] = "next"
BY DEF Lines

LEMMA NextLineIs ==
    ASSUME NEW i \in 1 .. 16, pc = Lines[i], pc # "next"
    PROVE  \E k \in LaterLines(i) : NextLine = Lines[k] /\ \A j \in LaterLines(i) : k <= j
<1> DEFINE here == CHOOSE j \in DOMAIN Lines : Lines[j] = pc
<1>1. DOMAIN Lines = 1 .. 16
  BY LinesAre
<1>2. here \in 1 .. 16 /\ Lines[here] = pc
  BY <1>1
<1> HIDE DEF here
<1>3. here = i
  <2>1. i \in {1, 2, 3, 4, 5, 6, 7, 8, 9, 10, 11, 12, 13, 14, 15, 16}
        /\ here \in {1, 2, 3, 4, 5, 6, 7, 8, 9, 10, 11, 12, 13, 14, 15, 16}
    BY <1>2
  <2> QED
    BY <1>2, <2>1, LineNumbers
<1> DEFINE S == LaterLines(i)
           first == CHOOSE k \in S : \A j \in S : k <= j
<1>4. S \in SUBSET (1 .. 16) /\ S # {}
  <2>1. i # 16
    BY LineNumbers
  <2>2. Needed("next")
    BY DEF Needed, CriticLines
  <2>3. 16 \in S
    BY <2>1, <2>2, LineNumbers DEF LaterLines
  <2> QED
    BY <2>3 DEF LaterLines
<1>5. { j \in DOMAIN Lines : j > here /\ Needed(Lines[j]) } = S
  BY <1>1, <1>3 DEF LaterLines
<1>6. NextLine = Lines[first]
  BY <1>5 DEF NextLine, here
<1> HIDE DEF S
<1>7. \E k \in S : \A j \in S : k <= j
  BY <1>4, Earliest
<1>8. first \in S /\ \A j \in S : first <= j
  BY <1>7
<1> QED
  BY <1>6, <1>8 DEF S

ComputeLines == {"compute_log_prob", "compute_ref_log_prob", "compute_values", "advantage"}
UpdateLines == {"update_critic", "update_actor", "test", "save_actor", "save_critic"}
OutsideLines == {"load_actor", "load_critic", "validate", "rollout", "done"}

(* The lines that always come. *)
LEMMA AlwaysNeeded ==
    \A line \in {"next", "prepare", "compute_log_prob", "advantage"} : Needed(line)
BY DEF Needed, CriticLines

LEMMA NextLines ==
    /\ pc \in {"load_actor", "load_critic", "validate"} =>
           NextLine \in {"load_critic", "validate", "next"}
    /\ pc = "rollout" => NextLine = "prepare"
    /\ pc = "prepare" => NextLine = "compute_log_prob"
    /\ pc \in {"compute_log_prob", "compute_ref_log_prob", "compute_values"} =>
           NextLine \in {"compute_ref_log_prob", "compute_values", "advantage"}
    /\ pc \in {"advantage"} \cup UpdateLines => NextLine \in UpdateLines \cup {"next"}
<1>1. ASSUME NEW i \in 1 .. 16, NEW last \in 1 .. 16, pc = Lines[i], pc # "next", i < last,
             Needed(Lines[last])
      PROVE  \E k \in 1 .. 16 : NextLine = Lines[k] /\ i < k /\ k <= last
  <2>1. PICK k \in LaterLines(i) : NextLine = Lines[k] /\ \A j \in LaterLines(i) : k <= j
    BY <1>1, NextLineIs
  <2>2. last \in LaterLines(i)
    BY <1>1 DEF LaterLines
  <2> QED
    BY <2>1, <2>2 DEF LaterLines
<1>2. ASSUME pc \in {"load_actor", "load_critic", "validate"}
      PROVE  NextLine \in {"load_critic", "validate", "next"}
  <2>1. PICK i \in {1, 2, 3} : pc = Lines[i]
    BY <1>2, LineNumbers
  <2>2. PICK k \in 1 .. 16 : NextLine = Lines[k] /\ i < k /\ k <= 4
    <3>1. 4 \in 1 .. 16 /\ i \in 1 .. 16 /\ i < 4 /\ Needed(Lines[4]) /\ pc # "next"
      BY <1>2, LineNumbers, AlwaysNeeded
    <3> QED
      BY <1>1, <2>1, <3>1
  <2>3. k \in {2, 3, 4}
    BY <2>2
  <2> QED
    BY <2>2, <2>3, LineNumbers
<1>3. ASSUME pc = "rollout" PROVE NextLine = "prepare"
  <2>2. PICK k \in 1 .. 16 : NextLine = Lines[k] /\ 5 < k /\ k <= 6
    <3>1. 5 \in 1 .. 16 /\ 6 \in 1 .. 16 /\ 5 < 6 /\ pc = Lines[5] /\ Needed(Lines[6]) /\ pc # "next"
      BY <1>3, LineNumbers, AlwaysNeeded
    <3> QED
      BY <1>1, <3>1
  <2>3. k = 6
    BY <2>2
  <2> QED
    BY <2>2, <2>3, LineNumbers
<1>4. ASSUME pc = "prepare" PROVE NextLine = "compute_log_prob"
  <2>2. PICK k \in 1 .. 16 : NextLine = Lines[k] /\ 6 < k /\ k <= 7
    <3>1. 6 \in 1 .. 16 /\ 7 \in 1 .. 16 /\ 6 < 7 /\ pc = Lines[6] /\ Needed(Lines[7]) /\ pc # "next"
      BY <1>4, LineNumbers, AlwaysNeeded
    <3> QED
      BY <1>1, <3>1
  <2>3. k = 7
    BY <2>2
  <2> QED
    BY <2>2, <2>3, LineNumbers
<1>5. ASSUME pc \in {"compute_log_prob", "compute_ref_log_prob", "compute_values"}
      PROVE  NextLine \in {"compute_ref_log_prob", "compute_values", "advantage"}
  <2>1. PICK i \in {7, 8, 9} : pc = Lines[i]
    BY <1>5, LineNumbers
  <2>2. PICK k \in 1 .. 16 : NextLine = Lines[k] /\ i < k /\ k <= 10
    <3>1. 10 \in 1 .. 16 /\ i \in 1 .. 16 /\ i < 10 /\ Needed(Lines[10]) /\ pc # "next"
      BY <1>5, LineNumbers, AlwaysNeeded
    <3> QED
      BY <1>1, <2>1, <3>1
  <2>3. k \in {8, 9, 10}
    BY <2>1, <2>2
  <2> QED
    BY <2>2, <2>3, LineNumbers
<1>6. ASSUME pc \in {"advantage"} \cup UpdateLines
      PROVE  NextLine \in UpdateLines \cup {"next"}
  <2>1. PICK i \in {10, 11, 12, 13, 14, 15} : pc = Lines[i]
    BY <1>6, LineNumbers DEF UpdateLines
  <2>2. PICK k \in 1 .. 16 : NextLine = Lines[k] /\ i < k /\ k <= 16
    <3>1. 16 \in 1 .. 16 /\ i \in 1 .. 16 /\ i < 16 /\ Needed(Lines[16]) /\ pc # "next"
      BY <1>6, LineNumbers, AlwaysNeeded DEF UpdateLines
    <3> QED
      BY <1>1, <2>1, <3>1
  <2>3. k \in {11, 12, 13, 14, 15, 16}
    BY <2>1, <2>2
  <2> QED
    BY <2>2, <2>3, LineNumbers DEF UpdateLines
<1> QED
  BY <1>2, <1>3, <1>4, <1>5, <1>6

-----------------------------------------------------------------------------
(* What there is at which line. *)
LinesInv ==
    /\ pc \in OutsideLines => collected = <<>> /\ batch = <<>>
    /\ pc \in {"prepare", "failed"} => batch = <<>>
    /\ pc = "prepare" => collected # <<>>
    /\ pc \in ComputeLines \cup UpdateLines => batch # <<>>
    /\ batch # <<>> => collected # <<>>
    /\ trained # NothingTrained => batch # <<>>
    /\ Has("step_group") \/ trained # NothingTrained => pc \in UpdateLines \cup {"next"}

RowsInv ==
    /\ collected # <<>> => RolloutRows(Len(collected), collected)
    /\ batch # <<>> => GoodBatch(Len(collected), collected, Len(batch), batch)

AnswersInv == \A i \in DOMAIN answers : answers[i].to = i

(* The weights that generate, and those that have generated. *)
WeightsInv ==
    /\ method = "generate_sequences" => engine.weights = updates["actor"]
    /\ pc = "rollout" /\ ran => answers[1].weights = updates["actor"]
    /\ pc \in {"prepare", "compute_log_prob"} =>
           \A i \in 1 .. Len(collected) : collected[i].generated_by = updates["actor"]

(* The scores wait for the rows that they are of. *)
ScoresInv == future # NoFuture /\ batch # <<>> => ScoresAt(Len(batch), batch, future.scores)

(* The last update had all the rows. *)
TrainedOn(rows, t) ==
    RowsOf(t) \in Seq(ToSet(rows)) /\ Rearranged(rows, RowsOf(t)) /\ StepsAlike(t)
UpdateInv == trained # NothingTrained => TrainedOn(batch, trained)

BatchInv == LinesInv /\ RowsInv /\ AnswersInv /\ WeightsInv /\ ScoresInv /\ UpdateInv

-----------------------------------------------------------------------------
(* Every action keeps the batch right. *)
LEMMA BatchInit == Init => BatchInv
<1> SUFFICES ASSUME Init PROVE BatchInv
  OBVIOUS
<1>1. /\ pc \in {"load_actor", "validate", "next"} /\ collected = <<>> /\ batch = <<>> /\ answers = <<>>
      /\ trained = NothingTrained /\ method = "none" /\ future = NoFuture
  BY DEF Init, WorkersInit
<1>2. LinesInv
  BY <1>1 DEF LinesInv, Has, ComputeLines, UpdateLines, OutsideLines
<1>3. AnswersInv
  BY <1>1 DEF AnswersInv
<1>4. WeightsInv
  BY <1>1 DEF WeightsInv
<1> QED
  BY <1>1, <1>2, <1>3, <1>4 DEF BatchInv, RowsInv, ScoresInv, UpdateInv

(* Nothing happens to the rows. *)
LEMMA RowsKept ==
    ASSUME BatchInv, UNCHANGED <<collected, batch, trained, future>>
    PROVE  RowsInv' /\ ScoresInv' /\ UpdateInv'
<1>1. RowsInv'
  BY DEF BatchInv, RowsInv
<1>2. ScoresInv'
  BY DEF BatchInv, ScoresInv
<1>3. UpdateInv'
  BY DEF BatchInv, UpdateInv
<1> QED
  BY <1>1, <1>2, <1>3

LEMMA HasNow == ASSUME NEW column PROVE Has(column) <=> batch # <<>> /\ HasColumn(batch, column)
BY DEF Has, HasColumn

LEMMA HasThen == ASSUME NEW column PROVE Has(column)' <=> batch' # <<>> /\ HasColumn(batch', column)
BY DEF Has, HasColumn

LEMMA BatchCall == ASSUME BatchInv, WorkersInv, Call PROVE BatchInv'
<1>1. /\ UNCHANGED <<pc, collected, batch, trained, future, answers>>
  BY DEF Call, driverVars
<1>2. method = "none" /\ method' = MethodAt(pc) /\ ran' = ran /\ ~ran
  BY DEF Call, Begin, WorkersInv, Placed, WorkersTypeOK
<1>3. updates' = updates
  BY DEF Call, Begin, Enter, Load
<1>4. method' = "generate_sequences" => engine'.weights = updates["actor"]
  BY <1>2 DEF Call, Begin, Enter, WokenUp
<1>5. LinesInv'
  BY <1>1 DEF BatchInv, LinesInv, Has
<1>6. WeightsInv'
  BY <1>1, <1>2, <1>3, <1>4 DEF BatchInv, WeightsInv
<1>7. AnswersInv'
  BY <1>1 DEF BatchInv, AnswersInv
<1> QED
  BY <1>1, <1>5, <1>6, <1>7, RowsKept DEF BatchInv

LEMMA BatchGenerate == ASSUME BatchInv, WorkersInv, Generate PROVE BatchInv'
<1> DEFINE prompts == [i \in 1 .. NumPrompts |-> i]
           w == engine.weights
<1>1. UNCHANGED <<pc, collected, batch, trained, future>>
  BY DEF Generate
<1>2. method = "generate_sequences" /\ method' = method /\ engine' = engine
  BY DEF Generate, Run
<1>3. updates' = updates
  BY DEF Generate, Run, UpdateMethods, WorkersInv, WorkersTypeOK
<1>4. answers' = Answers(prompts, w)
  BY DEF Generate
<1>5. NumPrompts \in Nat /\ NumPrompts > 0
  BY TrainerAssumption
<1>6. prompts \in Seq(Nat) /\ Len(prompts) = NumPrompts /\ \A i \in 1 .. NumPrompts : prompts[i] = i
  BY <1>5
<1> HIDE DEF prompts
<1>7. answers' = [i \in 1 .. NumPrompts |-> Answer(prompts[i], w)]
  BY <1>4, <1>5, <1>6, AnswersAre
<1>8. DOMAIN answers' = 1 .. NumPrompts
      /\ \A i \in 1 .. NumPrompts : answers'[i] = [to |-> i, weights |-> w]
  BY <1>6, <1>7 DEF Answer
<1>9. AnswersInv'
  BY <1>8 DEF AnswersInv
<1>10. LinesInv'
  BY <1>1 DEF BatchInv, LinesInv, Has
<1>11. WeightsInv'
  <2>1. answers'[1].weights = w
    BY <1>5, <1>8
  <2>2. w = updates["actor"]
    BY <1>2 DEF BatchInv, WeightsInv
  <2> HIDE DEF w
  <2> QED
    BY <1>1, <1>2, <1>3, <2>1, <2>2 DEF BatchInv, WeightsInv, w
<1> QED
  BY <1>1, <1>9, <1>10, <1>11, RowsKept DEF BatchInv

(* A worker call that adds a column to the batch. *)
LEMMA BatchForward ==
    ASSUME BatchInv, pc \in ComputeLines, NEW name \in ForwardColumns, NEW size \in Nat \ {0}, NEW w,
           batch' = WithColumn(batch, name, Forward(batch, size, w)),
           UNCHANGED <<pc, collected, trained, future, updates, answers, method, engine>>,
           name = "old_log_probs" =>
               \A c \in 1 .. Len(collected) : collected[c].generated_by = w
    PROVE  BatchInv'
<1> DEFINE n == Len(collected)
           m == Len(batch)
<1>1. batch # <<>> /\ collected # <<>> /\ ~HasColumn(batch, "step_group")
      /\ trained = NothingTrained
  BY HasNow DEF BatchInv, LinesInv, ComputeLines, UpdateLines
<1>2. RolloutRows(n, collected) /\ GoodBatch(n, collected, m, batch)
  BY <1>1 DEF BatchInv, RowsInv
<1> HIDE DEF n, m
<1>3. /\ GoodBatch(n, collected, m, batch') /\ ~HasColumn(batch', "step_group")
      /\ \A i \in 1 .. m : Name(batch'[i]) = Name(batch[i])
  BY <1>1, <1>2, ForwardColumn DEF n
<1>4. Len(batch') = m /\ m \in Nat \ {0}
  BY <1>3, WholeIs DEF GoodBatch, MadeOf
<1>5. batch' # <<>>
  BY <1>4
<1>6. LinesInv'
  BY <1>1, <1>3, <1>5, HasThen DEF BatchInv, LinesInv, ComputeLines, UpdateLines, OutsideLines
<1>7. RowsInv'
  BY <1>2, <1>3, <1>4 DEF RowsInv, n
<1>8. ScoresInv'
  <2>1. future # NoFuture => ScoresAt(m, batch, future.scores)
    BY <1>1 DEF BatchInv, ScoresInv, m
  <2>2. future # NoFuture => ScoresAt(m, batch', future.scores)
    BY <1>3, <2>1 DEF ScoresAt
  <2> QED
    BY <1>4, <2>2 DEF ScoresInv
<1>9. WeightsInv'
  BY DEF BatchInv, WeightsInv, ComputeLines
<1>10. UpdateInv' /\ AnswersInv'
  BY <1>1 DEF BatchInv, UpdateInv, AnswersInv
<1> QED
  BY <1>6, <1>7, <1>8, <1>9, <1>10 DEF BatchInv

LEMMA BatchCompute ==
    ASSUME BatchInv, WorkersInv, ComputeLogProb \/ ComputeRefLogProb \/ ComputeValues
    PROVE  BatchInv'
<1>1. updates \in [Models -> Nat]
  BY DEF WorkersInv, WorkersTypeOK
<1>2. {LogProbMicro, RefMicro, CriticMicro} \subseteq Nat \ {0}
  BY BatchSizesAssumption
<1>3. CASE ComputeLogProb
  <2>1. /\ pc = "compute_log_prob" /\ Run("compute_log_prob")
        /\ batch' = WithColumn(batch, "old_log_probs", Forward(batch, LogProbMicro, updates["actor"]))
        /\ UNCHANGED <<pc, collected, trained, future, answers>>
    BY <1>3 DEF ComputeLogProb
  <2>2. UNCHANGED <<updates, method, engine>>
    BY <1>1, <2>1 DEF Run, UpdateMethods
  <2>3. \A c \in 1 .. Len(collected) : collected[c].generated_by = updates["actor"]
    BY <2>1 DEF BatchInv, WeightsInv
  <2>4. pc \in ComputeLines /\ "old_log_probs" \in ForwardColumns /\ LogProbMicro \in Nat \ {0}
    BY <1>2, <2>1 DEF ComputeLines, ForwardColumns
  <2> QED
    BY <2>1, <2>2, <2>3, <2>4, BatchForward
<1>4. CASE ComputeRefLogProb
  <2>1. /\ pc = "compute_ref_log_prob" /\ Run("compute_ref_log_prob")
        /\ batch' = WithColumn(batch, "ref_log_prob", Forward(batch, RefMicro, 0))
        /\ UNCHANGED <<pc, collected, trained, future, answers>>
    BY <1>4 DEF ComputeRefLogProb
  <2>2. UNCHANGED <<updates, method, engine>>
    BY <1>1, <2>1 DEF Run, UpdateMethods
  <2>3. pc \in ComputeLines /\ "ref_log_prob" \in ForwardColumns /\ RefMicro \in Nat \ {0}
        /\ "ref_log_prob" # "old_log_probs"
    BY <1>2, <2>1 DEF ComputeLines, ForwardColumns
  <2> QED
    BY <2>1, <2>2, <2>3, BatchForward
<1>5. CASE ComputeValues
  <2>1. /\ pc = "compute_values" /\ Run("compute_values")
        /\ batch' = WithColumn(batch, "values", Forward(batch, CriticMicro, updates["critic"]))
        /\ UNCHANGED <<pc, collected, trained, future, answers>>
    BY <1>5 DEF ComputeValues
  <2>2. UNCHANGED <<updates, method, engine>>
    BY <1>1, <2>1 DEF Run, UpdateMethods
  <2>3. pc \in ComputeLines /\ "values" \in ForwardColumns /\ CriticMicro \in Nat \ {0}
        /\ "values" # "old_log_probs"
    BY <1>2, <2>1 DEF ComputeLines, ForwardColumns
  <2> QED
    BY <2>1, <2>2, <2>3, BatchForward
<1> QED
  BY <1>3, <1>4, <1>5

-----------------------------------------------------------------------------
LEMMA BatchUpdate == ASSUME BatchInv, WorkersInv, Update PROVE BatchInv'
<1> DEFINE n == Len(collected)
           m == Len(batch)
           size == IF pc = "update_actor" THEN ActorMicro ELSE CriticMicro
<1>1. /\ pc \in UpdateMethods /\ method = pc /\ method' = pc
      /\ trained' = MiniBatches(batch, size)
      /\ UNCHANGED <<pc, answers, collected, batch, future>>
  BY DEF Update, Run
<1>2. pc \in UpdateLines
  BY <1>1 DEF UpdateLines, UpdateMethods
<1>3. batch # <<>> /\ collected # <<>>
  BY <1>2 DEF BatchInv, LinesInv
<1>4. RolloutRows(n, collected) /\ GoodBatch(n, collected, m, batch)
  BY <1>3 DEF BatchInv, RowsInv
<1>5. size \in Nat \ {0}
  BY BatchSizesAssumption
<1> HIDE DEF n, m, size
<1>6. UpdateInv'
  <2> DEFINE X == ToSet(batch)
  <2>1. MadeOf(n, collected, m, batch)
    BY <1>4 DEF GoodBatch
  <2>2. batch \in Seq(X)
    BY <1>4, <2>1, MadeOfIsEven
  <2>3. \E e \in Nat \ {0} : Even4All(e, batch)
    BY <1>4, <2>1, MadeOfIsEven
  <2>4. PICK e \in Nat \ {0} : Even4All(e, batch)
    BY <2>3
  <2> HIDE DEF X
  <2>5. /\ RowsOf(trained') \in Seq(X) /\ Rearranged(batch, RowsOf(trained')) /\ StepsAlike(trained')
    BY <1>1, <1>5, <2>2, <2>4, MiniBatchesAre
  <2>6. TrainedOn(batch, trained')
    BY <2>5 DEF TrainedOn, X
  <2> QED
    BY <1>1, <2>6 DEF UpdateInv
<1>7. LinesInv'
  BY <1>1, <1>2, HasNow, HasThen
     DEF BatchInv, LinesInv, UpdateLines, OutsideLines, ComputeLines
<1>8. RowsInv' /\ ScoresInv'
  BY <1>1 DEF BatchInv, RowsInv, ScoresInv
<1>9. AnswersInv'
  BY <1>1 DEF BatchInv, AnswersInv
<1>10. WeightsInv'
  BY <1>1 DEF WeightsInv, UpdateMethods
<1> QED
  BY <1>6, <1>7, <1>8, <1>9, <1>10 DEF BatchInv

LEMMA BatchLoadOrSave == ASSUME BatchInv, WorkersInv, LoadOrSave PROVE BatchInv'
<1>1. /\ pc \in {"load_actor", "load_critic", "save_actor", "save_critic"}
      /\ method = pc /\ method' = pc
      /\ UNCHANGED <<pc, answers, collected, batch, future, trained>>
  BY DEF LoadOrSave, Run, driverVars, LoadMethods
<1>2. LinesInv'
  BY <1>1, HasNow, HasThen DEF BatchInv, LinesInv
<1>3. AnswersInv'
  BY <1>1 DEF BatchInv, AnswersInv
<1>4. WeightsInv'
  BY <1>1 DEF WeightsInv
<1> QED
  BY <1>1, <1>2, <1>3, <1>4, RowsKept DEF BatchInv

(* When the workers are done with a method, only the line moves on. *)
LEMMA EndKeeps ==
    ASSUME NEW m, End(m)
    PROVE  method' = "none" /\ ran /\ ~ran' /\ updates' = updates
BY DEF End, Exit, Offload

LEMMA BatchReturn == ASSUME BatchInv, WorkersInv, DriverInv, Return PROVE BatchInv'
<1>1. /\ method = MethodAt(pc) /\ method' = "none" /\ ran /\ ~ran' /\ updates' = updates
      /\ MethodAt(pc) \in Methods
      /\ UNCHANGED <<answers, batch, future, trained>>
  <2>1. End(MethodAt(pc)) /\ MethodAt(pc) \in Methods /\ UNCHANGED <<answers, batch, future, trained>>
    BY DEF Return
  <2>2. method' = "none" /\ ran /\ ~ran' /\ updates' = updates
    BY <2>1, EndKeeps
  <2>3. method = MethodAt(pc)
    BY <2>1 DEF End
  <2> QED
    BY <2>1, <2>2, <2>3
<1>2. AnswersInv'
  BY <1>1 DEF BatchInv, AnswersInv
<1>3. CASE pc' = pc /\ collected' = collected
  <2>1. LinesInv'
    BY <1>1, <1>3, HasNow, HasThen DEF BatchInv, LinesInv
  <2>2. WeightsInv'
    BY <1>1, <1>3 DEF BatchInv, WeightsInv
  <2> QED
    BY <1>1, <1>2, <1>3, <2>1, <2>2, RowsKept DEF BatchInv
<1>4. ASSUME pc = "rollout", pc' \in Following,
             NEW b \in Batches, collected' =
                 WithColumn(b, "generated_by", [i \in DOMAIN b |-> answers[1].weights])
      PROVE  BatchInv'
  <2> DEFINE w == answers[1].weights
             values == [i \in DOMAIN b |-> w]
  <2>1. pc' = "prepare"
    BY <1>4, NextLines DEF Following
  <2>2. batch = <<>> /\ batch' = <<>> /\ trained = NothingTrained /\ trained' = NothingTrained
    BY <1>1, <1>4 DEF BatchInv, LinesInv, OutsideLines
  <2>3. w = updates["actor"]
    BY <1>1, <1>4 DEF BatchInv, WeightsInv
  <2>4. collected' = WithColumn(b, "generated_by", values)
    BY <1>4
  <2> HIDE DEF values, w
  <2>5. /\ RolloutRows(Len(b), collected') /\ Len(collected') = Len(b)
        /\ \A i \in 1 .. Len(b) : collected'[i].generated_by = values[i]
    BY <2>4, RolloutIs
  <2>6. Len(b) \in Nat \ {0} /\ DOMAIN b = 1 .. Len(b)
    BY BatchesAssumption
  <2>7. collected' # <<>>
    BY <2>5, <2>6
  <2>8. \A i \in 1 .. Len(b) : collected'[i].generated_by = updates["actor"]
    BY <2>3, <2>5, <2>6 DEF values
  <2>9. LinesInv'
    BY <2>1, <2>2, <2>7, HasThen DEF LinesInv, OutsideLines, ComputeLines, UpdateLines
  <2>10. RowsInv'
    BY <2>2, <2>5 DEF RowsInv
  <2>11. WeightsInv'
    BY <1>1, <2>1, <2>5, <2>8 DEF WeightsInv
  <2>12. ScoresInv' /\ UpdateInv'
    BY <2>2 DEF ScoresInv, UpdateInv
  <2> QED
    BY <1>2, <2>9, <2>10, <2>11, <2>12 DEF BatchInv
<1>5. CASE pc # "rollout" /\ pc' \in Following /\ collected' = collected
  <2>1. pc \in {"load_actor", "load_critic", "validate"}
           \/ pc \in {"compute_log_prob", "compute_ref_log_prob", "compute_values"}
           \/ pc \in UpdateLines
    <3>1. pc \in AllLines \cup {"done", "failed"}
      BY LinesAre DEF DriverInv, TypeOK
    <3> QED
      BY <1>1, <1>5, <3>1 DEF AllLines, MethodAt, Methods, UpdateLines
  <2>2. CASE pc \in {"load_actor", "load_critic", "validate"}
    <3>1. pc' \in {"load_critic", "validate", "next", "done"}
      BY <1>5, <2>2, NextLines DEF Following
    <3>2. batch = <<>> /\ batch' = <<>> /\ trained = NothingTrained /\ trained' = NothingTrained
          /\ collected' = <<>>
      BY <1>1, <1>5, <2>2 DEF BatchInv, LinesInv, OutsideLines
    <3>3. LinesInv'
      BY <3>1, <3>2, HasThen DEF LinesInv, OutsideLines, ComputeLines, UpdateLines
    <3>4. WeightsInv'
      BY <1>1, <3>1 DEF WeightsInv
    <3> QED
      BY <1>1, <1>2, <1>5, <3>3, <3>4, RowsKept DEF BatchInv
  <2>3. CASE pc \in {"compute_log_prob", "compute_ref_log_prob", "compute_values"}
    <3>1. pc' \in {"compute_ref_log_prob", "compute_values", "advantage"}
      BY <1>5, <2>3, NextLines DEF Following
    <3>2. pc \in ComputeLines /\ pc' \in ComputeLines
      BY <2>3, <3>1 DEF ComputeLines
    <3>3. /\ batch # <<>> /\ collected # <<>> /\ trained = NothingTrained /\ ~Has("step_group")
      BY <2>3 DEF BatchInv, LinesInv, ComputeLines, UpdateLines
    <3>4. LinesInv'
      BY <1>1, <1>5, <3>1, <3>2, <3>3, HasNow, HasThen
         DEF LinesInv, OutsideLines, ComputeLines, UpdateLines
    <3>5. WeightsInv'
      BY <1>1, <3>1 DEF WeightsInv
    <3> QED
      BY <1>1, <1>2, <1>5, <3>4, <3>5, RowsKept DEF BatchInv
  <2>4. CASE pc \in UpdateLines
    <3>1. pc' \in UpdateLines \cup {"next"}
      BY <1>5, <2>4, NextLines DEF Following, UpdateLines
    <3>2. batch # <<>> /\ collected # <<>>
      BY <2>4 DEF BatchInv, LinesInv
    <3>3. LinesInv'
      BY <1>1, <1>5, <3>1, <3>2, HasNow, HasThen
         DEF LinesInv, OutsideLines, ComputeLines, UpdateLines
    <3>4. WeightsInv'
      BY <1>1, <3>1 DEF WeightsInv, UpdateLines
    <3> QED
      BY <1>1, <1>2, <1>5, <3>3, <3>4, RowsKept DEF BatchInv
  <2> QED
    BY <2>1, <2>2, <2>3, <2>4
<1>6. \/ pc' = pc /\ collected' = collected
      \/ pc # "rollout" /\ pc' \in Following /\ collected' = collected
      \/ pc = "rollout" /\ pc' \in Following /\ \E b \in Batches : collected' =
             WithColumn(b, "generated_by", [i \in DOMAIN b |-> answers[1].weights])
  BY DEF Return
<1> QED
  BY <1>3, <1>4, <1>5, <1>6

-----------------------------------------------------------------------------
(* The scores of compute_reward_async are of the rows it was given. *)
LEMMA ScoresAre ==
    ASSUME NEW m, NEW rows, Whole(m, rows)
    PROVE  ScoresAt(m, rows, Scores(rows))
<1>1. DOMAIN rows = 1 .. m
  BY WholeIs
<1> QED
  BY <1>1 DEF ScoresAt, Scores

LEMMA BatchPrepare == ASSUME BatchInv, WorkersInv, DriverInv, Prepare PROVE BatchInv'
<1> DEFINE n == Len(collected)
           add == ToAdd(n)
           m == n + add
<1>1. /\ pc = "prepare" /\ pc' = NextLine
      /\ future' = [done |-> FALSE, scores |-> Scores(batch')]
      /\ UNCHANGED <<method, ran, updates, engine, answers, collected, trained>>
  BY DEF Prepare, workerVars
<1>2. pc' = "compute_log_prob"
  BY <1>1, NextLines
<1>3. batch = <<>> /\ collected # <<>> /\ trained = NothingTrained /\ trained' = NothingTrained
  BY <1>1 DEF BatchInv, LinesInv
<1>4. RolloutRows(n, collected)
  BY <1>3 DEF BatchInv, RowsInv
<1>5. PICK dup \in DistinctChoices(n, add) :
          batch' = IF BalanceBatch THEN Balanced(Prepared(collected, dup))
                   ELSE Prepared(collected, dup)
  BY DEF Prepare
<1> HIDE DEF n
<1>6. Fresh(n, collected, m, Prepared(collected, dup))
  BY <1>4, PreparedIsFresh
<1> HIDE DEF m, add
<1>7. Fresh(n, collected, m, Balanced(Prepared(collected, dup)))
  BY <1>4, <1>6, BalancedIsFresh
<1>8. Fresh(n, collected, m, batch')
  BY <1>5, <1>6, <1>7
<1>9. GoodBatch(n, collected, m, batch') /\ ~HasColumn(batch', "step_group")
  BY <1>8, FreshIsGood
<1>10. Whole(m, batch') /\ m \in Nat \ {0}
  BY <1>9 DEF GoodBatch, MadeOf
<1>11. Len(batch') = m
  BY <1>10, WholeIs
<1>12. batch' # <<>>
  BY <1>10, <1>11
<1>13. LinesInv'
  BY <1>1, <1>2, <1>3, <1>9, <1>12, HasThen DEF LinesInv, OutsideLines, ComputeLines, UpdateLines
<1>14. RowsInv'
  BY <1>1, <1>4, <1>9, <1>11 DEF RowsInv, n
<1>15. ScoresInv'
  BY <1>1, <1>10, <1>11, ScoresAre DEF ScoresInv
<1>16. AnswersInv'
  BY <1>1 DEF BatchInv, AnswersInv
<1>17. WeightsInv'
  BY <1>1, <1>2 DEF BatchInv, WeightsInv
<1>18. UpdateInv'
  BY <1>3 DEF UpdateInv
<1> QED
  BY <1>13, <1>14, <1>15, <1>16, <1>17, <1>18 DEF BatchInv

LEMMA BatchPrepareFails == ASSUME BatchInv, PrepareFails PROVE BatchInv'
<1>1. /\ pc = "prepare" /\ pc' = "failed"
      /\ UNCHANGED <<method, ran, updates, engine, answers, collected, batch, future, trained>>
  BY DEF PrepareFails, workerVars
<1>2. batch = <<>> /\ batch' = <<>> /\ trained' = NothingTrained
  BY <1>1 DEF BatchInv, LinesInv
<1>3. LinesInv'
  BY <1>1, <1>2, HasThen DEF LinesInv, OutsideLines, ComputeLines, UpdateLines
<1>4. AnswersInv'
  BY <1>1 DEF BatchInv, AnswersInv
<1>5. WeightsInv'
  BY <1>1 DEF BatchInv, WeightsInv
<1> QED
  BY <1>1, <1>3, <1>4, <1>5, RowsKept DEF BatchInv

LEMMA BatchRewardDone == ASSUME BatchInv, DriverInv, RewardDone PROVE BatchInv'
<1>1. /\ future # NoFuture /\ future' = [future EXCEPT !.done = TRUE]
      /\ UNCHANGED <<pc, method, ran, updates, engine, answers, collected, batch, trained>>
  BY DEF RewardDone, workerVars
<1>2. future = [done |-> future.done, scores |-> future.scores]
  BY DEF DriverInv
<1>3. future'.scores = future.scores
  BY <1>1, <1>2
<1>4. LinesInv'
  BY <1>1, HasNow, HasThen DEF BatchInv, LinesInv
<1>5. AnswersInv'
  BY <1>1 DEF BatchInv, AnswersInv
<1>6. WeightsInv'
  BY <1>1 DEF BatchInv, WeightsInv
<1>7. RowsInv'
  BY <1>1 DEF BatchInv, RowsInv
<1>8. ScoresInv'
  BY <1>1, <1>3 DEF BatchInv, ScoresInv
<1>9. UpdateInv'
  BY <1>1 DEF BatchInv, UpdateInv
<1> QED
  BY <1>4, <1>5, <1>6, <1>7, <1>8, <1>9 DEF BatchInv

LEMMA BatchAdvantage == ASSUME BatchInv, DriverInv, Advantage PROVE BatchInv'
<1> DEFINE n == Len(collected)
           m == Len(batch)
<1>1. /\ pc = "advantage" /\ pc' = NextLine /\ future.done /\ future' = NoFuture
      /\ UNCHANGED <<method, ran, updates, engine, answers, collected, trained>>
  BY DEF Advantage, workerVars
<1>2. pc' \in UpdateLines \cup {"next"}
  BY <1>1, NextLines
<1>3. /\ batch # <<>> /\ collected # <<>> /\ trained = NothingTrained /\ trained' = NothingTrained
      /\ ~HasColumn(batch, "step_group")
  BY <1>1, HasNow DEF BatchInv, LinesInv, ComputeLines, UpdateLines
<1>4. RolloutRows(n, collected) /\ GoodBatch(n, collected, m, batch)
  BY <1>3 DEF BatchInv, RowsInv
<1>5. future # NoFuture
  BY <1>1 DEF NoFuture
<1>6. ScoresAt(m, batch, future.scores)
  BY <1>3, <1>5 DEF BatchInv, ScoresInv
<1>7. PICK es \in SimilarityModes : batch' = Advanced(batch, future.scores, es)
  BY DEF Advantage, Advanced, InGroups, Penalised, Scored
<1> HIDE DEF n, m
<1>8. GoodBatch(n, collected, m, batch')
  BY <1>3, <1>4, <1>6, <1>7, AdvancedIsGood
<1>9. Whole(m, batch') /\ m \in Nat \ {0}
  BY <1>8 DEF GoodBatch, MadeOf
<1>10. Len(batch') = m
  BY <1>9, WholeIs
<1>11. batch' # <<>>
  BY <1>9, <1>10
<1>12. LinesInv'
  BY <1>1, <1>2, <1>3, <1>11 DEF LinesInv, OutsideLines, ComputeLines, UpdateLines
<1>13. RowsInv'
  BY <1>1, <1>4, <1>8, <1>10 DEF RowsInv, n
<1>14. ScoresInv'
  BY <1>1 DEF ScoresInv, NoFuture
<1>15. AnswersInv'
  BY <1>1 DEF BatchInv, AnswersInv
<1>16. WeightsInv'
  BY <1>1, <1>2 DEF BatchInv, WeightsInv, UpdateLines
<1>17. UpdateInv'
  BY <1>3 DEF UpdateInv
<1> QED
  BY <1>12, <1>13, <1>14, <1>15, <1>16, <1>17 DEF BatchInv

LEMMA BatchNextIteration == ASSUME BatchInv, WorkersInv, DriverInv, NextIteration PROVE BatchInv'
<1>1. /\ pc = "next" /\ pc' \in {"rollout", "done"}
      /\ collected' = <<>> /\ batch' = <<>> /\ trained' = NothingTrained
      /\ UNCHANGED <<method, ran, updates, engine, answers, future>>
  BY DEF NextIteration, workerVars
<1>2. method = "none" /\ ~ran
  <2>1. method # "none" => method = "next"
    BY <1>1 DEF DriverInv, TypeOK, MethodAt
  <2>2. method = "none"
    BY <2>1 DEF WorkersInv, WorkersTypeOK, Methods
  <2> QED
    BY <2>2 DEF WorkersInv, Placed
<1>3. LinesInv'
  BY <1>1, HasThen DEF LinesInv, OutsideLines, ComputeLines, UpdateLines
<1>4. AnswersInv'
  BY <1>1 DEF BatchInv, AnswersInv
<1>5. WeightsInv'
  BY <1>1, <1>2 DEF WeightsInv
<1>6. RowsInv' /\ ScoresInv' /\ UpdateInv'
  BY <1>1 DEF RowsInv, ScoresInv, UpdateInv
<1> QED
  BY <1>3, <1>4, <1>5, <1>6 DEF BatchInv

LEMMA BatchRests == ASSUME BatchInv, UNCHANGED vars PROVE BatchInv'
<1>1. UNCHANGED <<pc, method, ran, updates, engine, answers, collected, batch, future, trained>>
  BY DEF vars, workerVars, driverVars
<1>2. LinesInv'
  BY <1>1, HasNow, HasThen DEF BatchInv, LinesInv
<1>3. AnswersInv'
  BY <1>1 DEF BatchInv, AnswersInv
<1>4. WeightsInv'
  BY <1>1 DEF BatchInv, WeightsInv
<1> QED
  BY <1>1, <1>2, <1>3, <1>4, RowsKept DEF BatchInv

LEMMA BatchStep == BatchInv /\ DriverInv /\ WorkersInv /\ [Next]_vars => BatchInv'
<1> SUFFICES ASSUME BatchInv, DriverInv, WorkersInv, [Next]_vars PROVE BatchInv'
  OBVIOUS
<1>1. CASE Call
  BY <1>1, BatchCall
<1>2. CASE Generate
  BY <1>2, BatchGenerate
<1>3. CASE ComputeLogProb \/ ComputeRefLogProb \/ ComputeValues
  BY <1>3, BatchCompute
<1>4. CASE Update
  BY <1>4, BatchUpdate
<1>5. CASE LoadOrSave
  BY <1>5, BatchLoadOrSave
<1>6. CASE Return
  BY <1>6, BatchReturn
<1>7. CASE Prepare
  BY <1>7, BatchPrepare
<1>8. CASE PrepareFails
  BY <1>8, BatchPrepareFails
<1>9. CASE RewardDone
  BY <1>9, BatchRewardDone
<1>10. CASE Advantage
  BY <1>10, BatchAdvantage
<1>11. CASE NextIteration
  BY <1>11, BatchNextIteration
<1>12. CASE Stopped \/ UNCHANGED vars
  BY <1>12, BatchRests DEF Stopped
<1> QED
  BY <1>1, <1>2, <1>3, <1>4, <1>5, <1>6, <1>7, <1>8, <1>9, <1>10, <1>11, <1>12 DEF Next

-----------------------------------------------------------------------------
(* Wherever the batch is on its way, it is made of the rows of the rollout
   and has right what it has. *)
THEOREM TrainingBatchInvariant == Spec => []BatchInv
<1>1. Init => BatchInv /\ DriverInv /\ WorkersInv
  BY BatchInit, DriverInit, WorkersInitInv DEF Init
<1>2. BatchInv /\ DriverInv /\ WorkersInv /\ [Next]_vars => (BatchInv /\ DriverInv /\ WorkersInv)'
  BY BatchStep, DriverStep, WorkersStep, DriverCallsWorkers
<1> QED
  BY <1>1, <1>2, PTL DEF Spec

(* The rows of a batch. *)
LEMMA BatchIs ==
    ASSUME BatchInv, batch # <<>>
    PROVE  /\ RolloutRows(Len(collected), collected)
           /\ GoodBatch(Len(collected), collected, Len(batch), batch)
           /\ DOMAIN batch = 1 .. Len(batch) /\ DOMAIN collected = 1 .. Len(collected)
<1>1. collected # <<>>
  BY DEF BatchInv, LinesInv
<1>2. /\ RolloutRows(Len(collected), collected)
      /\ GoodBatch(Len(collected), collected, Len(batch), batch)
  BY <1>1 DEF BatchInv, RowsInv
<1>3. Whole(Len(collected), collected)
  BY <1>2 DEF RolloutRows
<1>4. Whole(Len(batch), batch)
  BY <1>2 DEF GoodBatch, MadeOf
<1>5. DOMAIN batch = 1 .. Len(batch)
  BY <1>4, WholeIs
<1>6. DOMAIN collected = 1 .. Len(collected)
  BY <1>3, WholeIs
<1> QED
  BY <1>2, <1>5, <1>6

(* However many ranks there are, and however the rows are padded, balanced and
   cut into micro batches: what the workers compute, and the scores, come back
   to the rows they were computed from; the answers to the prompts. *)
THEOREM TrainingColumnsAlign == Spec => []ColumnsAlign
<1>1. BatchInv => ColumnsAlign
  <2> SUFFICES ASSUME BatchInv PROVE ColumnsAlign
    OBVIOUS
  <2>1. \A i \in DOMAIN answers : answers[i].to = i
    BY DEF BatchInv, AnswersInv
  <2>2. ASSUME NEW column \in ComputedColumns, Has(column), NEW i \in DOMAIN batch
        PROVE  batch[i][column].of = Name(batch[i])
    <3>1. batch # <<>> /\ HasColumn(batch, column)
      BY <2>2, HasNow
    <3>2. Aligned(Len(batch), batch) /\ i \in 1 .. Len(batch)
      BY <3>1, BatchIs DEF GoodBatch
    <3> QED
      BY <3>1, <3>2 DEF Aligned
  <2> QED
    BY <2>1, <2>2 DEF ColumnsAlign, ComputedColumns
<1> QED
  BY <1>1, TrainingBatchInvariant, PTL

(* For every batch of a rollout, every number of copies and every order: the
   return of a row is that of its step in its own trajectory as played, and
   an invalid action is penalised once. *)
THEOREM TrainingReturnsFit == Spec => []ReturnsFitTheirRows
<1>1. BatchInv => ReturnsFitTheirRows
  <2> SUFFICES ASSUME BatchInv, NEW i \in DOMAIN batch
               PROVE  batch[i].step_rewards = PlayedReturn(collected, batch[i])
                        - (IF Has("step_group") THEN Penalty(batch[i]) ELSE 0)
    BY DEF ReturnsFitTheirRows
  <2>1. batch # <<>>
    OBVIOUS
  <2>2. Returned(Len(batch), collected, batch) /\ i \in 1 .. Len(batch)
    BY <2>1, BatchIs DEF GoodBatch
  <2>3. Has("step_group") <=> HasColumn(batch, "step_group")
    BY <2>1, HasNow
  <2> QED
    BY <2>2, <2>3 DEF Returned
<1> QED
  BY <1>1, TrainingBatchInvariant, PTL

(* For every relation of similarity between observations, symmetric or not:
   the steps of a group are of one prompt and resemble its first row, rows of a
   prompt with the same observation are in one group, and a group's first row resembles no earlier one. *)
THEOREM TrainingGroups == Spec => []GroupsOfOnePrompt
<1>1. BatchInv => GroupsOfOnePrompt
  <2> SUFFICES ASSUME BatchInv, Has("step_group"), NEW i \in DOMAIN batch
               PROVE  LET first == batch[batch[i].step_group]
                          Alike(a, b) == IF batch[i].by_similarity THEN AreSimilar(a, b) ELSE a = b
                      IN  /\ first.uid = batch[i].uid
                          /\ Alike(batch[i].obs, first.obs)
                          /\ \A j \in DOMAIN batch :
                                 /\ (batch[i].uid = batch[j].uid /\ batch[i].obs = batch[j].obs) =>
                                        batch[i].step_group = batch[j].step_group
                                 /\ (batch[i].step_group = i /\ batch[j].step_group = j /\ j < i
                                      /\ batch[i].uid = batch[j].uid) => ~Alike(batch[i].obs, batch[j].obs)
    BY DEF GroupsOfOnePrompt
  <2>1. batch # <<>> /\ HasColumn(batch, "step_group")
    BY HasNow
  <2>2. DOMAIN batch = 1 .. Len(batch) /\ i \in 1 .. Len(batch)
    BY <2>1, BatchIs
  <2>3. Grouped(Len(batch), batch)
    BY <2>1, BatchIs DEF GoodBatch
  <2>4. InGroup(Len(batch), batch, i)
    BY <2>1, <2>2, <2>3 DEF Grouped
  <2> QED
    BY <2>2, <2>4 DEF InGroup, Resemble
<1> QED
  BY <1>1, TrainingBatchInvariant, PTL

(* Whatever was updated, loaded and offloaded before: the old log probabilities
   of a row are computed by the weights that generated it. *)
THEOREM TrainingOnPolicy == Spec => []OnPolicy
<1>1. BatchInv => OnPolicy
  <2> SUFFICES ASSUME BatchInv, Has("old_log_probs"), NEW i \in DOMAIN batch
               PROVE  batch[i].old_log_probs.weights = batch[i].generated_by
    BY DEF OnPolicy
  <2>1. batch # <<>> /\ HasColumn(batch, "old_log_probs")
    BY HasNow
  <2>2. OnPolicyRows(Len(batch), batch) /\ i \in 1 .. Len(batch)
    BY <2>1, BatchIs DEF GoodBatch
  <2> QED
    BY <2>1, <2>2 DEF OnPolicyRows
<1> QED
  BY <1>1, TrainingBatchInvariant, PTL

(* An update, over all its ranks, mini batches and micro batches, trains on the
   rows of the batch, no more and no fewer, and so on every turn that was
   played: once, or twice if it was copied. *)
THEOREM TrainingEveryRow == Spec => []EveryRowIsTrained
<1>1. BatchInv => EveryRowIsTrained
  <2> SUFFICES ASSUME BatchInv, trained # NothingTrained, NEW i \in DOMAIN collected
               PROVE  /\ TimesIn(TrainedRows, Name(collected[i])) \in {1, 2}
                      /\ TimesIn(TrainedRows, Name(collected[i])) = TimesIn(batch, Name(collected[i]))
    BY DEF EveryRowIsTrained
  <2> DEFINE X == ToSet(batch)
  <2>1. batch # <<>>
    BY DEF BatchInv, LinesInv
  <2>2. TrainedOn(batch, trained)
    BY DEF BatchInv, UpdateInv
  <2>3. TrainedRows = RowsOf(trained)
    BY DEF TrainedRows, RowsOf
  <2>4. /\ RolloutRows(Len(collected), collected)
        /\ MadeOf(Len(collected), collected, Len(batch), batch) /\ i \in 1 .. Len(collected)
    BY <2>1, BatchIs DEF GoodBatch
  <2>5. batch \in Seq(X)
    BY <2>4, MadeOfIsEven
  <2>6. TrainedRows \in Seq(X) /\ Rearranged(batch, TrainedRows)
    BY <2>2, <2>3 DEF TrainedOn
  <2> HIDE DEF X
  <2>7. TimesIn(TrainedRows, Name(collected[i])) = TimesIn(batch, Name(collected[i]))
    BY <2>5, <2>6, RearrangedTimes
  <2>8. TimesIn(batch, Name(collected[i])) \in {1, 2}
    BY <2>4 DEF MadeOf
  <2> QED
    BY <2>7, <2>8
<1> QED
  BY <1>1, TrainingBatchInvariant, PTL

(* All the ranks of an update take as many steps as each other, in as many
   micro batches, none of them without a row: none waits for the others. *)
THEOREM TrainingRanksInStep == Spec => []RanksInStep
<1>1. BatchInv => RanksInStep
  <2> SUFFICES ASSUME BatchInv PROVE RanksInStep
    OBVIOUS
  <2>1. CASE trained = NothingTrained
    <3>1. \A r \in Ranks : trained[r] = <<>>
      BY <2>1 DEF NothingTrained
    <3>2. DOMAIN <<>> = {}
      OBVIOUS
    <3> QED
      BY <3>1, <3>2 DEF RanksInStep
  <2>2. CASE trained # NothingTrained
    <3>1. StepsAlike(trained)
      BY <2>2 DEF BatchInv, UpdateInv, TrainedOn
    <3> QED
      BY <3>1 DEF RanksInStep, StepsAlike
  <2> QED
    BY <2>1, <2>2
<1> QED
  BY <1>1, TrainingBatchInvariant, PTL

(* For every batch of every rollout and every number of ranks: a micro batch of
   dynamic size has at most max_token_len tokens and those of one row more. *)
THEOREM TrainingMicroBatches == Spec => []MicroBatchesAreLight
<1>1. BatchInv => MicroBatchesAreLight
  <2> SUFFICES ASSUME BatchInv, pc = "compute_log_prob", UseDynamicBsz
               PROVE  LET chunks == Chunks(batch, WorldSize)
                          micros == MicroBatches(chunks, LogProbMicro)
                      IN  \A r \in Ranks :
                              LET rows == chunks[r]
                                  micro == micros[r]
                              IN  \A b \in DOMAIN micro :
                                      LET tokens == Total(LensOf(Reordered(rows, micro[b])))
                                      IN  \E i \in DOMAIN rows : tokens <= MaxTokenLen + rows[i].len
    BY DEF MicroBatchesAreLight
  <2> DEFINE X == ToSet(batch)
  <2>1. batch # <<>>
    BY DEF BatchInv, LinesInv, ComputeLines
  <2>2. /\ RolloutRows(Len(collected), collected)
        /\ MadeOf(Len(collected), collected, Len(batch), batch)
    BY <2>1, BatchIs DEF GoodBatch
  <2>3. batch \in Seq(X)
    BY <2>2, MadeOfIsEven
  <2>4. \E e \in Nat \ {0} : Even4All(e, batch)
    BY <2>2, MadeOfIsEven
  <2>5. PICK e \in Nat \ {0} : Even4All(e, batch)
    BY <2>4
  <2>6. LogProbMicro \in Nat \ {0}
    BY BatchSizesAssumption
  <2> HIDE DEF X
  <2>7. LightMicros(batch, MicroBatches(Chunks(batch, WorldSize), LogProbMicro))
    BY <2>3, <2>5, <2>6, MicrosAreLight
  <2> QED
    BY <2>7 DEF LightMicros
<1> QED
  BY <1>1, TrainingBatchInvariant, PTL
=============================================================================

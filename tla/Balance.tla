------------------------------ MODULE Balance ------------------------------
(***************************************************************************)
(* verl/utils/seqlen_balancing.py: partitions of sequences by their        *)
(* lengths (the largest differencing method of Karmarkar and Karp), and    *)
(* the micro batches made with them.  Positions count from 1.              *)
(***************************************************************************)
EXTENDS Integers, Sequences, FiniteSets, SequencesExt

(* sorted(): before[i] is the set of the positions that come before i. *)
Sorted(seq, before) ==
    LET sorted[m \in 0 .. Len(seq)] ==
            IF m = 0 THEN <<>>
            ELSE Append(sorted[m - 1],
                        seq[CHOOSE i \in DOMAIN seq : Cardinality(before[i]) = m - 1])
    IN  sorted[Len(seq)]

(* A part of a partition, the class Set, and how parts compare. *)
NoPart == [sum |-> 0, items |-> <<>>]
Part(i, lens) == [sum |-> lens[i], items |-> <<i>>]
Joined(p, q) == [sum |-> p.sum + q.sum, items |-> p.items \o q.items]

Lexicographic(s, t) ==
    \E k \in DOMAIN s : s[k] < t[k] /\ \A j \in 1 .. k - 1 : s[j] = t[j]
PartLess(p, q) ==
    \/ p.sum < q.sum
    \/ p.sum = q.sum /\ Len(p.items) < Len(q.items)
    \/ p.sum = q.sum /\ Len(p.items) = Len(q.items) /\ Lexicographic(p.items, q.items)
Decreasing(parts) ==
    Sorted(parts, [i \in DOMAIN parts |-> { j \in DOMAIN parts :
               PartLess(parts[i], parts[j]) \/ (parts[i] = parts[j] /\ j < i) }])

(* The class State is a sequence of k parts; the heap gives the state with
   the largest spread, then the one with the largest part. *)
Spread(state) == state[1].sum - state[Len(state)].sum
Before(s, t) ==
    \/ Spread(s) > Spread(t)
    \/ Spread(s) = Spread(t) /\ PartLess(t[1], s[1])
Popped(states) == CHOOSE s \in states : \A t \in states \ {s} : Before(s, t)

(* The largest part of one state goes with the smallest of the other. *)
LargestWithLargest(s, t) ==                                    \* mutant
    Decreasing([i \in DOMAIN s |-> Joined(s[i], t[i])])
Merged(s, t) == Decreasing([i \in DOMAIN s |-> Joined(s[i], t[Len(t) + 1 - i])])

MergeTwo(states) ==
    LET s == Popped(states)
        t == Popped(states \ {s})
    IN  (states \ {s, t}) \cup {Merged(s, t)}

ByLength(lens) ==
    Sorted([i \in DOMAIN lens |-> i],
           [i \in DOMAIN lens |-> { j \in DOMAIN lens :
                lens[j] < lens[i] \/ (lens[j] = lens[i] /\ j < i) }])

InitialStates(lens, k, equal_size) ==
    LET sorted == ByLength(lens)
        State(items) == Decreasing([i \in 1 .. k |->
            IF i <= Len(items) THEN Part(items[i], lens) ELSE NoPart])
    IN  IF equal_size
        THEN { State(SubSeq(sorted, o * k + 1, (o + 1) * k)) : o \in 0 .. (Len(lens) \div k) - 1 }
        ELSE { State(<<i>>) : i \in DOMAIN lens }

KarmarkarKarp(lens, k, equal_size) ==
    LET states == InitialStates(lens, k, equal_size)
        merges == Cardinality(states) - 1
        heap[m \in 0 .. merges] == IF m = 0 THEN states ELSE MergeTwo(heap[m - 1])
        final == CHOOSE s \in heap[merges] : TRUE
    IN  [i \in 1 .. k |-> final[i].items]

Ascending(items) ==
    Sorted(items, [i \in DOMAIN items |-> { j \in DOMAIN items : items[j] < items[i] }])

(* get_seqlen_balanced_partitions: k ascending sequences of positions.  What
   it asserts of them is part of EveryRowIsTrained and RanksInStep. *)
BalancedPartitions(lens, k, equal_size) ==
    LET parts == KarmarkarKarp(lens, k, equal_size)
    IN  [i \in 1 .. k |-> Ascending(parts[i])]

(* rearrange_micro_batches on one rank, and the number that all ranks share. *)
Total(lens) ==
    LET sum[i \in 0 .. Len(lens)] == IF i = 0 THEN 0 ELSE sum[i - 1] + lens[i]
    IN  sum[Len(lens)]
CeilDiv(a, b) == (a + b - 1) \div b
OwnMicroCount(lens, max_token_len) ==
    LET needed == CeilDiv(Total(lens), max_token_len)
    IN  IF needed < Len(lens) THEN needed ELSE Len(lens)
MicroPartitions(lens, count) == BalancedPartitions(lens, count, FALSE)

(* get_reverse_idx *)
Reversed(idx) == [j \in DOMAIN idx |-> CHOOSE i \in DOMAIN idx : idx[i] = j]
=============================================================================

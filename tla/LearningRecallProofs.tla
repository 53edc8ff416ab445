------------------------- MODULE LearningRecallProofs -------------------------
(***************************************************************************)
(* Theorems about LearningIndex and Recall, for any constants.             *)
(***************************************************************************)
EXTENDS LearningIndex, Recall, FiniteSetTheorems, SequenceTheorems, WellFoundedInduction, TLAPS

-----------------------------------------------------------------------------
(* Numbers, ranks and folds *)

\* Induction over a set.
LEMMA Induction ==
  ASSUME NEW P, 0 \in P, \A k \in Nat : k \in P => k + 1 \in P
  PROVE  \A k \in Nat : k \in P
<1> SUFFICES ASSUME NEW m \in Nat, m \notin P PROVE FALSE
  OBVIOUS
<1> DEFINE T == {k \in Nat : k \notin P}
<1>1. T \subseteq Nat /\ T # {}
  OBVIOUS
<1> HIDE DEF T
<1>2. PICK x \in T : \A y \in T : ~(<<y, x>> \in OpToRel(<, Nat))
  BY <1>1, NatLessThanWellFounded, WFMin
<1>3. \A y \in T : ~(y < x)
  BY <1>1, <1>2 DEF OpToRel
<1>4. x # 0
  BY DEF T
<1>5. x - 1 \in Nat /\ x - 1 < x /\ x - 1 + 1 = x
  BY <1>1, <1>4
<1> QED
  BY <1>3, <1>5 DEF T

LEMMA MaxOf ==
  ASSUME NEW n \in Nat, NEW u \in SUBSET (1 .. n), u # {}
  PROVE  Max(u) \in u /\ \A y \in u : Max(u) >= y
<1> DEFINE P == {k \in Nat : \A v \in SUBSET (1 .. k) : v # {} => \E x \in v : \A y \in v : x >= y}
<1>1. 0 \in P
  <2>1. 1 .. 0 = {}
    OBVIOUS
  <2> QED
    BY <2>1
<1>2. ASSUME NEW k \in Nat, k \in P PROVE k + 1 \in P
  <2> SUFFICES ASSUME NEW v \in SUBSET (1 .. k + 1), v # {} PROVE \E x \in v : \A y \in v : x >= y
    OBVIOUS
  <2>1. CASE k + 1 \in v
    BY <2>1
  <2>2. CASE k + 1 \notin v
    <3>1. v \in SUBSET (1 .. k)
      BY <2>2
    <3> QED
      BY <1>2, <3>1
  <2> QED
    BY <2>1, <2>2
<1> HIDE DEF P
<1>3. n \in P
  BY <1>1, <1>2, Induction
<1>4. \E x \in u : \A y \in u : x >= y
  BY <1>3 DEF P
<1> QED
  BY <1>4 DEF Max

\* The numbers up to k without the last, as a fold takes it away.
LEMMA MaxOfInterval ==
  ASSUME NEW k \in Nat \ {0}
  PROVE  Max(1 .. k) = k /\ (1 .. k) \ {Max(1 .. k)} = 1 .. k - 1
<1>1. Max(1 .. k) \in 1 .. k /\ Max(1 .. k) >= k
  <2>1. 1 .. k # {} /\ 1 .. k \in SUBSET (1 .. k) /\ k \in 1 .. k
    OBVIOUS
  <2> QED
    BY <2>1, MaxOf
<1>2. Max(1 .. k) = k
  BY <1>1
<1> QED
  BY <1>2

\* F folds the numbers up to n, the largest last, from base by step.
Folds(F, n, A, base, step) ==
  /\ F \in [SUBSET (1 .. n) -> A]
  /\ \A u \in SUBSET (1 .. n) : F[u] = IF u = {} THEN base ELSE step[<<Max(u), F[u \ {Max(u)}]>>]

\* There is a function that folds: whatever MapThenFoldSet chooses is one.
LEMMA Iterates ==
  ASSUME NEW n \in Nat, NEW A, NEW base \in A, NEW step \in [(1 .. n) \X A -> A]
  PROVE  \E F : Folds(F, n, A, base, step)
<1> DEFINE D(k)     == {u \in SUBSET (1 .. n) : Cardinality(u) <= k}
           Good(F, k) == \A u \in D(k) : F[u] = IF u = {} THEN base ELSE step[<<Max(u), F[u \ {Max(u)}]>>]
           P        == {k \in Nat : \E F \in [D(k) -> A] : Good(F, k)}
<1>0. \A u \in SUBSET (1 .. n) : IsFiniteSet(u) /\ Cardinality(u) \in Nat /\ Cardinality(u) <= n
  <2>1. IsFiniteSet(1 .. n) /\ Cardinality(1 .. n) = n
    <3>1. IsFiniteSet(1 .. n) /\ Cardinality(1 .. n) = IF 1 > n THEN 0 ELSE n - 1 + 1
      BY FS_Interval
    <3> QED
      BY <3>1
  <2> SUFFICES ASSUME NEW u \in SUBSET (1 .. n)
               PROVE  IsFiniteSet(u) /\ Cardinality(u) \in Nat /\ Cardinality(u) <= n
    OBVIOUS
  <2>2. IsFiniteSet(u) /\ Cardinality(u) <= Cardinality(1 .. n)
    BY <2>1, FS_Subset
  <2> QED
    BY <2>1, <2>2, FS_CardinalityType
<1>1. 0 \in P
  <2>1. D(0) = {{}}
    BY <1>0, FS_EmptySet
  <2> DEFINE F == [u \in D(0) |-> base]
  <2>2. F \in [D(0) -> A] /\ Good(F, 0)
    BY <2>1
  <2> QED
    BY <2>2
<1>2. ASSUME NEW k \in Nat, k \in P PROVE k + 1 \in P
  <2>1. PICK F \in [D(k) -> A] : Good(F, k)
    BY <1>2
  <2>2. ASSUME NEW u \in D(k + 1), u # {}
        PROVE  Max(u) \in 1 .. n /\ u \ {Max(u)} \in D(k)
    <3>1. Max(u) \in u
      BY <2>2, MaxOf
    <3>2. Cardinality(u \ {Max(u)}) = Cardinality(u) - 1
      BY <3>1, <1>0, FS_RemoveElement
    <3>3. Cardinality(u) \in Nat /\ Cardinality(u) <= k + 1
      BY <1>0
    <3>4. Cardinality(u \ {Max(u)}) <= k
      BY <3>2, <3>3
    <3> QED
      BY <3>1, <3>4
  <2> DEFINE G == [u \in D(k + 1) |-> IF u = {} THEN base ELSE step[<<Max(u), F[u \ {Max(u)}]>>]]
  <2>3. G \in [D(k + 1) -> A]
    BY <2>2
  <2>4. \A u \in D(k) : u \in D(k + 1) /\ G[u] = F[u]
    <3> SUFFICES ASSUME NEW u \in D(k) PROVE u \in D(k + 1) /\ G[u] = F[u]
      OBVIOUS
    <3>1. u \in D(k + 1)
      BY <1>0
    <3> QED
      BY <2>1, <3>1
  <2>5. Good(G, k + 1)
    <3> SUFFICES ASSUME NEW u \in D(k + 1)
                 PROVE  G[u] = IF u = {} THEN base ELSE step[<<Max(u), G[u \ {Max(u)}]>>]
      OBVIOUS
    <3>1. u # {} => G[u \ {Max(u)}] = F[u \ {Max(u)}]
      BY <2>2, <2>4
    <3> QED
      BY <3>1
  <2>6. k + 1 \in Nat /\ \E H \in [D(k + 1) -> A] : Good(H, k + 1)
    <3> HIDE DEF G, Good, D
    <3> QED
      BY <2>3, <2>5
  <2> HIDE DEF D, Good
  <2> QED
    BY <2>6
<1> HIDE DEF P
<1>3. n \in P
  BY <1>1, <1>2, Induction
<1>4. D(n) = SUBSET (1 .. n)
  BY <1>0
<1>5. PICK F \in [D(n) -> A] : Good(F, n)
  BY <1>3 DEF P
<1> QED
  BY <1>4, <1>5 DEF Folds

\* The order R on S is strict and total.
StrictOrder(S, R) ==
  /\ \A x \in S : <<x, x>> \notin R
  /\ \A x, y \in S : x # y => <<x, y>> \in R \/ <<y, x>> \in R
  /\ \A x, y, z \in S : <<x, y>> \in R /\ <<y, z>> \in R => <<x, z>> \in R

\* Where a place in the list has an element of that rank, it holds one.
Chooses(S, R, s) ==
  /\ s = [i \in 1 .. Cardinality(S) |-> s[i]]
  /\ \A i \in 1 .. Cardinality(S) : (\E c \in S : Cardinality({d \in S : <<d, c>> \in R}) = i - 1) =>
       s[i] \in S /\ Cardinality({d \in S : <<d, s[i]>> \in R}) = i - 1

\* Every place has one, and the list is sorted.
LEMMA Ranks ==
  ASSUME NEW S, IsFiniteSet(S), NEW R, StrictOrder(S, R), NEW s, Chooses(S, R, s)
  PROVE  /\ s \in [1 .. Cardinality(S) -> S]
         /\ \A c \in S : \E i \in 1 .. Cardinality(S) : s[i] = c
         /\ \A i, j \in 1 .. Cardinality(S) : i < j => <<s[i], s[j]>> \in R
         /\ \A i \in 1 .. Cardinality(S) : Cardinality({d \in S : <<d, s[i]>> \in R}) = i - 1
         /\ \A c \in S : Cardinality({d \in S : <<d, c>> \in R}) \in Nat
<1> DEFINE Below(c) == {d \in S : <<d, c>> \in R}
           n        == Cardinality(S)
           rank     == [c \in S |-> Cardinality(Below(c))]
           place    == [c \in S |-> rank[c] + 1]
<1>0. n \in Nat
  BY FS_CardinalityType
<1>1. \A c \in S : IsFiniteSet(Below(c)) /\ Cardinality(Below(c)) \in Nat
  BY FS_Subset, FS_CardinalityType
<1>2. \A c \in S : rank[c] \in Nat /\ rank[c] < n
  <2> SUFFICES ASSUME NEW c \in S PROVE rank[c] \in Nat /\ rank[c] < n
    OBVIOUS
  <2>1. Below(c) \in SUBSET S /\ Below(c) # S
    BY DEF StrictOrder
  <2>2. Cardinality(Below(c)) <= n /\ Cardinality(Below(c)) # n
    BY <2>1, FS_Subset
  <2>3. rank[c] = Cardinality(Below(c)) /\ Cardinality(Below(c)) \in Nat
    BY <1>1
  <2> HIDE DEF rank, n, Below
  <2> QED
    BY <2>2, <2>3, <1>0
<1>3. \A c, d \in S : <<c, d>> \in R => rank[c] < rank[d]
  <2> SUFFICES ASSUME NEW c \in S, NEW d \in S, <<c, d>> \in R PROVE rank[c] < rank[d]
    OBVIOUS
  <2>1. Below(c) \in SUBSET Below(d)
    BY DEF StrictOrder
  <2>2. c \in Below(d) /\ c \notin Below(c)
    BY DEF StrictOrder
  <2>3. Cardinality(Below(c)) <= Cardinality(Below(d)) /\ Cardinality(Below(c)) # Cardinality(Below(d))
    BY <1>1, <2>1, <2>2, FS_Subset
  <2>4. /\ rank[c] = Cardinality(Below(c)) /\ Cardinality(Below(c)) \in Nat
        /\ rank[d] = Cardinality(Below(d)) /\ Cardinality(Below(d)) \in Nat
    BY <1>1
  <2> HIDE DEF rank, Below
  <2> QED
    BY <2>3, <2>4
<1>31. \A i \in 1 .. n : (\E c \in S : rank[c] = i - 1) => s[i] \in S /\ rank[s[i]] = i - 1
  <2> SUFFICES ASSUME NEW i \in 1 .. n, \E c \in S : rank[c] = i - 1
               PROVE  s[i] \in S /\ rank[s[i]] = i - 1
    OBVIOUS
  <2>2. \E c \in S : Cardinality(Below(c)) = i - 1
    OBVIOUS
  <2>3. s[i] \in S /\ Cardinality(Below(s[i])) = i - 1
    BY <2>2 DEF Chooses
  <2> QED
    BY <2>3
<1>33. \A c \in S : rank[c] = Cardinality({d \in S : <<d, c>> \in R})
  OBVIOUS
<1>32. s \in [1 .. n -> S] <=> \A i \in 1 .. n : s[i] \in S
  BY DEF Chooses
<1> HIDE DEF rank, Below, n
<1>4. \A c, d \in S : rank[c] = rank[d] => c = d
  <2> SUFFICES ASSUME NEW c \in S, NEW d \in S, c # d PROVE rank[c] # rank[d]
    OBVIOUS
  <2>1. <<c, d>> \in R \/ <<d, c>> \in R
    BY DEF StrictOrder
  <2>2. rank[c] < rank[d] \/ rank[d] < rank[c]
    BY <1>3, <2>1
  <2>3. rank[c] \in Nat /\ rank[d] \in Nat
    BY <1>2
  <2> QED
    BY <2>2, <2>3
<1>5. \A c \in S : place[c] \in 1 .. n /\ place[c] = rank[c] + 1
  BY <1>0, <1>2
<1>51. place \in [S -> 1 .. n]
  BY <1>5
<1> HIDE DEF place
<1>6. place \in Injection(S, 1 .. n)
  <2>2. ASSUME NEW c \in S, NEW d \in S, place[c] = place[d] PROVE c = d
    <3>1. rank[c] \in Nat /\ rank[d] \in Nat /\ rank[c] + 1 = rank[d] + 1
      BY <1>2, <1>5, <2>2
    <3>2. rank[c] = rank[d]
      BY <3>1
    <3> QED
      BY <1>4, <3>2
  <2> QED
    BY <1>51, <2>2 DEF Injection, IsInjective
<1>7. IsFiniteSet(1 .. n) /\ Cardinality(1 .. n) = n
  <2>1. IsFiniteSet(1 .. n) /\ Cardinality(1 .. n) = IF 1 > n THEN 0 ELSE n - 1 + 1
    BY <1>0, FS_Interval
  <2> QED
    BY <1>0, <2>1
<1>8. place \in Surjection(S, 1 .. n)
  BY <1>6, <1>7, FS_Injection DEF n
<1>9. ASSUME NEW i \in 1 .. n PROVE \E c \in S : rank[c] = i - 1
  <2>1. PICK c \in S : place[c] = i
    BY <1>8 DEF Surjection
  <2>2. rank[c] \in Nat /\ rank[c] + 1 = i
    BY <1>2, <1>5, <2>1
  <2> QED
    BY <2>2
<1>10. \A i \in 1 .. n : s[i] \in S /\ rank[s[i]] = i - 1
  BY <1>9, <1>31
<1>11. s \in [1 .. n -> S]
  BY <1>32, <1>10
<1>12. ASSUME NEW c \in S PROVE \E i \in 1 .. n : s[i] = c
  <2>1. place[c] \in 1 .. n /\ place[c] = rank[c] + 1 /\ rank[c] \in Nat
    BY <1>2, <1>5
  <2>2. s[place[c]] \in S /\ rank[s[place[c]]] = place[c] - 1
    BY <1>10, <2>1
  <2>3. rank[s[place[c]]] = rank[c]
    BY <2>1, <2>2
  <2> QED
    BY <1>4, <2>1, <2>2, <2>3
<1>13. ASSUME NEW i \in 1 .. n, NEW j \in 1 .. n, i < j PROVE <<s[i], s[j]>> \in R
  <2>1. s[i] \in S /\ s[j] \in S /\ rank[s[i]] = i - 1 /\ rank[s[j]] = j - 1
    BY <1>10
  <2>2. rank[s[i]] < rank[s[j]] /\ ~(rank[s[j]] < rank[s[i]]) /\ rank[s[i]] # rank[s[j]]
    BY <1>0, <1>13, <2>1
  <2>3. ~(<<s[j], s[i]>> \in R)
    BY <1>3, <2>1, <2>2
  <2> QED
    BY <2>1, <2>2, <2>3 DEF StrictOrder
<1>14. \A i \in 1 .. n : Cardinality({d \in S : <<d, s[i]>> \in R}) = i - 1
  BY <1>10, <1>33
<1>15. \A c \in S : Cardinality({d \in S : <<d, c>> \in R}) \in Nat
  BY <1>2, <1>33
<1> QED
  BY <1>11, <1>12, <1>13, <1>14, <1>15 DEF n
-----------------------------------------------------------------------------
(* pk context: one copy of each *)

Candidate == [scope : Scope, id : Id, text : Text, score : Nat]
Progress  == [kept : SUBSET Candidate, ids : SUBSET Id, bodies : SUBSET {Body[t] : t \in Text}]
Nothing   == [kept |-> {}, ids |-> {}, bodies |-> {}]

LEMMA KeepOneType ==
  ASSUME NEW found \in Progress, NEW c \in Candidate
  PROVE  /\ KeepOne(found, c) \in Progress
         /\ KeepOne(found, c).ids = found.ids \cup {c.id}
         /\ c.id \in found.ids \/ Body[c.text] \in found.bodies =>
              KeepOne(found, c).kept = found.kept /\ KeepOne(found, c).bodies = found.bodies
         /\ ~(c.id \in found.ids \/ Body[c.text] \in found.bodies) =>
              /\ KeepOne(found, c).kept = found.kept \cup {c}
              /\ KeepOne(found, c).bodies = found.bodies \cup {Body[c.text]}
<1>1. c.id \in Id /\ c.text \in Text
  BY DEF Candidate
<1>2. CASE c.id \in found.ids
  BY <1>2 DEF KeepOne, Progress
<1>3. CASE c.id \notin found.ids /\ Body[c.text] \in found.bodies
  <2>1. KeepOne(found, c) = [found EXCEPT !.ids = found.ids \cup {c.id}]
    BY <1>3 DEF KeepOne
  <2> QED
    BY <1>1, <1>3, <2>1 DEF Progress
<1>4. CASE c.id \notin found.ids /\ Body[c.text] \notin found.bodies
  <2>1. KeepOne(found, c) = [kept |-> found.kept \cup {c}, ids |-> found.ids \cup {c.id},
                             bodies |-> found.bodies \cup {Body[c.text]}]
    BY <1>4 DEF KeepOne
  <2> QED
    BY <1>1, <1>4, <2>1 DEF Progress
<1> QED
  BY <1>2, <1>3, <1>4

\* The fold, step by step.
LEMMA KeepSteps ==
  ASSUME NEW n \in Nat, NEW seq \in [1 .. n -> Candidate]
  PROVE  \E acc \in [0 .. n -> Progress] :
           /\ acc[0] = Nothing
           /\ \A k \in 1 .. n : acc[k] = KeepOne(acc[k - 1], seq[k])
           /\ acc[n] = FoldLeft(KeepOne, Nothing, seq)
<1> DEFINE step == [x \in (1 .. n) \X Progress |-> KeepOne(x[2], seq[x[1]])]
           It(F) == F = [u \in SUBSET (1 .. n) |-> IF u = {} THEN Nothing
                                                   ELSE KeepOne(F[u \ {Max(u)}], seq[Max(u)])]
           iter == CHOOSE F : It(F)
<1>1. FoldLeft(KeepOne, Nothing, seq) = iter[1 .. n]
  <2>1. DOMAIN seq = 1 .. n
    OBVIOUS
  <2> QED
    BY Zenon, <2>1 DEF FoldLeft, MapThenFoldSet
<1>2. Nothing \in Progress
  BY DEF Nothing, Progress
<1>3. step \in [(1 .. n) \X Progress -> Progress]
  BY KeepOneType
<1>31. PICK F : Folds(F, n, Progress, Nothing, step)
  <2> HIDE DEF step
  <2> QED
    BY <1>2, <1>3, Iterates
<1>4. /\ F \in [SUBSET (1 .. n) -> Progress]
      /\ \A u \in SUBSET (1 .. n) : F[u] = IF u = {} THEN Nothing ELSE step[<<Max(u), F[u \ {Max(u)}]>>]
  <2> HIDE DEF step
  <2> QED
    BY <1>31 DEF Folds
<1>5. It(F)
  <2>1. ASSUME NEW u \in SUBSET (1 .. n)
        PROVE  F[u] = IF u = {} THEN Nothing ELSE KeepOne(F[u \ {Max(u)}], seq[Max(u)])
    <3>1. CASE u = {}
      BY <1>4, <3>1
    <3>2. CASE u # {}
      <4>1. Max(u) \in 1 .. n
        BY <3>2, MaxOf
      <4>2. F[u \ {Max(u)}] \in Progress
        BY <1>4
      <4> QED
        BY <1>4, <3>2, <4>1, <4>2
    <3> QED
      BY <3>1, <3>2
  <2> QED
    BY <1>4, <2>1
<1> HIDE DEF It
<1>6. It(iter)
  BY <1>5
<1> HIDE DEF iter
<1>7. \A u \in SUBSET (1 .. n) : iter[u] = IF u = {} THEN Nothing ELSE KeepOne(iter[u \ {Max(u)}], seq[Max(u)])
  BY <1>6 DEF It
<1> DEFINE acc == [k \in 0 .. n |-> iter[1 .. k]]
<1>8. acc[0] = Nothing
  <2>1. 1 .. 0 = {} /\ 0 \in 0 .. n
    OBVIOUS
  <2> QED
    BY <1>7, <2>1
<1>9. ASSUME NEW k \in 1 .. n PROVE acc[k] = KeepOne(acc[k - 1], seq[k]) /\ k - 1 \in 0 .. n
  <2>0. k \in 0 .. n /\ k - 1 \in 0 .. n /\ k \in Nat \ {0}
    OBVIOUS
  <2>01. k \in 1 .. k
    BY <2>0
  <2>02. \A i \in 1 .. k : i \in 1 .. n
    OBVIOUS
  <2>1. 1 .. k \in SUBSET (1 .. n) /\ 1 .. k # {} /\ k \in 0 .. n /\ k - 1 \in 0 .. n /\ k \in Nat \ {0}
    BY <2>0, <2>01, <2>02
  <2>2. Max(1 .. k) = k /\ (1 .. k) \ {Max(1 .. k)} = 1 .. k - 1
    BY <2>1, MaxOfInterval
  <2>3. iter[1 .. k] = KeepOne(iter[1 .. k - 1], seq[k])
    BY <1>7, <2>1, <2>2
  <2> QED
    BY <2>1, <2>3
<1>10. \A k \in 0 .. n : acc[k] \in Progress
  <2> DEFINE P == {k \in Nat : k <= n => acc[k] \in Progress}
  <2> HIDE DEF acc
  <2>1. 0 \in P
    BY <1>2, <1>8
  <2>2. ASSUME NEW k \in Nat, k \in P PROVE k + 1 \in P
    <3> SUFFICES ASSUME k + 1 <= n PROVE acc[k + 1] \in Progress
      OBVIOUS
    <3>1. k + 1 \in 1 .. n /\ k + 1 - 1 = k /\ k <= n
      OBVIOUS
    <3>2. acc[k] \in Progress
      BY <2>2, <3>1
    <3>3. acc[k + 1] = KeepOne(acc[k], seq[k + 1]) /\ seq[k + 1] \in Candidate
      BY <1>9, <3>1
    <3> QED
      BY <3>2, <3>3, KeepOneType
  <2> HIDE DEF P
  <2>3. \A k \in Nat : k \in P
    BY <2>1, <2>2, Induction
  <2> QED
    BY <2>3 DEF P
<1>11. acc \in [0 .. n -> Progress] /\ acc[n] = FoldLeft(KeepOne, Nothing, seq)
  <2>1. n \in 0 .. n
    OBVIOUS
  <2>2. acc \in [0 .. n -> Progress]
    BY <1>10
  <2> QED
    BY <1>1, <2>1, <2>2
<1> HIDE DEF acc
<1> QED
  BY <1>8, <1>9, <1>11

KeptOf(seq) == FoldLeft(KeepOne, Nothing, seq).kept

\* What KeepOne keeps of a list of candidates without repetitions: no two share an id or a
\* text, the first of an id is the one that may stay, and what is dropped comes after its like.
LEMMA KeptOfList ==
  ASSUME NEW n \in Nat, NEW seq \in [1 .. n -> Candidate], NEW result,
         result = KeptOf(seq)
  PROVE  /\ \A c \in result : \E i \in 1 .. n : seq[i] = c
         /\ \A c, d \in result : Duplicate(c, d) => c = d
         /\ \A c \in result, j \in 1 .. n : c.id = seq[j].id => \E i \in 1 .. n : i <= j /\ seq[i] = c
         /\ \A j \in 1 .. n : seq[j] \notin result =>
              \E i \in 1 .. n : i < j /\ Duplicate(seq[i], seq[j])
<1>1. PICK acc \in [0 .. n -> Progress] :
           /\ acc[0] = Nothing
           /\ \A k \in 1 .. n : acc[k] = KeepOne(acc[k - 1], seq[k])
           /\ acc[n] = FoldLeft(KeepOne, Nothing, seq)
  BY KeepSteps
<1> DEFINE Good(k) ==
             /\ \A x \in acc[k].ids : \E i \in 1 .. k : seq[i].id = x
             /\ \A i \in 1 .. k : seq[i].id \in acc[k].ids
             /\ \A x \in acc[k].bodies : \E c \in acc[k].kept : Body[c.text] = x
             /\ \A c \in acc[k].kept : c.id \in acc[k].ids /\ Body[c.text] \in acc[k].bodies
             /\ \A c \in acc[k].kept : \E i \in 1 .. k : seq[i] = c
             /\ \A c, d \in acc[k].kept : c.id = d.id \/ Body[c.text] = Body[d.text] => c = d
             /\ \A c \in acc[k].kept, j \in 1 .. k : c.id = seq[j].id => \E i \in 1 .. k : i <= j /\ seq[i] = c
             /\ \A j \in 1 .. k : seq[j] \notin acc[k].kept =>
                  \E i \in 1 .. k : i < j /\ (seq[i].id = seq[j].id \/ Body[seq[i].text] = Body[seq[j].text])
           P == {k \in Nat : k <= n => Good(k)}
<1>2. 0 \in P
  <2>1. 1 .. 0 = {}
    OBVIOUS
  <2> QED
    BY <1>1, <2>1 DEF Nothing
<1>3. ASSUME NEW k \in Nat, k \in P PROVE k + 1 \in P
  <2>0. k + 1 \in Nat /\ (k + 1 <= n => Good(k + 1)) => k + 1 \in P
    <3> HIDE DEF Good
    <3> QED
      OBVIOUS
  <2> SUFFICES ASSUME k + 1 <= n PROVE Good(k + 1)
    <3> HIDE DEF P
    <3> QED
      BY <2>0
  <2> DEFINE c == seq[k + 1]
             old == acc[k]
             new == acc[k + 1]
  <2>1. k + 1 \in 1 .. n /\ k + 1 - 1 = k /\ k <= n /\ k \in 0 .. n
    OBVIOUS
  <2>2. Good(k)
    BY <1>3, <2>1
  <2>3. old \in Progress /\ c \in Candidate /\ new = KeepOne(old, c)
    BY <1>1, <2>1
  <2>4. /\ new.ids = old.ids \cup {c.id}
        /\ c.id \in old.ids \/ Body[c.text] \in old.bodies => new.kept = old.kept /\ new.bodies = old.bodies
        /\ ~(c.id \in old.ids \/ Body[c.text] \in old.bodies) =>
              new.kept = old.kept \cup {c} /\ new.bodies = old.bodies \cup {Body[c.text]}
    <3> HIDE DEF c, old, new
    <3>1. KeepOne(old, c) = new
      BY <2>3
    <3>2. /\ KeepOne(old, c).ids = old.ids \cup {c.id}
          /\ c.id \in old.ids \/ Body[c.text] \in old.bodies =>
               KeepOne(old, c).kept = old.kept /\ KeepOne(old, c).bodies = old.bodies
          /\ ~(c.id \in old.ids \/ Body[c.text] \in old.bodies) =>
               /\ KeepOne(old, c).kept = old.kept \cup {c}
               /\ KeepOne(old, c).bodies = old.bodies \cup {Body[c.text]}
      BY Zenon, <2>3, KeepOneType
    <3> QED
      BY <3>1, <3>2
  <2>5. /\ \A i \in 1 .. k + 1 : i \in 1 .. k \/ i = k + 1
        /\ \A i \in 1 .. k : i \in 1 .. k + 1 /\ i < k + 1 /\ i <= k + 1
        /\ k + 1 \in 1 .. k + 1 /\ k + 1 <= k + 1
    OBVIOUS
  <2> HIDE DEF Good
  <2>6. /\ \A x \in old.ids : \E i \in 1 .. k : seq[i].id = x
        /\ \A i \in 1 .. k : seq[i].id \in old.ids
        /\ \A x \in old.bodies : \E d \in old.kept : Body[d.text] = x
        /\ \A d \in old.kept : d.id \in old.ids /\ Body[d.text] \in old.bodies
        /\ \A d \in old.kept : \E i \in 1 .. k : seq[i] = d
        /\ \A d, e \in old.kept : d.id = e.id \/ Body[d.text] = Body[e.text] => d = e
        /\ \A d \in old.kept, j \in 1 .. k : d.id = seq[j].id => \E i \in 1 .. k : i <= j /\ seq[i] = d
        /\ \A j \in 1 .. k : seq[j] \notin old.kept =>
             \E i \in 1 .. k : i < j /\ (seq[i].id = seq[j].id \/ Body[seq[i].text] = Body[seq[j].text])
    BY <2>2 DEF Good
  <2>7. c = seq[k + 1]
    OBVIOUS
  <2> HIDE DEF c, old, new
  <2>8. /\ \A x \in new.ids : \E i \in 1 .. k + 1 : seq[i].id = x
        /\ \A i \in 1 .. k + 1 : seq[i].id \in new.ids
    BY <2>4, <2>5, <2>6, <2>7
  <2>9. CASE c.id \in old.ids \/ Body[c.text] \in old.bodies
    <3>1. new.kept = old.kept /\ new.bodies = old.bodies
      BY <2>4, <2>9
    <3>2. \A d \in old.kept : d.id = c.id => \E i \in 1 .. k : seq[i] = d
      BY <2>6
    <3>3. c \notin new.kept => \E i \in 1 .. k : seq[i].id = c.id \/ Body[seq[i].text] = Body[c.text]
      <4>1. CASE c.id \in old.ids
        BY <2>6, <4>1
      <4>2. CASE Body[c.text] \in old.bodies
        <5>1. PICK d \in old.kept : Body[d.text] = Body[c.text]
          BY <2>6, <4>2
        <5> QED
          BY <2>6, <5>1
      <4> QED
        BY <2>9, <4>1, <4>2
    <3>4. \A d \in new.kept, j \in 1 .. k + 1 : d.id = seq[j].id => \E i \in 1 .. k + 1 : i <= j /\ seq[i] = d
      <4> SUFFICES ASSUME NEW d \in new.kept, NEW j \in 1 .. k + 1, d.id = seq[j].id
                   PROVE  \E i \in 1 .. k + 1 : i <= j /\ seq[i] = d
        OBVIOUS
      <4>1. CASE j \in 1 .. k
        BY <2>5, <2>6, <3>1, <4>1
      <4>2. CASE j = k + 1
        <5>1. PICK i \in 1 .. k : seq[i] = d
          BY <2>7, <3>1, <3>2, <4>2
        <5> QED
          BY <2>5, <4>2, <5>1
      <4> QED
        BY <2>5, <4>1, <4>2
    <3>5. \A j \in 1 .. k + 1 : seq[j] \notin new.kept =>
             \E i \in 1 .. k + 1 : i < j /\ (seq[i].id = seq[j].id \/ Body[seq[i].text] = Body[seq[j].text])
      BY <2>5, <2>6, <2>7, <3>1, <3>3
    <3>6. /\ \A x \in new.bodies : \E d \in new.kept : Body[d.text] = x
          /\ \A d \in new.kept : d.id \in new.ids /\ Body[d.text] \in new.bodies
          /\ \A d \in new.kept : \E i \in 1 .. k + 1 : seq[i] = d
          /\ \A d, e \in new.kept : d.id = e.id \/ Body[d.text] = Body[e.text] => d = e
      BY <2>4, <2>5, <2>6, <3>1
    <3> QED
      BY <2>8, <3>4, <3>5, <3>6 DEF Good, new
  <2>10. CASE ~(c.id \in old.ids \/ Body[c.text] \in old.bodies)
    <3>1. new.kept = old.kept \cup {c} /\ new.bodies = old.bodies \cup {Body[c.text]}
      BY <2>4, <2>10
    <3>2. \A d \in old.kept : d.id # c.id /\ Body[d.text] # Body[c.text]
      BY <2>6, <2>10
    <3>3. \A j \in 1 .. k : seq[j].id # c.id
      BY <2>6, <2>10
    <3>4. \A d \in new.kept, j \in 1 .. k + 1 : d.id = seq[j].id => \E i \in 1 .. k + 1 : i <= j /\ seq[i] = d
      BY <2>5, <2>6, <2>7, <3>1, <3>2, <3>3
    <3>5. \A j \in 1 .. k + 1 : seq[j] \notin new.kept =>
             \E i \in 1 .. k + 1 : i < j /\ (seq[i].id = seq[j].id \/ Body[seq[i].text] = Body[seq[j].text])
      BY <2>5, <2>6, <2>7, <3>1
    <3>6. /\ \A x \in new.bodies : \E d \in new.kept : Body[d.text] = x
          /\ \A d \in new.kept : d.id \in new.ids /\ Body[d.text] \in new.bodies
          /\ \A d \in new.kept : \E i \in 1 .. k + 1 : seq[i] = d
          /\ \A d, e \in new.kept : d.id = e.id \/ Body[d.text] = Body[e.text] => d = e
      BY <2>4, <2>5, <2>6, <2>7, <3>1, <3>2
    <3> QED
      BY <2>8, <3>4, <3>5, <3>6 DEF Good, new
  <2> QED
    BY <2>9, <2>10
<1> HIDE DEF P, Good
<1>4. n \in P
  BY <1>2, <1>3, Induction
<1>5. Good(n)
  BY <1>4 DEF P
<1>6. result = acc[n].kept
  BY <1>1 DEF KeptOf
<1> QED
  BY <1>5, <1>6 DEF Good, Duplicate

-----------------------------------------------------------------------------
(* pk context: what it ranks *)

Single(A)   == \A a, b \in A : a = b
OneEach(E)  == IsFiniteSet(E) /\ \A d, e \in E : d.id = e.id => d = e

\* What the roots and their snapshots hold: one entry of an id.
RootsInv ==
  /\ wiki \in [Root -> SUBSET Entry] /\ snapshot \in [Root -> [Scope -> SUBSET SUBSET Entry]]
  /\ \A r \in Root : OneEach(wiki[r])
  /\ \A r \in Root, s \in Scope : Single(snapshot[r][s]) /\ \A held \in snapshot[r][s] : OneEach(held)

\* The last entry written is in its root, and in the snapshot published there with it.
LastInv ==
  \A l \in last :
    /\ l.entry \in Entry /\ l.place \in Place /\ l.label \in {"project", "shared"}
    /\ \A r \in ResolveKb(l.place, l.label = "shared") :
         l.entry \in wiki[r] /\ \E held \in snapshot[r][l.label] : l.entry \in held

LEMMA Roots ==
  ASSUME NEW place \in Place
  PROVE  /\ Single(place.kb) /\ place.kb \subseteq Root /\ place.inside \in BOOLEAN
         /\ \A shared \in BOOLEAN : ResolveKb(place, shared) \subseteq Root /\ Single(ResolveKb(place, shared))
         /\ \A s \in Scope : RootForScope(place, s) \subseteq Root /\ Single(RootForScope(place, s))
<1>1. Single(place.kb) /\ place.kb \subseteq Root /\ place.inside \in BOOLEAN
  BY RecallAssumption DEF Place, Single
<1>2. "project" \in Root /\ "shared" \in Root /\ "global" \in Root /\ Scope \subseteq Root
  BY DEF Root, Scope
<1>3. ASSUME NEW shared \in BOOLEAN PROVE ResolveKb(place, shared) \subseteq Root /\ Single(ResolveKb(place, shared))
  BY <1>1, <1>2 DEF ResolveKb, Single
<1>4. ASSUME NEW s \in Scope PROVE RootForScope(place, s) \subseteq Root /\ Single(RootForScope(place, s))
  BY <1>1, <1>2 DEF RootForScope, Single
<1> QED
  BY <1>1, <1>3, <1>4

LEMMA UpsertedOneEach ==
  ASSUME RootsInv, NEW r \in Root, NEW e \in Entry
  PROVE  Upserted(r, e) \in SUBSET Entry /\ OneEach(Upserted(r, e)) /\ e \in Upserted(r, e)
<1>1. wiki[r] \in SUBSET Entry /\ IsFiniteSet(wiki[r]) /\ \A d, f \in wiki[r] : d.id = f.id => d = f
  BY DEF RootsInv, OneEach
<1>2. IsFiniteSet({d \in wiki[r] : d.id # e.id})
  BY <1>1, FS_Subset
<1>3. IsFiniteSet({d \in wiki[r] : d.id # e.id} \cup {e})
  BY <1>2, FS_AddElement
<1> QED
  BY <1>1, <1>3 DEF Upserted, OneEach

\* A command that writes an entry.
LEMMA WriteStep ==
  ASSUME RootsInv, LastInv, NEW r \in Root, NEW label \in {"project", "shared"}, NEW e \in Entry,
         NEW place \in Place, ResolveKb(place, label = "shared") = {r}, Write(r, label, e, place)
  PROVE  RootsInv' /\ LastInv'
<1> DEFINE new == Upserted(r, e)
<1>1. new \in SUBSET Entry /\ OneEach(new) /\ e \in new
  BY UpsertedOneEach
<1>2. label \in Scope
  BY DEF Scope
<1>3. wiki' = [wiki EXCEPT ![r] = new]
  BY DEF Write
<1>4. \/ snapshot' = [snapshot EXCEPT ![r][label] = {new}] /\ last' = {[entry |-> e, place |-> place, label |-> label]}
      \/ snapshot' = snapshot /\ last' = {}
  BY DEF Write
<1> HIDE DEF new
<1>5. wiki' \in [Root -> SUBSET Entry] /\ \A q \in Root : OneEach(wiki'[q])
  BY <1>1, <1>3 DEF RootsInv
<1>6. CASE snapshot' = [snapshot EXCEPT ![r][label] = {new}] /\ last' = {[entry |-> e, place |-> place, label |-> label]}
  <2>1. snapshot' \in [Root -> [Scope -> SUBSET SUBSET Entry]]
    BY <1>1, <1>2, <1>6 DEF RootsInv
  <2>2. \A q \in Root, s \in Scope : snapshot'[q][s] = snapshot[q][s] \/ snapshot'[q][s] = {new}
    BY <1>2, <1>6 DEF RootsInv
  <2>3. snapshot'[r][label] = {new} /\ wiki'[r] = new
    BY <1>2, <1>3, <1>6 DEF RootsInv
  <2>4. RootsInv'
    <3>1. ASSUME NEW q \in Root, NEW s \in Scope
          PROVE  Single(snapshot'[q][s]) /\ \A held \in snapshot'[q][s] : OneEach(held)
      <4>1. CASE snapshot'[q][s] = snapshot[q][s]
        BY <4>1 DEF RootsInv
      <4>2. CASE snapshot'[q][s] = {new}
        BY <1>1, <4>2 DEF Single
      <4> QED
        BY <2>2, <4>1, <4>2
    <3> QED
      BY <1>5, <2>1, <3>1 DEF RootsInv
  <2>5. LastInv'
    BY <1>1, <1>6, <2>3 DEF LastInv
  <2> QED
    BY <2>4, <2>5
<1>7. CASE snapshot' = snapshot /\ last' = {}
  BY <1>5, <1>7 DEF RootsInv, LastInv
<1> QED
  BY <1>4, <1>6, <1>7

\* A publication of some roots: each snapshot it replaces holds what the root does.
LEMMA PublishStep ==
  ASSUME RootsInv, LastInv, wiki' = wiki, last' = last,
         NEW new \in [Root -> [Scope -> SUBSET SUBSET Entry]], snapshot' = new,
         \A r \in Root, s \in Scope : new[r][s] = snapshot[r][s] \/ new[r][s] = {wiki[r]}
  PROVE  RootsInv' /\ LastInv'
<1>1. RootsInv'
  BY DEF RootsInv, Single
<1>2. ASSUME NEW l \in last, NEW r \in ResolveKb(l.place, l.label = "shared")
      PROVE  l.entry \in wiki[r] /\ \E held \in new[r][l.label] : l.entry \in held
  <2>1. l.place \in Place /\ l.label \in Scope
    BY DEF LastInv, Scope
  <2>2. r \in Root
    BY <2>1, Roots
  <2>3. l.entry \in wiki[r] /\ \E held \in snapshot[r][l.label] : l.entry \in held
    BY DEF LastInv
  <2> QED
    BY <2>1, <2>2, <2>3
<1>3. LastInv'
  BY <1>2 DEF LastInv
<1> QED
  BY <1>1, <1>3

LEMMA RecallStart == RecallInit => RootsInv /\ LastInv
<1> SUFFICES ASSUME RecallInit PROVE RootsInv /\ LastInv
  OBVIOUS
<1>1. OneEach({})
  BY FS_EmptySet DEF OneEach
<1> QED
  BY <1>1 DEF RecallInit, RootsInv, LastInv, Single

LEMMA RecallStep ==
  ASSUME RootsInv, LastInv, [RecallNext]_recallVars
  PROVE  RootsInv' /\ LastInv'
<1>0. "project" \in Root /\ "shared" \in Root /\ [kb |-> {}, inside |-> TRUE] \in Place
      /\ [kb |-> {}, inside |-> FALSE] \in Place
  BY DEF Root, Scope, Place
<1>1. ASSUME NEW place \in Place, NEW shared \in BOOLEAN, NEW e \in Entry, Ingest(place, shared, e)
      PROVE  RootsInv' /\ LastInv'
  <2>1. PICK r \in ResolveKb(place, shared) : Write(r, Label(shared), e, place)
    BY <1>1 DEF Ingest
  <2>2. Label(shared) \in {"project", "shared"} /\ (Label(shared) = "shared") = shared
    BY DEF Label
  <2>3. r \in Root /\ ResolveKb(place, shared) = {r}
    BY Roots DEF Single
  <2> QED
    BY <2>1, <2>2, <2>3, WriteStep
<1>2. ASSUME NEW e \in Entry, Accept(e) PROVE RootsInv' /\ LastInv'
  <2>1. ResolveKb([kb |-> {}, inside |-> FALSE], "shared" = "shared") = {"shared"}
    BY DEF ResolveKb
  <2> QED
    BY <1>0, <1>2, <2>1, WriteStep DEF Accept
<1>3. ASSUME NEW shared \in BOOLEAN, NEW e \in Entry, WriteFromJob(shared, e) PROVE RootsInv' /\ LastInv'
  <2>1. Label(shared) \in {"project", "shared"} /\ Label(shared) \in Root
    BY <1>0 DEF Label
  <2>2. ResolveKb([kb |-> {}, inside |-> TRUE], Label(shared) = "shared") = {Label(shared)}
    BY DEF ResolveKb, Label
  <2> QED
    BY <1>0, <1>3, <2>1, <2>2, WriteStep DEF WriteFromJob
<1>4. ASSUME NEW server \in Server, Serve(server) PROVE RootsInv' /\ LastInv'
  <2>1. server.root \in Root /\ server.label \in Scope
    BY RecallAssumption
  <2> DEFINE new == [snapshot EXCEPT ![server.root][server.label] = {wiki[server.root]}]
  <2>2. new \in [Root -> [Scope -> SUBSET SUBSET Entry]]
    BY <2>1 DEF RootsInv
  <2>3. \A r \in Root, s \in Scope : new[r][s] = snapshot[r][s] \/ new[r][s] = {wiki[r]}
    BY <2>1 DEF RootsInv
  <2>4. snapshot' = new /\ wiki' = wiki /\ last' = last
    BY <1>4 DEF Serve
  <2> HIDE DEF new
  <2> QED
    BY <2>2, <2>3, <2>4, PublishStep
<1>5. ASSUME NEW place \in Place, NEW scopes \in SUBSET Scope, Snapshot(place, scopes) PROVE RootsInv' /\ LastInv'
  <2> DEFINE new == [r \in Root |-> [s \in Scope |-> IF s \in AllScopes(scopes) /\ r \in Published(place, s)
                                                     THEN {wiki[r]} ELSE snapshot[r][s]]]
  <2>2. new \in [Root -> [Scope -> SUBSET SUBSET Entry]]
    BY DEF RootsInv
  <2>3. \A r \in Root, s \in Scope : new[r][s] = snapshot[r][s] \/ new[r][s] = {wiki[r]}
    OBVIOUS
  <2>4. snapshot' = new /\ wiki' = wiki /\ last' = last
    BY <1>5 DEF Snapshot
  <2> HIDE DEF new
  <2> QED
    BY <2>2, <2>3, <2>4, PublishStep
<1>6. ASSUME NEW r \in Root, Break(r) PROVE RootsInv' /\ LastInv'
  <2>1. PICK e \in wiki[r] : wiki' = [wiki EXCEPT ![r] = wiki[r] \ {e}]
    BY <1>6 DEF Break
  <2>2. snapshot' = snapshot /\ last' = {}
    BY <1>6 DEF Break
  <2>3. wiki[r] \ {e} \in SUBSET Entry /\ OneEach(wiki[r] \ {e})
    BY FS_Subset DEF RootsInv, OneEach
  <2>4. wiki' \in [Root -> SUBSET Entry] /\ \A q \in Root : OneEach(wiki'[q])
    BY <2>1, <2>3 DEF RootsInv
  <2> QED
    BY <2>2, <2>4 DEF RootsInv, LastInv
<1>7. ASSUME NEW r \in Root, Repair(r) PROVE RootsInv' /\ LastInv'
  BY <1>7 DEF Repair, RootsInv, LastInv
<1>8. CASE UNCHANGED recallVars
  BY <1>8 DEF recallVars, RootsInv, LastInv
<1>9. \A e \in Offered : e \in Entry
  BY RecallAssumption
<1> QED
  BY <1>1, <1>2, <1>3, <1>4, <1>5, <1>6, <1>7, <1>8, <1>9 DEF RecallNext

LEMMA RecallInvariant == RecallSpec => [](RootsInv /\ LastInv)
<1>1. RecallInit => RootsInv /\ LastInv
  BY RecallStart
<1>2. RootsInv /\ LastInv /\ [RecallNext]_recallVars => (RootsInv /\ LastInv)'
  BY RecallStep
<1> QED
  BY <1>1, <1>2, PTL DEF RecallSpec

LEMMA EverythingType ==
  Everything.scopes = {} /\ Everything.tagged = FALSE /\ Everything.query \in Blank
BY RecallAssumption DEF Everything

LEMMA Scores ==
  ASSUME NEW q \in Query, NEW text \in Text
  PROVE  Score(q, text) \in Nat
BY RecallAssumption DEF Score

LEMMA ContextCandidatesType ==
  ASSUME RootsInv, NEW place \in Place, NEW request \in Request, NEW S, S = ContextCandidates(place, request)
  PROVE  /\ S \in SUBSET Candidate /\ IsFiniteSet(S)
         /\ \A c, d \in S : c.scope = d.scope /\ c.id = d.id => c = d
<1> DEFINE Of(e, s) == [scope |-> s, id |-> e.id, text |-> e.text, score |-> Score(request.query, e.text)]
           Fit(s)   == {d \in Held(place, s) : /\ request.tagged => d.text \in Tagged
                                              /\ Score(request.query, d.text) > 0}
           Part(s)  == {Of(e, s) : e \in Fit(s)}
<1>1. ASSUME NEW s \in Scope PROVE Held(place, s) \in SUBSET Entry /\ OneEach(Held(place, s))
  <2>1. RootForScope(place, s) \subseteq Root /\ Single(RootForScope(place, s))
    BY Roots
  <2>2. CASE RootForScope(place, s) = {}
    <3>1. Held(place, s) = {}
      BY <2>2 DEF Held
    <3> QED
      BY <3>1, FS_EmptySet DEF OneEach
  <2>3. ASSUME NEW r \in RootForScope(place, s) PROVE Held(place, s) \in SUBSET Entry /\ OneEach(Held(place, s))
    <3>1. r \in Root /\ RootForScope(place, s) = {r}
      BY <2>1 DEF Single
    <3>2. Held(place, s) = UNION snapshot[r][s]
      BY <3>1 DEF Held
    <3>3. snapshot[r][s] \in SUBSET SUBSET Entry /\ Single(snapshot[r][s])
          /\ \A held \in snapshot[r][s] : OneEach(held)
      BY <3>1 DEF RootsInv
    <3>4. CASE snapshot[r][s] = {}
      <4>1. Held(place, s) = {}
        BY <3>2, <3>4
      <4> QED
        BY <4>1, FS_EmptySet DEF OneEach
    <3>5. ASSUME NEW held \in snapshot[r][s] PROVE Held(place, s) \in SUBSET Entry /\ OneEach(Held(place, s))
      <4>1. snapshot[r][s] = {held}
        BY <3>3 DEF Single
      <4>2. Held(place, s) = held
        BY <3>2, <4>1
      <4> QED
        BY <3>3, <4>2
    <3> QED
      BY <3>4, <3>5
  <2> QED
    BY <2>2, <2>3
<1>2. request.query \in Query /\ AllScopes(request.scopes) \subseteq Scope
  BY DEF Request, AllScopes
<1>3. ASSUME NEW s \in Scope PROVE Part(s) \in SUBSET Candidate /\ IsFiniteSet(Part(s))
  <2>1. \A e \in Fit(s) : e \in Entry /\ e.id \in Id /\ e.text \in Text
    BY <1>1 DEF Entry
  <2>2. \A e \in Fit(s) : Of(e, s) \in Candidate
    <3> SUFFICES ASSUME NEW e \in Fit(s) PROVE Of(e, s) \in Candidate
      OBVIOUS
    <3>1. Score(request.query, e.text) \in Nat
      BY <1>2, <2>1, Scores
    <3> HIDE DEF Fit
    <3> QED
      BY <2>1, <3>1 DEF Candidate
  <2>3. IsFiniteSet(Fit(s))
    BY <1>1, FS_Subset DEF OneEach
  <2> DEFINE f == [e \in Fit(s) |-> Of(e, s)]
  <2>4. f \in Surjection(Fit(s), Part(s))
    <3> HIDE DEF Fit
    <3> QED
      BY DEF Surjection
  <2> HIDE DEF f, Fit
  <2>5. IsFiniteSet(Part(s))
    <3> HIDE DEF Part
    <3> QED
      BY <2>3, <2>4, FS_Surjection
  <2> QED
    BY <2>2, <2>5
<1> DEFINE Parts == {Part(s) : s \in AllScopes(request.scopes)}
<1>4. S = UNION Parts
  BY DEF ContextCandidates
<1>5. IsFiniteSet(Parts) /\ \A A \in Parts : IsFiniteSet(A)
  <2>1. IsFiniteSet(Scope)
    <3>1. IsFiniteSet({"project", "shared"} \cup {"global"})
      <4>1. IsFiniteSet({"project"} \cup {"shared"})
        BY FS_Singleton, FS_AddElement
      <4>2. {"project"} \cup {"shared"} = {"project", "shared"}
        OBVIOUS
      <4> QED
        BY <4>1, <4>2, FS_AddElement
    <3>2. Scope = {"project", "shared"} \cup {"global"}
      BY DEF Scope
    <3> QED
      BY <3>1, <3>2
  <2>2. IsFiniteSet(AllScopes(request.scopes))
    BY <1>2, <2>1, FS_Subset
  <2> HIDE DEF Part
  <2> DEFINE f == [s \in AllScopes(request.scopes) |-> Part(s)]
  <2>3. f \in Surjection(AllScopes(request.scopes), Parts)
    BY DEF Surjection
  <2> HIDE DEF f
  <2>4. IsFiniteSet(Parts)
    <3> HIDE DEF Parts
    <3> QED
      BY <2>2, <2>3, FS_Surjection
  <2> QED
    BY <1>2, <1>3, <2>4
<1>6. IsFiniteSet(S)
  <2> HIDE DEF Parts
  <2> QED
    BY <1>4, <1>5, FS_UNION
<1>7. \A c \in S : c \in Part(c.scope) /\ c.scope \in Scope /\ c \in Candidate
  <2> SUFFICES ASSUME NEW c \in S PROVE c \in Part(c.scope) /\ c.scope \in Scope /\ c \in Candidate
    OBVIOUS
  <2>1. PICK s \in AllScopes(request.scopes) : c \in Part(s)
    <3> HIDE DEF Part
    <3> QED
      BY <1>4
  <2>2. c.scope = s
    BY <2>1
  <2> HIDE DEF Part
  <2> QED
    BY <1>2, <1>3, <2>1, <2>2
<1>8. ASSUME NEW c \in S, NEW d \in S, c.scope = d.scope, c.id = d.id PROVE c = d
  <2> DEFINE s == c.scope
  <2>1. s \in Scope /\ c \in Part(s) /\ d \in Part(s)
    BY <1>7, <1>8
  <2>2. PICK e \in Fit(s) : c = Of(e, s)
    BY <2>1
  <2>3. PICK f \in Fit(s) : d = Of(f, s)
    BY <2>1
  <2>4. e.id = f.id
    BY <1>8, <2>2, <2>3
  <2>5. e = f
    BY <1>1, <2>1, <2>4 DEF OneEach
  <2> QED
    BY <2>2, <2>3, <2>5
<1> HIDE DEF Part
<1>9. \A c, d \in S : c.scope = d.scope /\ c.id = d.id => c = d
  BY <1>8
<1> QED
  BY <1>6, <1>7, <1>9

LEMMA OutranksOrders ==
  ASSUME NEW S \in SUBSET Candidate, \A c, d \in S : c.scope = d.scope /\ c.id = d.id => c = d
  PROVE  StrictOrder(S, {x \in S \X S : Outranks(x[1], x[2])})
<1> DEFINE R == {x \in S \X S : Outranks(x[1], x[2])}
<1>1. \A c, d \in S : <<c, d>> \in R <=> Outranks(c, d)
  OBVIOUS
<1>2. \A c \in S : c.scope \in Scope /\ c.id \in Nat /\ c.score \in Nat
  BY RecallAssumption DEF Candidate
<1>3. Priority["project"] = 0 /\ Priority["shared"] = 1 /\ Priority["global"] = 2
  BY DEF Priority, Scope
<1>4. \A s, t \in Scope : /\ Priority[s] \in Nat
                          /\ s # t => Priority[s] < Priority[t] \/ Priority[t] < Priority[s]
  BY <1>3 DEF Scope
<1>5. ASSUME NEW c \in S PROVE ~Outranks(c, c)
  BY <1>2, <1>4 DEF Outranks
<1>6. ASSUME NEW c \in S, NEW d \in S, c # d PROVE Outranks(c, d) \/ Outranks(d, c)
  <2>1. CASE c.scope # d.scope
    BY <1>2, <1>4, <2>1 DEF Outranks
  <2>2. CASE c.scope = d.scope
    <3>1. c.id # d.id
      BY <1>6, <2>2
    <3>2. c.id < d.id \/ d.id < c.id
      BY <1>2, <3>1
    <3>3. c.score = d.score \/ c.score > d.score \/ d.score > c.score
      BY <1>2
    <3> QED
      BY <2>2, <3>2, <3>3 DEF Outranks
  <2> QED
    BY <2>1, <2>2
<1>7. ASSUME NEW c \in S, NEW d \in S, NEW e \in S, Outranks(c, d), Outranks(d, e) PROVE Outranks(c, e)
  BY <1>2, <1>4, <1>7 DEF Outranks
<1> HIDE DEF R
<1> QED
  BY <1>1, <1>5, <1>6, <1>7 DEF StrictOrder

LEMMA RankedChooses ==
  ASSUME NEW S
  PROVE  Chooses(S, {x \in S \X S : Outranks(x[1], x[2])}, Ranked(S, Outranks))
<1> DEFINE R == {x \in S \X S : Outranks(x[1], x[2])}
           s == Ranked(S, Outranks)
<1>1. \A c \in S : {d \in S : <<d, c>> \in R} = {d \in S : Outranks(d, c)}
  OBVIOUS
<1>2. s = [i \in 1 .. Cardinality(S) |-> CHOOSE c \in S : Cardinality({d \in S : Outranks(d, c)}) = i - 1]
  BY DEF Ranked
<1> HIDE DEF s, R
<1>3. ASSUME NEW i \in 1 .. Cardinality(S), \E c \in S : Cardinality({d \in S : <<d, c>> \in R}) = i - 1
      PROVE  s[i] \in S /\ Cardinality({d \in S : <<d, s[i]>> \in R}) = i - 1
  <2>1. \E c \in S : Cardinality({d \in S : Outranks(d, c)}) = i - 1
    BY <1>1, <1>3
  <2>2. s[i] = CHOOSE c \in S : Cardinality({d \in S : Outranks(d, c)}) = i - 1
    BY <1>2
  <2>3. s[i] \in S /\ Cardinality({d \in S : Outranks(d, s[i])}) = i - 1
    BY <2>1, <2>2
  <2> QED
    BY <1>1, <2>3
<1>4. s = [i \in 1 .. Cardinality(S) |-> s[i]]
  <2> DEFINE v(i) == CHOOSE c \in S : Cardinality({d \in S : Outranks(d, c)}) = i - 1
  <2>1. s = [i \in 1 .. Cardinality(S) |-> v(i)]
    BY <1>2
  <2> HIDE DEF v
  <2> QED
    BY <2>1
<1> QED
  BY <1>3, <1>4 DEF Chooses, s, R

-----------------------------------------------------------------------------
(* Theorems about Recall *)

\* pk context answers with one copy of each id and of each content; the copy of an id is
\* that of the first scope that has one, and what is left out has its like before it.
THEOREM KeepsOneCopy == RecallSpec => []OneCopy
<1>1. RootsInv => OneCopy
  <2> SUFFICES ASSUME RootsInv, NEW place \in Place, NEW request \in Asked, NEW S, NEW result,
                      S = ContextCandidates(place, request), result = Kept(S)
               PROVE  /\ \A c, d \in result : Duplicate(c, d) => c = d
                      /\ \A c \in result, d \in S : c.id = d.id => Priority[c.scope] <= Priority[d.scope]
                      /\ \A c \in S \ result : \E d \in S \ {c} : Duplicate(d, c) /\ Priority[d.scope] <= Priority[c.scope]
    BY SMT DEF OneCopy
  <2> DEFINE n == Cardinality(S)
             R == {x \in S \X S : Outranks(x[1], x[2])}
             seq == Ranked(S, Outranks)
  <2>1. /\ S \in SUBSET Candidate /\ IsFiniteSet(S)
        /\ \A c, d \in S : c.scope = d.scope /\ c.id = d.id => c = d
    <3>1. request \in Request
      BY RecallAssumption
    <3> QED
      BY <3>1, ContextCandidatesType
  <2>2. StrictOrder(S, R) /\ Chooses(S, R, seq)
    BY <2>1, OutranksOrders, RankedChooses
  <2>3. n \in Nat
    BY <2>1, FS_CardinalityType
  <2>4. \A c, d \in S : <<c, d>> \in R => Outranks(c, d) /\ c # d
    BY <2>2 DEF StrictOrder
  <2>5. result = KeptOf(seq)
    BY Zenon DEF Kept, KeptOf, Nothing
  <2> HIDE DEF R, seq
  <2>6. /\ seq \in [1 .. n -> S]
        /\ \A c \in S : \E i \in 1 .. n : seq[i] = c
        /\ \A i, j \in 1 .. n : i < j => <<seq[i], seq[j]>> \in R
        /\ \A i \in 1 .. n : Cardinality({d \in S : <<d, seq[i]>> \in R}) = i - 1
        /\ \A c \in S : Cardinality({d \in S : <<d, c>> \in R}) \in Nat
    BY <2>1, <2>2, Ranks
  <2> HIDE DEF n
  <2>7. seq \in [1 .. n -> Candidate]
    BY <2>1, <2>6
  <2>8. /\ \A c \in result : \E i \in 1 .. n : seq[i] = c
        /\ \A c, d \in result : Duplicate(c, d) => c = d
        /\ \A c \in result, j \in 1 .. n : c.id = seq[j].id => \E i \in 1 .. n : i <= j /\ seq[i] = c
        /\ \A j \in 1 .. n : seq[j] \notin result =>
             \E i \in 1 .. n : i < j /\ Duplicate(seq[i], seq[j])
    BY <2>3, <2>5, <2>7, KeptOfList
  <2>9. \A s \in Scope : Priority[s] \in Nat
    BY DEF Priority, Scope
  <2>10. \A c, d \in S : Outranks(c, d) => Priority[c.scope] <= Priority[d.scope]
    <3> SUFFICES ASSUME NEW c \in S, NEW d \in S, Outranks(c, d) PROVE Priority[c.scope] <= Priority[d.scope]
      OBVIOUS
    <3>1. Priority[c.scope] \in Nat /\ Priority[d.scope] \in Nat
      BY <2>1, <2>9 DEF Candidate
    <3>2. Priority[c.scope] < Priority[d.scope] \/ c.scope = d.scope
      BY DEF Outranks
    <3> QED
      BY <3>1, <3>2
  <2>11. ASSUME NEW c \in result, NEW d \in S, c.id = d.id PROVE Priority[c.scope] <= Priority[d.scope]
    <3>1. PICK j \in 1 .. n : seq[j] = d
      BY <2>6
    <3>2. PICK i \in 1 .. n : i <= j /\ seq[i] = c
      BY <2>8, <2>11, <3>1
    <3>3. i < j \/ i = j
      BY <3>2
    <3>4. CASE i < j
      <4>1. <<c, d>> \in R /\ c \in S
        BY <2>6, <3>1, <3>2, <3>4
      <4> QED
        BY <2>4, <2>10, <4>1
    <3>5. CASE i = j
      <4>1. c = d /\ Priority[d.scope] \in Nat
        BY <2>1, <2>9, <3>1, <3>2, <3>5 DEF Candidate
      <4> QED
        BY <4>1
    <3> QED
      BY <3>3, <3>4, <3>5
  <2>12. ASSUME NEW c \in S \ result
         PROVE  \E d \in S \ {c} : Duplicate(d, c) /\ Priority[d.scope] <= Priority[c.scope]
    <3>1. PICK j \in 1 .. n : seq[j] = c
      BY <2>6
    <3>2. PICK i \in 1 .. n : i < j /\ Duplicate(seq[i], c)
      BY <2>8, <2>12, <3>1
    <3>3. seq[i] \in S /\ <<seq[i], c>> \in R
      BY <2>6, <3>1, <3>2
    <3>4. seq[i] # c /\ Priority[seq[i].scope] <= Priority[c.scope]
      BY <2>4, <2>10, <3>3
    <3> QED
      BY <3>2, <3>3, <3>4
  <2> QED
    BY <2>8, <2>11, <2>12
<1> QED
  BY <1>1, RecallInvariant, PTL

\* What a command wrote and published is among what pk context ranks from the same place.
THEOREM WrittenIsRecalled == RecallSpec => []RecalledAfterWrite
<1>1. RootsInv /\ LastInv => RecalledAfterWrite
  <2> SUFFICES ASSUME RootsInv, LastInv, NEW l \in last,
                      ~(l.label = "shared" /\ l.place.kb # {}),
                      ~(l.label = "project" /\ l.place.kb = {} /\ ~l.place.inside)
               PROVE  \E c \in ContextCandidates(l.place, Everything) : c.id = l.entry.id /\ c.text = l.entry.text
    BY Zenon DEF RecalledAfterWrite
  <2>1. /\ l.entry \in Entry /\ l.place \in Place /\ l.label \in {"project", "shared"}
        /\ \A r \in ResolveKb(l.place, l.label = "shared") :
             l.entry \in wiki[r] /\ \E held \in snapshot[r][l.label] : l.entry \in held
    BY DEF LastInv
  <2>2. PICK r \in RootForScope(l.place, l.label) : r \in ResolveKb(l.place, l.label = "shared")
    BY <2>1 DEF RootForScope, ResolveKb
  <2>3. l.entry \in Held(l.place, l.label)
    BY <2>1, <2>2 DEF Held
  <2>4. Score(Everything.query, l.entry.text) = 1
    BY EverythingType DEF Score
  <2>5. l.label \in AllScopes(Everything.scopes)
    BY <2>1, EverythingType DEF AllScopes, Scope
  <2> DEFINE c == [scope |-> l.label, id |-> l.entry.id, text |-> l.entry.text,
                   score |-> Score(Everything.query, l.entry.text)]
  <2>6. c \in ContextCandidates(l.place, Everything)
    <3>1. l.entry \in {d \in Held(l.place, l.label) : /\ Everything.tagged => d.text \in Tagged
                                                     /\ Score(Everything.query, d.text) > 0}
      BY <2>3, <2>4, EverythingType
    <3> QED
      BY <2>5, <3>1 DEF ContextCandidates
  <2> QED
    BY <2>6
<1> QED
  BY <1>1, RecallInvariant, PTL

\* Where pk doctor passes, pk context fails in no scope, unless doctor took the global root
\* for a project's.  It needs no invariant: the two read the same directories.
THEOREM DoctorSpeaksForContext == RecallSpec => []DoctorAgrees
<1>1. DoctorAgrees
  <2> SUFFICES ASSUME NEW place \in Place, DoctorPasses(place), ~(place.kb = {} /\ ~place.inside)
               PROVE  Context(place, Everything).failures = {}
    BY Zenon DEF DoctorAgrees
  <2>1. Context(place, Everything).failures = {s \in AllScopes(Everything.scopes) : ~Readable(place, s)}
    BY DEF Context
  <2>2. AllScopes(Everything.scopes) = Scope
    BY EverythingType DEF AllScopes
  <2>3. PICK r \in RootForScope(place, "project") : r \in ResolveKb(place, FALSE)
    BY DEF RootForScope, ResolveKb
  <2>4. snapshot[r]["project"] # {} /\ snapshot["shared"]["shared"] # {} /\ snapshot["global"]["global"] # {}
    BY <2>3 DEF DoctorPasses
  <2>5. RootForScope(place, "shared") = {"shared"} /\ RootForScope(place, "global") = {"global"}
    BY DEF RootForScope
  <2>6. Readable(place, "project") /\ Readable(place, "shared") /\ Readable(place, "global")
    BY <2>3, <2>4, <2>5 DEF Readable
  <2> QED
    BY <2>1, <2>2, <2>6 DEF Scope
<1> QED
  BY <1>1, PTL

-----------------------------------------------------------------------------
(* The learning indexes: lines and records *)

Record == [of : Observation, at : Nat]
Text0  == {"record", "garbled", "undecodable"}
Lines(x)  == [text : Text0, of : SUBSET Kind(x), at : Nat]
\* The records of lines that are in a file.
RecordsOf(lines) ==
  UNION {{[of |-> o, at |-> lines[i].at] : o \in lines[i].of} :
         i \in {j \in DOMAIN lines : \A k \in 1 .. j : lines[k].text # "undecodable"}}
Whole(lines) == \A i \in DOMAIN lines : lines[i].text # "undecodable"

LEMMA ReadIsRecordsOf == \A x : ReadIndex(x) = RecordsOf(file[x])
BY DEF ReadIndex, RecordsOf

LEMMA RecordsOfType ==
  ASSUME NEW x \in Index, NEW lines \in Seq(Lines(x))
  PROVE  RecordsOf(lines) \in SUBSET [of : Kind(x), at : Nat]
<1>1. \A i \in DOMAIN lines : lines[i] \in Lines(x)
  OBVIOUS
<1>2. \A i \in DOMAIN lines : lines[i].of \in SUBSET Kind(x) /\ lines[i].at \in Nat
  BY <1>1 DEF Lines
<1> QED
  BY <1>2 DEF RecordsOf

\* A line added to a file that has no part of a character cut in it adds its record.
LEMMA AppendLine ==
  ASSUME NEW x \in Index, NEW lines \in Seq(Lines(x)), Whole(lines), NEW o \in Kind(x), NEW t \in Nat
  PROVE  /\ Append(lines, Line(o, t)) \in Seq(Lines(x)) /\ Whole(Append(lines, Line(o, t)))
         /\ RecordsOf(Append(lines, Line(o, t))) = RecordsOf(lines) \cup {[of |-> o, at |-> t]}
<1> DEFINE new == Append(lines, Line(o, t))
           n   == Len(lines)
<1>1. Line(o, t) = [text |-> "record", of |-> {o}, at |-> t] /\ Line(o, t) \in Lines(x)
  BY DEF Line, Lines, Text0
<1>2. new \in Seq(Lines(x)) /\ Len(new) = n + 1 /\ n \in Nat /\ new[n + 1] = Line(o, t)
      /\ \A i \in 1 .. n : new[i] = lines[i]
  BY <1>1
<1>3. DOMAIN lines = 1 .. n /\ DOMAIN new = 1 .. n + 1
  BY <1>2
<1> HIDE DEF new, n
<1>4. \A i \in 1 .. n + 1 : i \in 1 .. n \/ i = n + 1
  BY <1>2
<1>5. \A i \in 1 .. n : i \in 1 .. n + 1
  BY <1>2
<1>6. n + 1 \in 1 .. n + 1
  BY <1>2
<1>7. \A i \in 1 .. n + 1 : new[i].text # "undecodable"
  BY <1>1, <1>2, <1>3, <1>4 DEF Whole
<1>8. \A i \in 1 .. n + 1 : \A k \in 1 .. i : k \in 1 .. n + 1
  BY <1>2
<1>9. {j \in DOMAIN new : \A k \in 1 .. j : new[k].text # "undecodable"} = 1 .. n + 1
  BY <1>3, <1>7, <1>8
<1>10. {j \in DOMAIN lines : \A k \in 1 .. j : lines[k].text # "undecodable"} = 1 .. n
  <2>1. \A i \in 1 .. n : \A k \in 1 .. i : k \in 1 .. n
    BY <1>2
  <2> QED
    BY <1>3, <2>1 DEF Whole
<1>11. RecordsOf(new) = UNION {{[of |-> q, at |-> new[i].at] : q \in new[i].of} : i \in 1 .. n + 1}
  BY <1>9 DEF RecordsOf
<1>12. RecordsOf(lines) = UNION {{[of |-> q, at |-> lines[i].at] : q \in lines[i].of} : i \in 1 .. n}
  BY <1>10 DEF RecordsOf
<1> DEFINE Part(i) == {[of |-> q, at |-> new[i].at] : q \in new[i].of}
<1>13. RecordsOf(new) = UNION {Part(i) : i \in 1 .. n + 1}
  BY <1>11
<1>14. RecordsOf(lines) = UNION {Part(i) : i \in 1 .. n}
  BY <1>2, <1>12
<1>15. Part(n + 1) = {[of |-> o, at |-> t]}
  BY <1>1, <1>2
<1> HIDE DEF Part
<1>17. RecordsOf(new) = RecordsOf(lines) \cup {[of |-> o, at |-> t]}
  <2>1. \A r : r \in RecordsOf(new) <=> \E i \in 1 .. n + 1 : r \in Part(i)
    BY <1>13
  <2>2. \A r : r \in RecordsOf(lines) <=> \E i \in 1 .. n : r \in Part(i)
    BY <1>14
  <2>3. \A r : r \in RecordsOf(new) <=> r \in RecordsOf(lines) \/ r \in Part(n + 1)
    BY <1>4, <1>5, <1>6, <2>1, <2>2
  <2> QED
    BY <1>15, <2>3
<1>18. Whole(new)
  BY <1>3, <1>7 DEF Whole
<1> QED
  BY <1>2, <1>17, <1>18 DEF new

-----------------------------------------------------------------------------
(* The learning indexes: what append_new adds *)

OfSeq(seq) == {seq[i] : i \in DOMAIN seq}

LEMMA AddFreshType ==
  ASSUME NEW x \in Index, NEW records, NEW found \in Seq(Observation), NEW o \in Observation
  PROVE  /\ AddFresh(x, records, found, o) \in Seq(Observation)
         /\ o \notin Kind(x) \/ o.id \in Recorded(records) \cup Ids(OfSeq(found)) =>
              AddFresh(x, records, found, o) = found
         /\ ~(o \notin Kind(x) \/ o.id \in Recorded(records) \cup Ids(OfSeq(found))) =>
              AddFresh(x, records, found, o) = Append(found, o)
BY DEF AddFresh, OfSeq

\* The fold, step by step.
LEMMA FreshSteps ==
  ASSUME NEW x \in Index, NEW records, NEW n \in Nat, NEW seq \in [1 .. n -> Observation]
  PROVE  \E acc \in [0 .. n -> Seq(Observation)] :
           /\ acc[0] = <<>>
           /\ \A k \in 1 .. n : acc[k] = AddFresh(x, records, acc[k - 1], seq[k])
           /\ acc[n] = Fresh(x, records, seq)
<1> DEFINE A     == Seq(Observation)
           step  == [y \in (1 .. n) \X A |-> AddFresh(x, records, y[2], seq[y[1]])]
           It(F) == F = [u \in SUBSET (1 .. n) |-> IF u = {} THEN <<>>
                                                   ELSE AddFresh(x, records, F[u \ {Max(u)}], seq[Max(u)])]
           iter == CHOOSE F : It(F)
<1>1. Fresh(x, records, seq) = iter[1 .. n]
  <2>1. DOMAIN seq = 1 .. n
    OBVIOUS
  <2> QED
    BY Zenon, <2>1 DEF Fresh, FoldLeft, MapThenFoldSet
<1>2. <<>> \in A
  OBVIOUS
<1>3. step \in [(1 .. n) \X A -> A]
  BY AddFreshType
<1>31. PICK F : Folds(F, n, A, <<>>, step)
  <2> HIDE DEF step, A
  <2> QED
    BY <1>2, <1>3, Iterates
<1>4. /\ F \in [SUBSET (1 .. n) -> A]
      /\ \A u \in SUBSET (1 .. n) : F[u] = IF u = {} THEN <<>> ELSE step[<<Max(u), F[u \ {Max(u)}]>>]
  <2> HIDE DEF step, A
  <2> QED
    BY <1>31 DEF Folds
<1>5. It(F)
  <2>1. ASSUME NEW u \in SUBSET (1 .. n)
        PROVE  F[u] = IF u = {} THEN <<>> ELSE AddFresh(x, records, F[u \ {Max(u)}], seq[Max(u)])
    <3>1. CASE u = {}
      BY <1>4, <3>1
    <3>2. CASE u # {}
      <4>1. Max(u) \in 1 .. n
        BY <3>2, MaxOf
      <4>2. F[u \ {Max(u)}] \in A
        BY <1>4
      <4>3. F[u] = step[<<Max(u), F[u \ {Max(u)}]>>]
        BY <1>4, <3>2
      <4> HIDE DEF A
      <4> QED
        BY <3>2, <4>1, <4>2, <4>3
    <3> QED
      BY <3>1, <3>2
  <2> QED
    BY <1>4, <2>1
<1> HIDE DEF It
<1>6. It(iter)
  BY <1>5
<1> HIDE DEF iter, A
<1>7. \A u \in SUBSET (1 .. n) :
        iter[u] = IF u = {} THEN <<>> ELSE AddFresh(x, records, iter[u \ {Max(u)}], seq[Max(u)])
  BY <1>6 DEF It
<1> DEFINE acc == [k \in 0 .. n |-> iter[1 .. k]]
<1>8. acc[0] = <<>>
  <2>1. 1 .. 0 = {} /\ 0 \in 0 .. n
    OBVIOUS
  <2> QED
    BY <1>7, <2>1
<1>9. ASSUME NEW k \in 1 .. n PROVE acc[k] = AddFresh(x, records, acc[k - 1], seq[k]) /\ k - 1 \in 0 .. n
  <2>0. k \in 0 .. n /\ k - 1 \in 0 .. n /\ k \in Nat \ {0}
    OBVIOUS
  <2>01. k \in 1 .. k
    BY <2>0
  <2>02. \A i \in 1 .. k : i \in 1 .. n
    OBVIOUS
  <2>1. 1 .. k \in SUBSET (1 .. n) /\ 1 .. k # {}
    BY <2>01, <2>02
  <2>2. Max(1 .. k) = k /\ (1 .. k) \ {Max(1 .. k)} = 1 .. k - 1
    BY <2>0, MaxOfInterval
  <2>3. iter[1 .. k] = AddFresh(x, records, iter[1 .. k - 1], seq[k])
    BY <1>7, <2>1, <2>2
  <2> QED
    BY <2>0, <2>3
<1>10. \A k \in 0 .. n : acc[k] \in A
  <2> DEFINE P == {k \in Nat : k <= n => acc[k] \in A}
  <2> HIDE DEF acc
  <2>1. 0 \in P
    BY <1>2, <1>8
  <2>2. ASSUME NEW k \in Nat, k \in P PROVE k + 1 \in P
    <3> SUFFICES ASSUME k + 1 <= n PROVE acc[k + 1] \in A
      OBVIOUS
    <3>1. k + 1 \in 1 .. n /\ k + 1 - 1 = k /\ k <= n
      OBVIOUS
    <3>2. acc[k] \in A
      BY <2>2, <3>1
    <3>3. acc[k + 1] = AddFresh(x, records, acc[k], seq[k + 1]) /\ seq[k + 1] \in Observation
      BY <1>9, <3>1
    <3>4. acc[k] \in Seq(Observation)
      BY <3>2 DEF A
    <3>5. AddFresh(x, records, acc[k], seq[k + 1]) \in Seq(Observation)
      BY <3>3, <3>4, AddFreshType
    <3> QED
      BY <3>3, <3>5 DEF A
  <2> HIDE DEF P
  <2>3. \A k \in Nat : k \in P
    BY <2>1, <2>2, Induction
  <2> QED
    BY <2>3 DEF P
<1>11. acc \in [0 .. n -> A] /\ acc[n] = Fresh(x, records, seq)
  <2>1. n \in 0 .. n
    OBVIOUS
  <2>2. acc \in [0 .. n -> A]
    BY <1>10
  <2> QED
    BY <1>1, <2>1, <2>2
<1> HIDE DEF acc
<1> QED
  BY <1>8, <1>9, <1>11 DEF A

\* append_new adds the first observation of every id that the index does not have.
LEMMA FreshAdds ==
  ASSUME NEW x \in Index, NEW records, NEW seq \in Seq(Observation), NEW added,
         added = Fresh(x, records, seq)
  PROVE  /\ added \in Seq(Observation)
         /\ \A i \in DOMAIN added : added[i] \in Kind(x) /\ added[i].id \notin Recorded(records)
         /\ \A i, k \in DOMAIN added : added[i].id = added[k].id => i = k
         /\ \A o \in OfSeq(seq) \cap Kind(x) : o.id \in Recorded(records) \cup Ids(OfSeq(added))
<1> DEFINE n == Len(seq)
<1>0. n \in Nat /\ seq \in [1 .. n -> Observation] /\ DOMAIN seq = 1 .. n
  OBVIOUS
<1> HIDE DEF n
<1>1. PICK acc \in [0 .. n -> Seq(Observation)] :
           /\ acc[0] = <<>>
           /\ \A k \in 1 .. n : acc[k] = AddFresh(x, records, acc[k - 1], seq[k])
           /\ acc[n] = Fresh(x, records, seq)
  BY <1>0, FreshSteps
<1> DEFINE Good(k) ==
             /\ \A i \in DOMAIN acc[k] : acc[k][i] \in Kind(x) /\ acc[k][i].id \notin Recorded(records)
             /\ \A i, j \in DOMAIN acc[k] : acc[k][i].id = acc[k][j].id => i = j
             /\ \A i \in 1 .. k : seq[i] \in Kind(x) => seq[i].id \in Recorded(records) \cup Ids(OfSeq(acc[k]))
           P == {k \in Nat : k <= n => Good(k)}
<1>2. 0 \in P
  <2>1. 1 .. 0 = {} /\ DOMAIN <<>> = {}
    OBVIOUS
  <2> QED
    BY <1>1, <2>1
<1>3. ASSUME NEW k \in Nat, k \in P PROVE k + 1 \in P
  <2>0. k + 1 \in Nat /\ (k + 1 <= n => Good(k + 1)) => k + 1 \in P
    <3> HIDE DEF Good
    <3> QED
      OBVIOUS
  <2> SUFFICES ASSUME k + 1 <= n PROVE Good(k + 1)
    <3> HIDE DEF P
    <3> QED
      BY <2>0
  <2> DEFINE o == seq[k + 1]
             old == acc[k]
             new == acc[k + 1]
  <2>1. k + 1 \in 1 .. n /\ k + 1 - 1 = k /\ k <= n /\ k \in 0 .. n
    BY <1>0
  <2>2. Good(k)
    BY <1>3, <2>1
  <2>3. old \in Seq(Observation) /\ o \in Observation /\ new = AddFresh(x, records, old, o)
    BY <1>0, <1>1, <2>1
  <2>4. /\ \A i \in DOMAIN old : old[i] \in Kind(x) /\ old[i].id \notin Recorded(records)
        /\ \A i, j \in DOMAIN old : old[i].id = old[j].id => i = j
        /\ \A i \in 1 .. k : seq[i] \in Kind(x) => seq[i].id \in Recorded(records) \cup Ids(OfSeq(old))
    BY <2>2
  <2>5. \A i \in 1 .. k + 1 : i \in 1 .. k \/ i = k + 1
    OBVIOUS
  <2>6. o = seq[k + 1]
    OBVIOUS
  <2>7. Good(k + 1) <=>
          /\ \A i \in DOMAIN new : new[i] \in Kind(x) /\ new[i].id \notin Recorded(records)
          /\ \A i, j \in DOMAIN new : new[i].id = new[j].id => i = j
          /\ \A i \in 1 .. k + 1 : seq[i] \in Kind(x) => seq[i].id \in Recorded(records) \cup Ids(OfSeq(new))
    OBVIOUS
  <2> HIDE DEF Good, o, old, new
  <2>8. CASE o \notin Kind(x) \/ o.id \in Recorded(records) \cup Ids(OfSeq(old))
    <3>1. new = old
      <4>1. AddFresh(x, records, old, o) = old
        BY <2>8 DEF AddFresh, OfSeq
      <4> QED
        BY <2>3, <4>1
    <3>2. \A i \in 1 .. k + 1 : seq[i] \in Kind(x) => seq[i].id \in Recorded(records) \cup Ids(OfSeq(old))
      BY <2>4, <2>5, <2>6, <2>8
    <3> QED
      BY <2>4, <2>7, <3>1, <3>2
  <2>9. CASE ~(o \notin Kind(x) \/ o.id \in Recorded(records) \cup Ids(OfSeq(old)))
    <3>1. new = Append(old, o)
      BY <2>3, <2>9, AddFreshType
    <3>2. /\ DOMAIN new = 1 .. Len(old) + 1 /\ DOMAIN old = 1 .. Len(old) /\ Len(old) \in Nat
          /\ new[Len(old) + 1] = o /\ \A i \in 1 .. Len(old) : new[i] = old[i]
      BY <2>3, <3>1
    <3>3. \A i \in 1 .. Len(old) + 1 : i \in 1 .. Len(old) \/ i = Len(old) + 1
      BY <3>2
    <3>4. \A i \in DOMAIN old : old[i] \in OfSeq(old) /\ old[i].id # o.id
      BY <2>9 DEF OfSeq, Ids
    <3>5. \A i \in DOMAIN new : new[i] \in Kind(x) /\ new[i].id \notin Recorded(records)
      BY <2>4, <2>9, <3>2, <3>3
    <3>6. \A i, j \in DOMAIN new : new[i].id = new[j].id => i = j
      BY <2>4, <3>2, <3>3, <3>4
    <3>7. OfSeq(new) = OfSeq(old) \cup {o}
      <4>1. \A i \in DOMAIN old : i \in DOMAIN new
        BY <3>2
      <4>2. Len(old) + 1 \in DOMAIN new
        BY <3>2
      <4> QED
        BY <3>2, <3>3, <4>1, <4>2 DEF OfSeq
    <3>8. \A i \in 1 .. k + 1 : seq[i] \in Kind(x) => seq[i].id \in Recorded(records) \cup Ids(OfSeq(new))
      BY <2>4, <2>5, <2>6, <3>7 DEF Ids
    <3> QED
      BY <2>7, <3>5, <3>6, <3>8
  <2> QED
    BY <2>8, <2>9
<1> HIDE DEF P
<1>4. n \in P
  BY <1>0, <1>2, <1>3, Induction
<1>5. Good(n) /\ n \in 0 .. n
  BY <1>0, <1>4 DEF P
<1>6. added = acc[n] /\ added \in Seq(Observation)
  BY <1>1, <1>5
<1>7. /\ \A i \in DOMAIN added : added[i] \in Kind(x) /\ added[i].id \notin Recorded(records)
      /\ \A i, j \in DOMAIN added : added[i].id = added[j].id => i = j
      /\ \A i \in 1 .. n : seq[i] \in Kind(x) => seq[i].id \in Recorded(records) \cup Ids(OfSeq(added))
  BY <1>5, <1>6
<1>8. \A o \in OfSeq(seq) \cap Kind(x) : o.id \in Recorded(records) \cup Ids(OfSeq(added))
  BY <1>0, <1>7 DEF OfSeq
<1> QED
  BY <1>6, <1>7, <1>8

-----------------------------------------------------------------------------
(* The learning indexes: types *)

Skills == UNION {DOMAIN w.uses : w \in Workflow}
Places == {"off", "jobs", "index", "append", "write", "log"}

\* The hands of the worker: what it holds is of the index it is at, and it has a skill to
\* log in one place only.
WorkerType ==
  /\ worker \in [at : Places, index : Index, job : Nat, observed : Seq(Observation),
                 records : SUBSET [of : Kind(worker.index), at : Nat], fresh : Seq(Observation),
                 todo : {worker.todo}, hint : SUBSET Skills]
  /\ OfSeq(worker.fresh) \subseteq Kind(worker.index)
  /\ \A c \in worker.todo : c.id.detector = "update" => c.id.skill \in Skills
  /\ worker.at \in {"off", "jobs"} => worker.index = "lessons"
  /\ worker.at # "log" => worker.hint = {}
  /\ Single(worker.hint)

FileType ==
  /\ \A x \in Index : file[x] \in Seq(Lines(x)) /\ ended[x] \in BOOLEAN /\ (ended[x] \/ file[x] # <<>>)
  /\ file = [x \in Index |-> file[x]] /\ ended = [x \in Index |-> ended[x]]
  /\ today \in Nat /\ pass \in Nat

LEMMA HeadTail ==
  ASSUME NEW S, NEW seq \in Seq(S), seq # <<>>
  PROVE  /\ Head(seq) \in S /\ Tail(seq) \in Seq(S)
         /\ OfSeq(seq) = {Head(seq)} \cup OfSeq(Tail(seq))
<1>1. Len(seq) \in Nat /\ Len(seq) > 0 /\ DOMAIN seq = 1 .. Len(seq)
  OBVIOUS
<1>2. Head(seq) = seq[1] /\ Tail(seq) \in Seq(S) /\ Len(Tail(seq)) = Len(seq) - 1
      /\ \A i \in 1 .. Len(seq) - 1 : Tail(seq)[i] = seq[i + 1]
  OBVIOUS
<1>3. DOMAIN Tail(seq) = 1 .. Len(seq) - 1
  BY <1>1, <1>2
<1>4. \A i \in 1 .. Len(seq) : i = 1 \/ (i - 1 \in 1 .. Len(seq) - 1 /\ i - 1 + 1 = i)
  BY <1>1
<1>5. \A i \in 1 .. Len(seq) - 1 : i + 1 \in 1 .. Len(seq)
  BY <1>1
<1>6. 1 \in 1 .. Len(seq)
  BY <1>1
<1>7. \A i \in 1 .. Len(seq) : seq[i] = Head(seq) \/ seq[i] \in OfSeq(Tail(seq))
  BY <1>2, <1>3, <1>4 DEF OfSeq
<1>8. \A i \in 1 .. Len(seq) - 1 : Tail(seq)[i] \in OfSeq(seq)
  BY <1>1, <1>2, <1>5 DEF OfSeq
<1>9. Head(seq) \in OfSeq(seq)
  BY <1>1, <1>2, <1>6 DEF OfSeq
<1>10. OfSeq(seq) = {Head(seq)} \cup OfSeq(Tail(seq))
  BY <1>1, <1>3, <1>7, <1>8, <1>9 DEF OfSeq
<1> QED
  BY <1>1, <1>2, <1>6, <1>10

LEMMA OfAppend ==
  ASSUME NEW S, NEW seq \in Seq(S), NEW more \in Seq(S)
  PROVE  seq \o more \in Seq(S) /\ OfSeq(seq \o more) = OfSeq(seq) \cup OfSeq(more)
<1> DEFINE n == Len(seq)
           m == Len(more)
           all == seq \o more
<1>1. n \in Nat /\ m \in Nat /\ DOMAIN seq = 1 .. n /\ DOMAIN more = 1 .. m
  OBVIOUS
<1>2. all \in Seq(S) /\ Len(all) = n + m
      /\ \A i \in 1 .. n + m : all[i] = IF i <= n THEN seq[i] ELSE more[i - n]
  OBVIOUS
<1>3. DOMAIN all = 1 .. n + m
  BY <1>2
<1> HIDE DEF n, m, all
<1>4. \A i \in 1 .. n + m : IF i <= n THEN i \in 1 .. n ELSE i - n \in 1 .. m
  BY <1>1
<1>5. \A i \in 1 .. n : i \in 1 .. n + m /\ i <= n
  BY <1>1
<1>6. \A i \in 1 .. m : i + n \in 1 .. n + m /\ ~(i + n <= n) /\ i + n - n = i
  BY <1>1
<1>7. \A i \in 1 .. n + m : all[i] \in OfSeq(seq) \cup OfSeq(more)
  BY <1>1, <1>2, <1>4 DEF OfSeq
<1>8. \A i \in 1 .. n : seq[i] \in OfSeq(all)
  BY <1>2, <1>3, <1>5 DEF OfSeq
<1>9. \A i \in 1 .. m : more[i] \in OfSeq(all)
  <2> SUFFICES ASSUME NEW i \in 1 .. m PROVE more[i] \in OfSeq(all)
    OBVIOUS
  <2>1. i + n \in DOMAIN all /\ all[i + n] = more[i]
    BY <1>1, <1>2, <1>3, <1>6
  <2> QED
    BY <2>1 DEF OfSeq
<1>10. OfSeq(all) = OfSeq(seq) \cup OfSeq(more)
  BY <1>1, <1>3, <1>7, <1>8, <1>9 DEF OfSeq
<1> QED
  BY <1>2, <1>10 DEF all

LEMMA KindType == \A x \in Index : Kind(x) \subseteq Observation
BY DEF Kind, Observation

\* Only Updates makes candidates of skills, and it makes them of skills that sessions used.
LEMMA UpdatesOfSkills ==
  ASSUME NEW x \in Index, NEW records \in SUBSET [of : Kind(x), at : Nat], NEW c \in Candidates(x, records),
         c.id.detector = "update"
  PROVE  c.id.skill \in Skills
<1>1. \A cluster : Anchored("promotion", cluster).id.detector # "update" /\ Anchored("new", cluster).id.detector # "update"
  BY DEF Anchored
<1>2. c \notin Promotions(records) /\ c \notin NewSkills(records)
  BY <1>1 DEF Promotions, NewSkills
<1>3. x = "workflows" /\ c \in Updates(records)
  BY <1>2 DEF Candidates, Index
<1>4. \A r \in records : DOMAIN r.of.uses \subseteq Skills
  BY <1>3 DEF Kind, Skills
<1> DEFINE Used == (UNION {DOMAIN r.of.uses : r \in records}) \X records
<1>5. PICK y \in Used : c.id = [detector |-> "update", anchor |-> 0, skill |-> y[1], role |-> y[2].of.role]
  <2> DEFINE Corrected == {y \in Used : y[1] \in DOMAIN y[2].of.uses /\ y[2].of.uses[y[1]] >= MinCorrections}
             Named(y)  == [detector |-> "update", anchor |-> 0, skill |-> y[1], role |-> y[2].of.role]
             Sessions(y) == {z[2].of.id : z \in {v \in Corrected : Named(v) = Named(y)}}
  <2>1. c \in {[id |-> Named(y), evidence |-> Sessions(y)] : y \in Corrected}
    BY Zenon, <1>3 DEF Updates
  <2>2. Corrected \subseteq Used
    OBVIOUS
  <2> HIDE DEF Sessions, Corrected, Used
  <2> QED
    BY <2>1, <2>2
<1> QED
  BY <1>4, <1>5

\* A line, whole or cut, is written at the end of its index, after or into the last line.
LEMMA AddLineType ==
  ASSUME FileType, NEW x \in Index, NEW line \in Lines(x), NEW newline \in BOOLEAN, AddLine(x, line, newline),
         today' = today, pass' = pass
  PROVE  FileType'
<1> DEFINE new == IF ended[x] THEN Append(file[x], line)
                  ELSE Append(Front(file[x]), Glued(Last(file[x]), line))
<1>1. file' = [file EXCEPT ![x] = new] /\ ended' = [ended EXCEPT ![x] = newline]
  BY DEF AddLine
<1>2. new \in Seq(Lines(x)) /\ new # <<>>
  <2>1. CASE ended[x]
    BY <2>1 DEF FileType
  <2>2. CASE ~ended[x]
    <3>1. Glued(Last(file[x]), line) \in Lines(x)
      BY DEF Glued, Skipped, Lines, Text0
    <3>2. file[x] \in Seq(Lines(x)) /\ file[x] # <<>>
      BY <2>2 DEF FileType
    <3>3. Front(file[x]) \in Seq(Lines(x))
      <4>1. Len(file[x]) \in Nat /\ Len(file[x]) > 0
        BY <3>2
      <4> QED
        BY <3>2, <4>1 DEF Front
    <3> QED
      BY <2>2, <3>1, <3>3
  <2> QED
    BY <2>1, <2>2
<1> HIDE DEF new
<1>3. \A y \in Index : file'[y] \in Seq(Lines(y)) /\ ended'[y] \in BOOLEAN /\ (ended'[y] \/ file'[y] # <<>>)
  <2> SUFFICES ASSUME NEW y \in Index
               PROVE  file'[y] \in Seq(Lines(y)) /\ ended'[y] \in BOOLEAN /\ (ended'[y] \/ file'[y] # <<>>)
    OBVIOUS
  <2>1. CASE y = x
    <3>1. file'[x] = new /\ ended'[x] = newline
      BY <1>1 DEF FileType
    <3> QED
      BY <1>2, <2>1, <3>1
  <2>2. CASE y # x
    <3>1. file'[y] = file[y] /\ ended'[y] = ended[y]
      BY <1>1, <2>2 DEF FileType
    <3> QED
      BY <3>1 DEF FileType
  <2> QED
    BY <2>1, <2>2
<1>4. file' = [y \in Index |-> file'[y]] /\ ended' = [y \in Index |-> ended'[y]]
  BY <1>1 DEF FileType
<1> QED
  BY <1>3, <1>4 DEF FileType

LEMMA CutLineType ==
  ASSUME FileType, WorkerType, CutLine, today' = today, pass' = pass
  PROVE  FileType'
<1>1. worker.index \in Index /\ worker.fresh \in Seq(Observation) /\ worker.fresh # <<>>
  BY DEF WorkerType, CutLine
<1>2. Head(worker.fresh) \in Kind(worker.index)
  BY <1>1, HeadTail DEF WorkerType
<1>3. Line(Head(worker.fresh), pass) \in Lines(worker.index)
  BY <1>1, <1>2 DEF Line, Lines, Text0, FileType
<1>4. \A text \in Broken : Skipped(text) \in Lines(worker.index)
  BY DEF Broken, Skipped, Lines, Text0
<1> QED
  BY <1>1, <1>3, <1>4, AddLineType DEF CutLine

LEMMA EndDetectorType ==
  ASSUME WorkerType, EndDetector
  PROVE  /\ WorkerType' /\ worker'.hint = {} /\ worker'.at \in {"off", "index"}
         /\ worker.index = "workflows" => worker' = Off
         /\ worker.index = "lessons" => worker'.at = "index" /\ worker'.index = "workflows"
                                        /\ worker'.observed = worker.observed
<1>1. CASE worker.index = "workflows"
  <2>1. worker' = Off
    BY <1>1 DEF EndDetector
  <2>2. OfSeq(<<>>) = {} /\ <<>> \in Seq(Observation)
    BY DEF OfSeq
  <2> QED
    BY <1>1, <2>1, <2>2 DEF Off, WorkerType, Places, Index, Single
<1>2. CASE worker.index # "workflows"
  <2>1. worker' = [at |-> "index", index |-> "workflows", job |-> 0, observed |-> worker.observed,
                   records |-> {}, fresh |-> <<>>, todo |-> {}, hint |-> {}]
    BY <1>2 DEF EndDetector, Off
  <2>2. OfSeq(<<>>) = {} /\ <<>> \in Seq(Observation)
    BY DEF OfSeq
  <2>3. worker.observed \in Seq(Observation)
    BY DEF WorkerType
  <2> QED
    BY <1>2, <2>1, <2>2, <2>3 DEF WorkerType, Places, Index, Single
<1> QED
  BY <1>1, <1>2

LearningType == FileType /\ WorkerType

LEMMA LearningStart == Init => LearningType
<1> SUFFICES ASSUME Init PROVE LearningType
  OBVIOUS
<1>1. OfSeq(<<>>) = {} /\ <<>> \in Seq(Observation)
  BY DEF OfSeq
<1>2. WorkerType
  BY <1>1 DEF Init, Off, WorkerType, Places, Index, Single
<1>3. \A x \in Index : file[x] = <<>> /\ ended[x] = TRUE
  BY DEF Init
<1>4. FileType
  BY <1>3 DEF Init, FileType
<1> QED
  BY <1>2, <1>4 DEF LearningType

\* What is left in hand after a candidate: at most its skill.
LEMMA WorkerWrites ==
  ASSUME NEW c, WriteCandidate(c)
  PROVE  \E hints1 \in {{}, {c.id.skill}} :
           /\ hints1 # {} => c.id.detector = "update"
           /\ worker' = [worker EXCEPT !.todo = worker.todo \ {c}, !.hint = hints1,
                                       !.at = IF hints1 = {} THEN "write" ELSE "log"]
<1>1. PICK update \in {{}, {c.id.skill}} :
        /\ update # {} => c.id.detector = "update"
        /\ worker' = [worker EXCEPT !.todo = worker.todo \ {c}, !.hint = SafeNames(update),
                                    !.at = IF SafeNames(update) = {} THEN "write" ELSE "log"]
  BY DEF WriteCandidate
<1> DEFINE hints1 == SafeNames(update)
<1>2. hints1 \in {{}, {c.id.skill}} /\ (hints1 # {} => c.id.detector = "update")
  BY <1>1 DEF SafeNames
<1>3. worker' = [worker EXCEPT !.todo = worker.todo \ {c}, !.hint = hints1,
                              !.at = IF hints1 = {} THEN "write" ELSE "log"]
  BY <1>1
<1> HIDE DEF hints1
<1> QED
  BY <1>2, <1>3

LEMMA LearningTypeStep ==
  ASSUME LearningType, [Next]_vars
  PROVE  LearningType'
<1> USE DEF LearningType
<1>0. ASSUME UNCHANGED <<file, ended, today, pass>> PROVE FileType'
  BY <1>0 DEF FileType
<1>1. ASSUME UNCHANGED worker PROVE WorkerType'
  BY <1>1 DEF WorkerType
<1>2. CASE Begin
  <2>1. file' = file /\ ended' = ended /\ today' = today /\ pass' = pass + 1
    BY <1>2 DEF Begin, indexes
  <2>2. worker' = [worker EXCEPT !.at = "jobs"] /\ worker.at = "off"
    BY <1>2 DEF Begin, GoOn, At
  <2>3. FileType'
    BY <2>1 DEF FileType
  <2>4. WorkerType'
    BY <2>2 DEF WorkerType, Places
  <2> QED
    BY <2>3, <2>4
<1>3. CASE EndJobs
  <2>1. worker' = [worker EXCEPT !.at = "index", !.job = 0] /\ worker.at = "jobs"
    BY <1>3 DEF EndJobs, At
  <2>2. UNCHANGED <<file, ended, today, pass>>
    BY <1>3 DEF EndJobs, indexes, counters
  <2> QED
    BY <1>0, <2>1, <2>2 DEF WorkerType, Places
<1>4. CASE Read
  <2> DEFINE records == ReadIndex(worker.index)
             fresh   == Fresh(worker.index, records, worker.observed)
  <2>1. worker' = [worker EXCEPT !.at = "append", !.records = records, !.fresh = fresh] /\ worker.at = "index"
    BY <1>4 DEF Read, At
  <2>2. UNCHANGED <<file, ended, today, pass>>
    BY <1>4 DEF Read, indexes, counters
  <2>3. worker.index \in Index /\ worker.observed \in Seq(Observation)
    BY DEF WorkerType
  <2>4. records \in SUBSET [of : Kind(worker.index), at : Nat]
    BY <2>3, ReadIsRecordsOf, RecordsOfType DEF FileType
  <2>5. fresh \in Seq(Observation) /\ \A i \in DOMAIN fresh : fresh[i] \in Kind(worker.index)
    <3> HIDE DEF records
    <3> QED
      BY <2>3, FreshAdds
  <2> HIDE DEF records, fresh
  <2>6. OfSeq(fresh) \subseteq Kind(worker.index)
    BY <2>5 DEF OfSeq
  <2> QED
    BY <1>0, <2>1, <2>2, <2>4, <2>5, <2>6 DEF WorkerType, Places
<1>5. CASE AppendRecord
  <2>1. worker.fresh # <<>> /\ worker.at = "append" /\ worker.index \in Index /\ pass \in Nat
    BY <1>5 DEF AppendRecord, At, WorkerType, FileType
  <2> DEFINE o == Head(worker.fresh)
             rest == Tail(worker.fresh)
  <2>2. o \in Kind(worker.index) /\ rest \in Seq(Observation) /\ OfSeq(rest) \subseteq Kind(worker.index)
    BY <2>1, HeadTail DEF WorkerType
  <2>3. /\ AddLine(worker.index, Line(o, pass), TRUE)
        /\ worker' = [worker EXCEPT !.fresh = rest, !.records = worker.records \cup {[of |-> o, at |-> pass]}]
        /\ today' = today /\ pass' = pass
    BY <1>5 DEF AppendRecord, counters
  <2> HIDE DEF o, rest
  <2> DEFINE records == worker.records \cup {[of |-> o, at |-> pass]}
  <2>31. records \in SUBSET [of : Kind(worker.index), at : Nat]
    BY <2>1, <2>2 DEF WorkerType
  <2> HIDE DEF records
  <2>32. worker' = [worker EXCEPT !.fresh = rest, !.records = records]
    BY <2>3 DEF records
  <2>4. Line(o, pass) \in Lines(worker.index)
    BY <2>1, <2>2 DEF Line, Lines, Text0
  <2>5. FileType'
    BY <2>1, <2>3, <2>4, AddLineType
  <2>6. WorkerType'
    BY <2>1, <2>2, <2>31, <2>32 DEF WorkerType
  <2> QED
    BY <2>5, <2>6
<1>6. CASE DetectorFails
  <2>1. EndDetector /\ (CutLine \/ UNCHANGED <<indexes, cut>>) /\ today' = today /\ pass' = pass
    BY <1>6 DEF DetectorFails
  <2>2. FileType'
    BY <1>0, <2>1, CutLineType DEF indexes
  <2> QED
    BY <2>1, <2>2, EndDetectorType
<1>7. CASE Propose
  <2> DEFINE found == Candidates(worker.index, worker.records)
  <2>1. worker' = [worker EXCEPT !.at = "write", !.todo = found] /\ worker.at = "append"
    BY <1>7 DEF Propose, At
  <2>2. UNCHANGED <<file, ended, today, pass>>
    BY <1>7 DEF Propose, indexes, counters
  <2>3. \A c \in found : c.id.detector = "update" => c.id.skill \in Skills
    BY UpdatesOfSkills DEF WorkerType
  <2> HIDE DEF found
  <2> QED
    BY <1>0, <2>1, <2>2, <2>3 DEF WorkerType, Places
<1>8. CASE LogFails
  <2>1. worker' = [worker EXCEPT !.at = "write", !.hint = {}] /\ worker.at = "log"
    BY <1>8 DEF LogFails, At
  <2>2. UNCHANGED <<file, ended, today, pass>>
    BY <1>8 DEF LogFails, indexes
  <2> QED
    BY <1>0, <2>1, <2>2 DEF WorkerType, Places, Single
<1>9. CASE EndWrites
  <2>1. EndDetector /\ UNCHANGED <<file, ended, today, pass>>
    BY <1>9 DEF EndWrites, indexes, counters
  <2> QED
    BY <1>0, <2>1, EndDetectorType
<1>10. CASE Crash
  <2>1. worker' = Off /\ (CutLine \/ UNCHANGED <<indexes, cut>>) /\ today' = today /\ pass' = pass
    BY <1>10 DEF Crash
  <2>2. FileType'
    BY <1>0, <2>1, CutLineType DEF indexes
  <2>3. OfSeq(<<>>) = {} /\ <<>> \in Seq(Observation)
    BY DEF OfSeq
  <2>4. WorkerType'
    BY <2>1, <2>3 DEF Off, WorkerType, Places, Index, Single
  <2> QED
    BY <2>2, <2>4
<1>11. CASE Midnight
  <2>1. UNCHANGED <<file, ended, pass, worker>> /\ today' = today + 1
    BY <1>11 DEF Midnight, indexes
  <2> QED
    BY <1>1, <2>1 DEF FileType
<1>12. ASSUME NEW j \in Job, CompleteJob(j) PROVE LearningType'
  <2>1. worker' = [worker EXCEPT !.job = j, !.observed = worker.observed \o Seen[j]] /\ worker.at = "jobs"
    BY <1>12 DEF CompleteJob, At
  <2>2. UNCHANGED <<file, ended, today, pass>>
    BY <1>12 DEF CompleteJob, indexes, counters
  <2>3. j \in Nat /\ worker.observed \o Seen[j] \in Seq(Observation)
    BY LearningIndexAssumption, OfAppend DEF WorkerType
  <2> QED
    BY <1>0, <2>1, <2>2, <2>3 DEF WorkerType
<1>13. ASSUME NEW j \in Job, CompleteJobBlind(j) PROVE LearningType'
  <2>1. worker' = [worker EXCEPT !.job = j] /\ j \in Nat
    BY <1>13, LearningIndexAssumption DEF CompleteJobBlind
  <2>2. UNCHANGED <<file, ended, today, pass>>
    BY <1>13 DEF CompleteJobBlind, indexes
  <2> QED
    BY <1>0, <2>1, <2>2 DEF WorkerType
<1>14. ASSUME NEW c \in worker.todo, WriteCandidate(c) PROVE LearningType'
  <2>1. PICK hints1 \in {{}, {c.id.skill}} :
          /\ hints1 # {} => c.id.detector = "update"
          /\ worker' = [worker EXCEPT !.todo = worker.todo \ {c}, !.hint = hints1,
                                      !.at = IF hints1 = {} THEN "write" ELSE "log"]
    BY <1>14, WorkerWrites
  <2>2. worker.at = "write" /\ UNCHANGED <<file, ended, today, pass>>
    BY <1>14 DEF WriteCandidate, At, indexes, counters
  <2>3. hints1 \in SUBSET Skills /\ Single(hints1)
    BY <2>1 DEF WorkerType, Single
  <2> QED
    BY <1>0, <2>1, <2>2, <2>3 DEF WorkerType, Places
<1>15. ASSUME NEW s \in worker.hint, LogUpdate(s) PROVE LearningType'
  <2>1. worker' = [worker EXCEPT !.at = "write", !.hint = {}] /\ worker.at = "log"
    BY <1>15 DEF LogUpdate, At
  <2>2. UNCHANGED <<file, ended, today, pass>>
    BY <1>15 DEF LogUpdate, indexes, counters
  <2> QED
    BY <1>0, <2>1, <2>2 DEF WorkerType, Places, Single
<1>16. ASSUME NEW c \in pending, Decide(c) PROVE LearningType'
  BY <1>0, <1>1, <1>16 DEF Decide, indexes, counters
<1>17. CASE UNCHANGED vars
  BY <1>0, <1>1, <1>17 DEF vars, indexes, counters
<1> QED
  BY <1>2, <1>3, <1>4, <1>5, <1>6, <1>7, <1>8, <1>9, <1>10, <1>11, <1>12, <1>13, <1>14, <1>15, <1>16, <1>17
     DEF Next

-----------------------------------------------------------------------------
(* The learning indexes: the log of skill updates *)

\* Among those files is an update of the skill.
HasUpdate(files1, s) == \E c \in files1 : c.id.detector = "update" /\ c.id.skill = s

HintInv ==
  /\ hints \in Seq([skill : Skills, day : Nat]) /\ \A i \in DOMAIN hints : hints[i].day <= today
  /\ \A d \in due : d.skill \in Skills /\ d.day \in Nat /\ d.day <= today
  /\ \A s \in worker.hint : s \in Loggable /\ HasUpdate(pending \cup decided, s)
  /\ UpdatesHinted

LogNames(log, files1) ==
  \A i \in DOMAIN log : log[i].skill \in Loggable /\ HasUpdate(files1, log[i].skill)
Logged(log, d) == \E i \in DOMAIN log : log[i].day >= d.day /\ <<log[i].skill, d.skill>> \in Suffix

LEMMA SkillsEndThemselves == \A s \in Skills : <<s, s>> \in Suffix
BY LearningIndexAssumption DEF Skills

LEMMA HintedParts ==
  UpdatesHinted <=> /\ \A i, k \in DOMAIN hints : hints[i] = hints[k] => i = k
                    /\ LogNames(hints, pending \cup decided)
                    /\ \A d \in due : d.skill \in Loggable => d.skill \in worker.hint \/ Logged(hints, d)
BY DEF UpdatesHinted, LogNames, HasUpdate, Logged

\* No step takes a skill's updates away: a file is rewritten under its id, or decided.
LEMMA UpdatesStay ==
  ASSUME [Next]_vars, NEW s, HasUpdate(pending \cup decided, s)
  PROVE  HasUpdate(pending' \cup decided', s)
<1>1. CASE UNCHANGED <<pending, decided>>
  BY <1>1
<1>2. ASSUME NEW c \in worker.todo, WriteCandidate(c) PROVE HasUpdate(pending' \cup decided', s)
  <2>1. decided' = decided /\ (pending' = pending \/ pending' = {p \in pending : p.id # c.id} \cup {c})
    BY <1>2 DEF WriteCandidate
  <2> QED
    BY <2>1 DEF HasUpdate
<1>3. ASSUME NEW c \in pending, Decide(c) PROVE HasUpdate(pending' \cup decided', s)
  <2>1. pending' \cup decided' = pending \cup decided
    BY <1>3 DEF Decide
  <2> QED
    BY <2>1
<1> QED
  BY <1>1, <1>2, <1>3 DEF Next, vars, files, Begin, EndJobs, Read, AppendRecord, DetectorFails, Propose, LogFails,
     EndWrites, Crash, Midnight, CompleteJob, CompleteJobBlind, LogUpdate

\* What may become of the updates that are due while the log stays as it is.
LEMMA HintsKept ==
  ASSUME HintInv, [Next]_vars, hints' = hints, today \in Nat, today' \in Nat, today <= today',
         \A s \in worker'.hint : s \in Loggable /\ (s \in worker.hint \/ HasUpdate(pending' \cup decided', s)),
         \A d \in due' : \/ d \in due /\ (d.skill \in worker.hint => d.skill \in worker'.hint)
                         \/ /\ d.skill \in Skills /\ d.day = today
                            /\ d.skill \in Loggable => d.skill \in worker'.hint
  PROVE  HintInv'
<1>1. \A d \in due' : d.skill \in Skills /\ d.day \in Nat /\ d.day <= today'
  BY DEF HintInv
<1>2. \A i \in DOMAIN hints : hints[i].day \in Nat /\ hints[i].day <= today'
  <2>0. hints \in Seq([skill : Skills, day : Nat]) /\ \A i \in DOMAIN hints : hints[i].day <= today
    BY DEF HintInv
  <2> DEFINE T == [skill : Skills, day : Nat]
  <2>1. \A i \in DOMAIN hints : hints[i] \in T /\ hints[i].day <= today
    <3> HIDE DEF T
    <3>1. hints \in Seq(T)
      BY <2>0 DEF T
    <3> QED
      BY <2>0, <3>1
  <2> QED
    BY <2>1
<1>3. \A s \in worker'.hint : s \in Loggable /\ HasUpdate(pending' \cup decided', s)
  BY UpdatesStay DEF HintInv
<1>4. LogNames(hints, pending' \cup decided')
  BY UpdatesStay, HintedParts DEF HintInv, LogNames
<1>5. \A d \in due' : d.skill \in Loggable => d.skill \in worker'.hint \/ Logged(hints, d)
  BY HintedParts DEF HintInv
<1>6. UpdatesHinted'
  <2>1. \A i, k \in DOMAIN hints : hints[i] = hints[k] => i = k
    BY HintedParts DEF HintInv
  <2> QED
    BY <1>4, <1>5, <2>1 DEF UpdatesHinted, LogNames, HasUpdate, Logged
<1> QED
  BY <1>1, <1>2, <1>3, <1>6 DEF HintInv

LEMMA HintStep ==
  ASSUME LearningType, HintInv, [Next]_vars
  PROVE  HintInv'
<1>0. /\ today \in Nat /\ Single(worker.hint) /\ (worker.at # "log" => worker.hint = {})
      /\ worker'.at # "log" => worker'.hint = {}
  BY LearningTypeStep DEF LearningType, FileType, WorkerType
<1>1. ASSUME hints' = hints, due' = due, today' \in {today, today + 1}, worker.hint = {}, worker'.hint = {}
      PROVE  HintInv'
  <2>1. today' \in Nat /\ today <= today'
    BY <1>0, <1>1
  <2> QED
    BY <1>0, <1>1, <2>1, HintsKept
<1>2. ASSUME hints' = hints, Undue, today' = today, worker'.hint = {} PROVE HintInv'
  <2>1. \A d \in due' : d \in due /\ d.skill \notin worker.hint
    BY <1>2 DEF Undue
  <2>2. today' \in Nat /\ today <= today'
    BY <1>0, <1>2
  <2> QED
    BY <1>0, <1>2, <2>1, <2>2, HintsKept
<1>3. ASSUME hints' = hints, due' = due, today' \in {today, today + 1}, worker' = worker PROVE HintInv'
  <2>1. today' \in Nat /\ today <= today'
    BY <1>0, <1>3
  <2> QED
    BY <1>0, <1>3, <2>1, HintsKept DEF HintInv
<1>4. CASE Begin \/ EndJobs \/ Read \/ AppendRecord \/ DetectorFails \/ Propose \/ EndWrites
  <2>1. worker.at # "log"
    BY <1>4 DEF Begin, EndJobs, Read, AppendRecord, DetectorFails, Propose, EndWrites, At
  <2>2. hints' = hints /\ due' = due /\ today' = today
    BY <1>4 DEF Begin, EndJobs, Read, AppendRecord, DetectorFails, Propose, EndWrites, files, history, counters
  <2>3. worker'.at # "log"
    <3>1. CASE EndDetector
      BY <3>1 DEF EndDetector, Off
    <3>2. CASE Begin \/ EndJobs \/ Read \/ AppendRecord \/ Propose
      BY <2>1, <3>2 DEF Begin, EndJobs, Read, AppendRecord, Propose, GoOn, LearningType, WorkerType
    <3> QED
      BY <1>4, <3>1, <3>2 DEF DetectorFails, EndWrites
  <2> QED
    BY <1>0, <1>1, <2>1, <2>2, <2>3
<1>5. CASE LogFails \/ Crash
  <2>1. worker'.at # "log"
    <3>1. CASE Crash
      BY <3>1 DEF Crash, Off
    <3>2. CASE LogFails
      <4>1. worker' = [worker EXCEPT !.at = "write", !.hint = {}]
        BY <3>2, Zenon DEF LogFails
      <4> QED
        BY <4>1 DEF LearningType, WorkerType
    <3> QED
      BY <1>5, <3>1, <3>2
  <2> QED
    BY <1>0, <1>2, <1>5, <2>1 DEF LogFails, Crash, files
<1>6. CASE Midnight
  BY <1>3, <1>6 DEF Midnight, files, history
<1>7. ASSUME NEW j \in Job, CompleteJob(j) \/ CompleteJobBlind(j) PROVE HintInv'
  <2>1. worker.at # "log"
    BY <1>7 DEF CompleteJob, CompleteJobBlind, At
  <2>2. hints' = hints /\ due' = due /\ today' = today
    BY <1>7 DEF CompleteJob, CompleteJobBlind, files, history, counters
  <2>3. worker'.at # "log"
    BY <1>7, <2>1 DEF CompleteJob, CompleteJobBlind, LearningType, WorkerType
  <2> QED
    BY <1>0, <1>1, <2>1, <2>2, <2>3
<1>8. ASSUME NEW c \in worker.todo, WriteCandidate(c) PROVE HintInv'
  <2>0. PICK update \in {{}, {c.id.skill}} :
          /\ update # {} => c.id.detector = "update" /\ c \in pending'
          /\ worker' = [worker EXCEPT !.todo = worker.todo \ {c}, !.hint = SafeNames(update),
                                      !.at = IF SafeNames(update) = {} THEN "write" ELSE "log"]
          /\ due' = due \cup {[skill |-> s, day |-> today] : s \in update}
    BY <1>8 DEF WriteCandidate
  <2> DEFINE hints1 == SafeNames(update)
  <2>1. worker' = [worker EXCEPT !.todo = worker.todo \ {c}, !.hint = hints1,
                                 !.at = IF hints1 = {} THEN "write" ELSE "log"]
    BY <2>0
  <2>2. worker.at = "write" /\ hints' = hints /\ today' = today
    BY <1>8 DEF WriteCandidate, At, counters
  <2>3. worker'.hint = hints1 /\ update \subseteq Skills
    BY <2>0, <2>1 DEF LearningType, WorkerType, SafeNames
  <2>4. \A d \in due' : \/ d \in due
                        \/ /\ d.skill \in Skills /\ d.day = today
                           /\ d.skill \in Loggable => d.skill \in worker'.hint
    BY <2>0, <2>3 DEF SafeNames
  <2>5. worker.hint = {} /\ today \in Nat /\ today <= today
    BY <1>0, <2>2
  <2>6. \A s \in worker'.hint : s \in Loggable /\ HasUpdate(pending' \cup decided', s)
    BY <2>0, <2>3 DEF HasUpdate, SafeNames
  <2> QED
    BY <2>2, <2>3, <2>4, <2>5, <2>6, HintsKept
<1>9. ASSUME NEW s \in worker.hint, LogUpdate(s) PROVE HintInv'
  <2>1. s \in Skills /\ worker.hint = {s} /\ <<s, s>> \in Suffix
    BY <1>0, SkillsEndThemselves DEF LearningType, WorkerType, Single
  <2>2. worker'.hint = {} /\ today' = today /\ due' = due
    BY <1>9 DEF LogUpdate, counters, history, LearningType, WorkerType
  <2> DEFINE marked == \E i \in DOMAIN hints : hints[i].day = today /\ <<hints[i].skill, s>> \in Suffix
             line == [skill |-> s, day |-> today]
  <2>3. hints' = IF marked THEN hints ELSE Append(hints, line)
    BY <1>9 DEF LogUpdate
  <2>4. /\ hints \in Seq([skill : Skills, day : Nat]) /\ \A i \in DOMAIN hints : hints[i].day <= today
        /\ \A i, k \in DOMAIN hints : hints[i] = hints[k] => i = k
        /\ \A d \in due : d.skill \in Skills /\ d.day \in Nat /\ d.day <= today
        /\ \A d \in due : d.skill \in Loggable => d.skill \in worker.hint \/ Logged(hints, d)
        /\ LogNames(hints, pending \cup decided)
    BY HintedParts DEF HintInv
  <2>7. /\ s \in Loggable /\ HasUpdate(pending \cup decided, s)
        /\ pending' \cup decided' = pending \cup decided
    BY <1>9 DEF HintInv, LogUpdate
  <2>5. CASE marked
    <3>1. hints' = hints
      BY <2>3, <2>5
    <3>2. \A d \in due : d.skill = s => Logged(hints, d)
      BY <1>0, <2>4, <2>5 DEF Logged
    <3>3. \A d \in due : d.skill \in Loggable => Logged(hints, d)
      BY <2>1, <2>4, <3>2
    <3>4. UpdatesHinted'
      BY <2>2, <2>4, <2>7, <3>1, <3>3 DEF UpdatesHinted, LogNames, HasUpdate, Logged
    <3> QED
      BY <2>2, <2>4, <3>1, <3>4 DEF HintInv
  <2>6. CASE ~marked
    <3> DEFINE n == Len(hints)
               new == Append(hints, line)
    <3>1. hints' = new
      BY <2>3, <2>6
    <3>2. n \in Nat /\ DOMAIN hints = 1 .. n /\ DOMAIN new = 1 .. n + 1 /\ new[n + 1] = line
          /\ (\A i \in 1 .. n : new[i] = hints[i]) /\ new \in Seq([skill : Skills, day : Nat])
      BY <1>0, <2>1, <2>4
    <3>3. \A i \in 1 .. n : hints[i] # line
      <4>1. line.day = today /\ line.skill = s
        OBVIOUS
      <4> HIDE DEF line
      <4> QED
        BY <2>1, <2>6, <3>2, <4>1
    <3> HIDE DEF new, n, marked
    <3>4. \A i \in 1 .. n + 1 : i \in 1 .. n \/ i = n + 1
      BY <3>2
    <3>5. (\A i \in 1 .. n : i \in 1 .. n + 1) /\ n + 1 \in 1 .. n + 1
      BY <3>2
    <3>6. \A i \in DOMAIN new : new[i].day <= today
      BY <1>0, <2>4, <3>2, <3>4
    <3>7. \A i, k \in DOMAIN new : new[i] = new[k] => i = k
      BY <2>4, <3>2, <3>3, <3>4
    <3>8. \A d \in due : d.skill \in Loggable => Logged(new, d)
      <4> SUFFICES ASSUME NEW d \in due, d.skill \in Loggable PROVE Logged(new, d)
        OBVIOUS
      <4>1. CASE d.skill = s
        <5>1. new[n + 1].day >= d.day /\ <<new[n + 1].skill, d.skill>> \in Suffix
          BY <1>0, <2>1, <2>4, <3>2, <4>1
        <5> QED
          BY <3>2, <3>5, <5>1 DEF Logged
      <4>2. CASE d.skill # s
        <5>1. PICK i \in DOMAIN hints : hints[i].day >= d.day /\ <<hints[i].skill, d.skill>> \in Suffix
          BY <2>1, <2>4, <4>2 DEF Logged
        <5>2. i \in DOMAIN new /\ new[i] = hints[i]
          BY <3>2, <3>5
        <5> QED
          BY <5>1, <5>2 DEF Logged
      <4> QED
        BY <4>1, <4>2
    <3>9. LogNames(new, pending \cup decided)
      <4>1. new[n + 1].skill = s
        BY <3>2 DEF line
      <4> QED
        BY <2>4, <2>7, <3>2, <3>4, <4>1 DEF LogNames
    <3>10. UpdatesHinted'
      BY <2>2, <2>7, <3>1, <3>7, <3>8, <3>9 DEF UpdatesHinted, LogNames, HasUpdate, Logged
    <3> QED
      BY <2>2, <2>4, <3>1, <3>2, <3>6, <3>10 DEF HintInv
  <2> QED
    BY <2>5, <2>6
<1>10. ASSUME NEW c \in pending, Decide(c) PROVE HintInv'
  BY <1>3, <1>10 DEF Decide, history, counters
<1>11. CASE UNCHANGED vars
  BY <1>3, <1>11 DEF vars, files, counters, history
<1> QED
  BY <1>4, <1>5, <1>6, <1>7, <1>8, <1>9, <1>10, <1>11 DEF Next

\* The log names a skill at most once a day, and only one with a safe name and a candidate file;
\* it names every skill with a safe name and an update written that day or later, or in its stead
\* one whose name ends with its name, unless the pass died or failed in between.
THEOREM UpdatesAreHinted == Spec => []UpdatesHinted
<1>1. Init => LearningType /\ HintInv
  <2>1. DOMAIN <<>> = {}
    OBVIOUS
  <2>2. Init => HintInv
    BY <2>1 DEF Init, HintInv, UpdatesHinted, Off
  <2> QED
    BY <2>2, LearningStart
<1>2. LearningType /\ HintInv /\ [Next]_vars => (LearningType /\ HintInv)'
  BY LearningTypeStep, HintStep
<1>3. HintInv => UpdatesHinted
  BY DEF HintInv
<1> QED
  BY <1>1, <1>2, <1>3, PTL DEF Spec

-----------------------------------------------------------------------------
(* The learning indexes: what completed jobs have taught *)

\* The kinds of observations a worker at that place has yet to append, and their ids.
AheadOf(at, index) ==
  CASE at = "off" -> {}
    [] at \in {"jobs", "index", "append"} -> {index, "workflows"}
    [] OTHER -> {"workflows"} \ {index}
HeldIds(at, index, seq) == Ids(OfSeq(seq) \cap UNION {Kind(x) : x \in AheadOf(at, index)})

Taught == \A j \in done : Ids(OfSeq(Seen[j])) \subseteq OnDisk \cup lost \cup InMemory

\* While no line was cut: the files are whole, and what append_new is about to add makes up
\* for what the index lacks.
Sound ==
  /\ \A x \in Index : ended[x] /\ Whole(file[x])
  /\ At("append") => /\ worker.records = RecordsOf(file[worker.index])
                     /\ \A o \in OfSeq(worker.observed) \cap Kind(worker.index) :
                          o.id \in Recorded(worker.records) \cup Ids(OfSeq(worker.fresh))

TaughtInv == cut \/ (Sound /\ Taught)

LEMMA InMemoryIs ==
  /\ InMemory = HeldIds(worker.at, worker.index, worker.observed)
  /\ InMemory' = HeldIds(worker'.at, worker'.index, worker'.observed)
BY Zenon DEF InMemory, Ahead, HeldIds, AheadOf, OfSeq

LEMMA HeldIdsOf ==
  ASSUME NEW at, NEW index, NEW seq, NEW x
  PROVE  x \in HeldIds(at, index, seq) <=>
           \E o \in OfSeq(seq) : x = o.id /\ \E y \in AheadOf(at, index) : o \in Kind(y)
<1>1. \A o : o \in OfSeq(seq) \cap UNION {Kind(y) : y \in AheadOf(at, index)} <=>
              o \in OfSeq(seq) /\ \E y \in AheadOf(at, index) : o \in Kind(y)
  OBVIOUS
<1> QED
  BY <1>1 DEF HeldIds, Ids

\* A step that completes no job keeps what was taught if it puts what leaves its hands on disk.
LEMMA TaughtKept ==
  ASSUME Taught, done' = done, lost \subseteq lost', OnDisk \subseteq OnDisk',
         InMemory \subseteq OnDisk' \cup lost' \cup InMemory'
  PROVE  Taught'
BY DEF Taught

LEMMA OnDiskIs ==
  /\ OnDisk = UNION {Recorded(RecordsOf(file[x])) : x \in Index}
  /\ OnDisk' = UNION {Recorded(RecordsOf(file'[x])) : x \in Index}
BY Zenon DEF OnDisk, ReadIndex, RecordsOf

LEMMA SameDisk ==
  ASSUME UNCHANGED file PROVE OnDisk' = OnDisk
BY DEF OnDisk, ReadIndex

\* A whole line is written to whole files.
LEMMA DiskGrows ==
  ASSUME FileType, Sound, NEW x \in Index, NEW o \in Kind(x), NEW t \in Nat, AddLine(x, Line(o, t), TRUE)
  PROVE  /\ \A y \in Index : ended'[y] /\ Whole(file'[y])
         /\ RecordsOf(file'[x]) = RecordsOf(file[x]) \cup {[of |-> o, at |-> t]}
         /\ \A y \in Index : y # x => file'[y] = file[y]
         /\ OnDisk' = OnDisk \cup {o.id}
<1>1. file' = [file EXCEPT ![x] = Append(file[x], Line(o, t))] /\ ended' = [ended EXCEPT ![x] = TRUE]
  BY DEF AddLine, Sound
<1>2. /\ file'[x] = Append(file[x], Line(o, t)) /\ ended'[x]
      /\ \A y \in Index : y # x => file'[y] = file[y] /\ ended'[y] = ended[y]
  BY <1>1 DEF FileType
<1>3. /\ Whole(file'[x])
      /\ RecordsOf(file'[x]) = RecordsOf(file[x]) \cup {[of |-> o, at |-> t]}
  BY <1>2, AppendLine DEF FileType, Sound
<1>4. \A y \in Index : ended'[y] /\ Whole(file'[y])
  BY <1>2, <1>3 DEF Sound
<1> DEFINE old == RecordsOf(file[x])
           new == RecordsOf(file'[x])
           r   == [of |-> o, at |-> t]
<1>5. r.of = o /\ new = old \cup {r}
  BY <1>3
<1> HIDE DEF old, new, r
<1>6. Recorded(new) = Recorded(old) \cup {o.id}
  <2>1. \A i : i \in Recorded(new) <=> \E q \in new : i = q.of.id
    BY DEF Recorded
  <2>2. \A i : i \in Recorded(old) <=> \E q \in old : i = q.of.id
    BY DEF Recorded
  <2>3. \A i : i \in Recorded(new) <=> i \in Recorded(old) \/ i = o.id
    BY <1>5, <2>1, <2>2
  <2> QED
    BY <2>3
<1>7. OnDisk' = OnDisk \cup {o.id}
  <2>1. \A i : i \in OnDisk' <=> \E y \in Index : i \in Recorded(RecordsOf(file'[y]))
    BY OnDiskIs
  <2>2. \A i : i \in OnDisk <=> \E y \in Index : i \in Recorded(RecordsOf(file[y]))
    BY OnDiskIs
  <2>3. \A i : i \in OnDisk' <=> i \in OnDisk \/ i = o.id
    BY <1>2, <1>6, <2>1, <2>2 DEF old, new
  <2> QED
    BY <2>3
<1> QED
  BY <1>2, <1>3, <1>4, <1>7

LEMMA TaughtStep ==
  ASSUME LearningType, TaughtInv, [Next]_vars
  PROVE  TaughtInv'
<1>1. CASE cut'
  BY <1>1 DEF TaughtInv
<1>2. CASE ~cut'
  <2>0. cut' = cut \/ cut' = TRUE
    <3>1. CutLine => cut' = TRUE
      BY DEF CutLine
    <3> QED
      BY <3>1 DEF Next, vars, history, Begin, EndJobs, Read, AppendRecord, DetectorFails, Propose, LogFails, EndWrites,
         Crash, Midnight, CompleteJob, CompleteJobBlind, WriteCandidate, LogUpdate, Decide
  <2> SUFFICES Sound' /\ Taught'
    BY DEF TaughtInv
  <2>1. Sound /\ Taught
    BY <1>2, <2>0 DEF TaughtInv
  <2>2. /\ worker.index \in Index /\ worker.at \in Places /\ (worker.at \in {"off", "jobs"} => worker.index = "lessons")
        /\ worker.observed \in Seq(Observation) /\ pass \in Nat
    BY DEF LearningType, WorkerType, FileType
  <2>3. \A x \in Index : ended[x] /\ Whole(file[x])
    BY <2>1 DEF Sound
  <2>4. ~CutLine
    BY <1>2 DEF CutLine
  <2>5. ASSUME UNCHANGED <<file, ended>>, worker'.at # "append" PROVE Sound'
    BY <2>3, <2>5 DEF Sound, At
  <2>6. ASSUME UNCHANGED file, done' = done, lost' = lost, InMemory \subseteq InMemory' PROVE Taught'
    BY <2>1, <2>6, TaughtKept, SameDisk
  <2>7. CASE Begin
    <3>1. worker' = [worker EXCEPT !.at = "jobs"] /\ worker.at = "off" /\ UNCHANGED <<file, ended, done, lost>>
      BY <2>7 DEF Begin, GoOn, At, indexes, history
    <3>2. worker'.at = "jobs"
      BY <3>1 DEF LearningType, WorkerType
    <3>3. InMemory = {}
      BY <3>1, InMemoryIs, HeldIdsOf DEF AheadOf
    <3> QED
      BY <2>5, <2>6, <3>1, <3>2, <3>3
  <2>8. CASE EndJobs
    <3>1. /\ worker' = [worker EXCEPT !.at = "index", !.job = 0] /\ worker.at = "jobs"
          /\ UNCHANGED <<file, ended, done, lost>>
      BY <2>8 DEF EndJobs, At, indexes, history
    <3>2. worker'.at = "index" /\ worker'.index = worker.index /\ worker'.observed = worker.observed
      BY <3>1 DEF LearningType, WorkerType
    <3>3. AheadOf(worker'.at, worker'.index) = AheadOf(worker.at, worker.index)
      BY <3>1, <3>2 DEF AheadOf
    <3>4. InMemory' = InMemory
      BY <3>2, <3>3, InMemoryIs DEF HeldIds
    <3> QED
      BY <2>5, <2>6, <3>1, <3>2, <3>4
  <2>9. CASE Read
    <3> DEFINE records == ReadIndex(worker.index)
               fresh   == Fresh(worker.index, records, worker.observed)
    <3>1. /\ worker' = [worker EXCEPT !.at = "append", !.records = records, !.fresh = fresh] /\ worker.at = "index"
          /\ UNCHANGED <<file, ended, done, lost>>
      BY <2>9 DEF Read, At, indexes, history
    <3>2. \A o \in OfSeq(worker.observed) \cap Kind(worker.index) : o.id \in Recorded(records) \cup Ids(OfSeq(fresh))
      <4> HIDE DEF records
      <4> QED
        BY <2>2, FreshAdds
    <3>5. records = RecordsOf(file[worker.index])
      BY ReadIsRecordsOf
    <3> HIDE DEF records, fresh
    <3>6. /\ worker'.at = "append" /\ worker'.index = worker.index /\ worker'.observed = worker.observed
          /\ worker'.records = records /\ worker'.fresh = fresh
      BY <3>1 DEF LearningType, WorkerType
    <3>8. Sound'
      <4>1. worker'.records = RecordsOf(file'[worker'.index])
        BY <3>1, <3>5, <3>6
      <4>2. \A o \in OfSeq(worker'.observed) \cap Kind(worker'.index) :
              o.id \in Recorded(worker'.records) \cup Ids(OfSeq(worker'.fresh))
        BY <3>2, <3>6
      <4>3. \A x \in Index : ended'[x] /\ Whole(file'[x])
        BY <2>3, <3>1
      <4> QED
        BY <4>1, <4>2, <4>3 DEF Sound
    <3>9. AheadOf(worker'.at, worker'.index) = AheadOf(worker.at, worker.index)
      BY <3>1, <3>6 DEF AheadOf
    <3>10. InMemory' = InMemory
      BY <3>6, <3>9, InMemoryIs DEF HeldIds
    <3> QED
      BY <2>6, <3>1, <3>8, <3>10
  <2>10. CASE AppendRecord
    <3> DEFINE o == Head(worker.fresh)
               rest == Tail(worker.fresh)
               r == [of |-> o, at |-> pass]
    <3>1. /\ worker.at = "append" /\ worker.fresh # <<>>
          /\ AddLine(worker.index, Line(o, pass), TRUE)
          /\ worker' = [worker EXCEPT !.fresh = rest, !.records = worker.records \cup {r}]
          /\ UNCHANGED <<done, lost>>
      BY <2>10 DEF AppendRecord, At, history
    <3>2. o \in Kind(worker.index) /\ OfSeq(worker.fresh) = {o} \cup OfSeq(rest)
      BY <3>1, HeadTail DEF LearningType, WorkerType
    <3>3. /\ \A y \in Index : ended'[y] /\ Whole(file'[y])
          /\ RecordsOf(file'[worker.index]) = RecordsOf(file[worker.index]) \cup {r}
          /\ OnDisk' = OnDisk \cup {o.id}
      <4> HIDE DEF o, rest
      <4>1. FileType /\ Sound /\ worker.index \in Index /\ o \in Kind(worker.index) /\ pass \in Nat
        BY <2>1, <2>2, <3>2 DEF LearningType
      <4>2. /\ \A y \in Index : ended'[y] /\ Whole(file'[y])
            /\ RecordsOf(file'[worker.index]) = RecordsOf(file[worker.index]) \cup {[of |-> o, at |-> pass]}
            /\ \A y \in Index : y # worker.index => file'[y] = file[y]
            /\ OnDisk' = OnDisk \cup {o.id}
        BY <3>1, <4>1, DiskGrows
      <4> QED
        BY <4>2
    <3>4. /\ worker.records = RecordsOf(file[worker.index])
          /\ \A p \in OfSeq(worker.observed) \cap Kind(worker.index) :
               p.id \in Recorded(worker.records) \cup Ids(OfSeq(worker.fresh))
      BY <2>1, <3>1 DEF Sound, At
    <3>5. r.of = o
      OBVIOUS
    <3> HIDE DEF o, rest, r
    <3>6. /\ worker'.at = "append" /\ worker'.index = worker.index /\ worker'.observed = worker.observed
          /\ worker'.records = worker.records \cup {r} /\ worker'.fresh = rest
      BY <3>1 DEF LearningType, WorkerType
    <3>7. Sound'
      <4>1. worker'.records = RecordsOf(file'[worker'.index])
        BY <3>3, <3>4, <3>6
      <4>2. ASSUME NEW p \in OfSeq(worker'.observed) \cap Kind(worker'.index)
            PROVE  p.id \in Recorded(worker'.records) \cup Ids(OfSeq(worker'.fresh))
        <5>1. p.id \in Recorded(worker.records) \/ p.id \in Ids(OfSeq(worker.fresh))
          BY <3>4, <3>6
        <5>2. Ids(OfSeq(worker.fresh)) \subseteq {o.id} \cup Ids(OfSeq(rest))
          BY <3>2 DEF Ids
        <5>3. o.id \in Recorded(worker'.records) /\ Recorded(worker.records) \subseteq Recorded(worker'.records)
          BY <3>5, <3>6 DEF Recorded
        <5> QED
          BY <3>6, <5>1, <5>2, <5>3
      <4> QED
        BY <3>3, <4>1, <4>2 DEF Sound
    <3>8. InMemory' = InMemory
      BY <3>1, <3>6, InMemoryIs
    <3>9. Taught'
      BY <2>1, <3>1, <3>3, <3>8, TaughtKept
    <3> QED
      BY <3>7, <3>9
  <2>11. ASSUME EndDetector, UNCHANGED <<file, ended, done>>, lost \subseteq lost',
                \A o \in OfSeq(worker.observed) \cap Kind(worker.index) : o.id \in InMemory => o.id \in OnDisk' \cup lost'
         PROVE  Sound' /\ Taught'
    <3>1. /\ worker'.at \in {"off", "index"}
          /\ worker.index = "lessons" => worker'.at = "index" /\ worker'.index = "workflows"
                                        /\ worker'.observed = worker.observed
      BY <2>11, EndDetectorType DEF LearningType
    <3>2. Sound'
      BY <2>5, <2>11, <3>1
    <3>3. ASSUME NEW i \in InMemory PROVE i \in OnDisk' \cup lost' \cup InMemory'
      <4>1. PICK o \in OfSeq(worker.observed) : i = o.id /\ \E y \in AheadOf(worker.at, worker.index) : o \in Kind(y)
        BY InMemoryIs, HeldIdsOf
      <4>2. AheadOf(worker.at, worker.index) \subseteq {worker.index, "workflows"}
        BY DEF AheadOf
      <4>3. CASE o \in Kind(worker.index)
        BY <2>11, <4>1, <4>3
      <4>4. CASE o \notin Kind(worker.index)
        <5>1. o \in Kind("workflows") /\ worker.index = "lessons"
          BY <2>2, <4>1, <4>2, <4>4 DEF Index
        <5>2. "workflows" \in AheadOf(worker'.at, worker'.index)
          BY <3>1, <5>1 DEF AheadOf
        <5>3. i \in InMemory'
          BY <3>1, <4>1, <5>1, <5>2, InMemoryIs, HeldIdsOf
        <5> QED
          BY <5>3
      <4> QED
        BY <4>3, <4>4
    <3>4. Taught'
      BY <2>1, <2>11, <3>3, TaughtKept, SameDisk
    <3> QED
      BY <3>2, <3>4
  <2>12. CASE DetectorFails
    <3>1. EndDetector /\ UNCHANGED <<file, ended, done>> /\ lost' = lost \cup ((InMemory \cap Ids(Kind(worker.index))) \ OnDisk)
      BY <2>4, <2>12 DEF DetectorFails, GiveUp, indexes
    <3>2. \A o \in Kind(worker.index) : o.id \in Ids(Kind(worker.index))
      BY DEF Ids
    <3>3. OnDisk' = OnDisk
      BY <3>1, SameDisk
    <3> QED
      BY <2>11, <3>1, <3>2, <3>3
  <2>13. CASE EndWrites
    <3>1. EndDetector /\ UNCHANGED <<file, ended, done, lost>> /\ worker.at = "write"
      BY <2>13 DEF EndWrites, At, indexes, history
    <3>2. AheadOf(worker.at, worker.index) \subseteq {"workflows"} \ {worker.index}
      BY <3>1 DEF AheadOf
    <3>3. ASSUME NEW o \in OfSeq(worker.observed) \cap Kind(worker.index), o.id \in InMemory PROVE FALSE
      <4>1. PICK p \in OfSeq(worker.observed) : o.id = p.id /\ p \in Kind("workflows") /\ worker.index # "workflows"
        BY <3>2, <3>3, InMemoryIs, HeldIdsOf
      <4>2. o \in Lesson /\ p \in Workflow
        BY <2>2, <4>1 DEF Kind, Index
      <4> QED
        BY <4>1, <4>2, LearningIndexAssumption
    <3> QED
      BY <2>11, <3>1, <3>3
  <2>14. CASE Propose
    <3>1. /\ worker' = [worker EXCEPT !.at = "write", !.todo = Candidates(worker.index, worker.records)]
          /\ worker.at = "append" /\ worker.fresh = <<>>
          /\ UNCHANGED <<file, ended, done, lost>>
      BY <2>14 DEF Propose, At, indexes
    <3>2. worker'.at = "write" /\ worker'.index = worker.index /\ worker'.observed = worker.observed
      BY <3>1 DEF LearningType, WorkerType
    <3>3. /\ worker.records = RecordsOf(file[worker.index])
          /\ \A p \in OfSeq(worker.observed) \cap Kind(worker.index) :
               p.id \in Recorded(worker.records) \cup Ids(OfSeq(worker.fresh))
      BY <2>1, <3>1 DEF Sound, At
    <3>4. Ids(OfSeq(worker.fresh)) = {}
      BY <3>1 DEF Ids, OfSeq
    <3>5. Recorded(worker.records) \subseteq OnDisk
      BY <2>2, <3>3, OnDiskIs
    <3>6. ASSUME NEW i \in InMemory PROVE i \in OnDisk \cup InMemory'
      <4>1. PICK o \in OfSeq(worker.observed) : i = o.id /\ \E y \in AheadOf(worker.at, worker.index) : o \in Kind(y)
        BY InMemoryIs, HeldIdsOf
      <4>2. CASE o \in Kind(worker.index)
        BY <3>3, <3>4, <3>5, <4>1, <4>2
      <4>3. CASE o \notin Kind(worker.index)
        <5>1. AheadOf(worker.at, worker.index) = {worker.index, "workflows"}
          BY <3>1 DEF AheadOf
        <5>2. o \in Kind("workflows") /\ worker.index # "workflows"
          BY <4>1, <4>3, <5>1
        <5>3. "workflows" \in AheadOf(worker'.at, worker'.index)
          BY <3>2, <5>2 DEF AheadOf
        <5>4. i \in InMemory'
          BY <3>2, <4>1, <5>2, <5>3, InMemoryIs, HeldIdsOf
        <5> QED
          BY <5>4
      <4> QED
        BY <4>2, <4>3
    <3>7. Taught'
      BY <2>1, <3>1, <3>6, TaughtKept, SameDisk
    <3> QED
      BY <2>5, <3>1, <3>2, <3>7
  <2>15. CASE Crash
    <3>1. worker' = Off /\ UNCHANGED <<file, ended, done>> /\ lost' = lost \cup ((InMemory \cap InMemory) \ OnDisk)
      BY <2>4, <2>15 DEF Crash, GiveUp, indexes
    <3>2. worker'.at = "off"
      BY <3>1 DEF Off
    <3>3. OnDisk' = OnDisk
      BY <3>1, SameDisk
    <3>4. Taught'
      BY <2>1, <3>1, <3>3, TaughtKept
    <3> QED
      BY <2>5, <3>1, <3>2, <3>4
  <2>16. ASSUME NEW j \in Job, CompleteJob(j) PROVE Sound' /\ Taught'
    <3>1. /\ worker' = [worker EXCEPT !.job = j, !.observed = worker.observed \o Seen[j]] /\ worker.at = "jobs"
          /\ done' = done \cup {j} /\ UNCHANGED <<file, ended, lost>>
      BY <2>16 DEF CompleteJob, At, indexes, history
    <3>2. Seen[j] \in Seq(Observation) /\ OfSeq(worker.observed \o Seen[j]) = OfSeq(worker.observed) \cup OfSeq(Seen[j])
      BY <2>2, LearningIndexAssumption, OfAppend
    <3>3. worker'.at = "jobs" /\ worker'.index = "lessons" /\ worker'.observed = worker.observed \o Seen[j]
      BY <2>2, <3>1 DEF LearningType, WorkerType
    <3>4. AheadOf("jobs", "lessons") = Index
      BY DEF AheadOf, Index
    <3>5. \A o \in Observation : \E y \in Index : o \in Kind(y)
      BY DEF Observation, Kind, Index
    <3>6. OfSeq(Seen[j]) \subseteq Observation
      BY <3>2 DEF OfSeq
    <3>7. Ids(OfSeq(Seen[j])) \subseteq InMemory'
      BY <3>2, <3>3, <3>4, <3>5, <3>6, InMemoryIs, HeldIdsOf DEF Ids
    <3>8. InMemory \subseteq InMemory'
      BY <2>2, <3>1, <3>2, <3>3, InMemoryIs, HeldIdsOf
    <3>9. OnDisk' = OnDisk
      BY <3>1, SameDisk
    <3>10. Taught'
      BY <2>1, <3>1, <3>7, <3>8, <3>9 DEF Taught
    <3> QED
      BY <2>5, <3>1, <3>3, <3>10
  <2>17. ASSUME NEW j \in Job, CompleteJobBlind(j) PROVE Sound' /\ Taught'
    <3>1. /\ worker' = [worker EXCEPT !.job = j] /\ worker.at = "jobs"
          /\ done' = done \cup {j} /\ UNCHANGED <<file, ended>>
          /\ lost' = lost \cup Ids(OfSeq(Seen[j]))
      BY <2>17 DEF CompleteJobBlind, At, indexes, OfSeq
    <3>2. worker'.at = worker.at /\ worker'.index = worker.index /\ worker'.observed = worker.observed
      BY <3>1 DEF LearningType, WorkerType
    <3>3. InMemory' = InMemory /\ OnDisk' = OnDisk
      BY <3>1, <3>2, InMemoryIs, SameDisk
    <3>4. Taught'
      BY <2>1, <3>1, <3>3 DEF Taught
    <3> QED
      BY <2>5, <3>1, <3>2, <3>4
  <2>18. ASSUME UNCHANGED <<file, ended, done, lost>>, worker.at \in {"write", "log"}, worker'.at \in {"write", "log"},
                worker'.index = worker.index, worker'.observed = worker.observed
         PROVE  Sound' /\ Taught'
    <3>1. AheadOf(worker'.at, worker'.index) = AheadOf(worker.at, worker.index)
      BY <2>18 DEF AheadOf
    <3>2. InMemory' = InMemory
      BY <2>18, <3>1, InMemoryIs DEF HeldIds
    <3> QED
      BY <2>5, <2>6, <2>18, <3>2
  <2>19. CASE LogFails
    <3>1. /\ worker' = [worker EXCEPT !.at = "write", !.hint = {}] /\ worker.at = "log"
          /\ UNCHANGED <<file, ended, done, lost>>
      BY <2>19 DEF LogFails, At, indexes
    <3>2. worker'.at = "write" /\ worker'.index = worker.index /\ worker'.observed = worker.observed
      BY <3>1 DEF LearningType, WorkerType
    <3> QED
      BY <2>18, <3>1, <3>2
  <2>20. ASSUME NEW c \in worker.todo, WriteCandidate(c) PROVE Sound' /\ Taught'
    <3>1. PICK hints1 \in {{}, {c.id.skill}} :
            worker' = [worker EXCEPT !.todo = worker.todo \ {c}, !.hint = hints1,
                                     !.at = IF hints1 = {} THEN "write" ELSE "log"]
      BY <2>20, WorkerWrites
    <3>2. worker.at = "write" /\ UNCHANGED <<file, ended, done, lost>>
      BY <2>20 DEF WriteCandidate, At, indexes
    <3>3. worker'.at \in {"write", "log"} /\ worker'.index = worker.index /\ worker'.observed = worker.observed
      BY <3>1 DEF LearningType, WorkerType
    <3> QED
      BY <2>18, <3>2, <3>3
  <2>21. ASSUME NEW s \in worker.hint, LogUpdate(s) PROVE Sound' /\ Taught'
    <3>1. /\ worker' = [worker EXCEPT !.at = "write", !.hint = {}] /\ worker.at = "log"
          /\ UNCHANGED <<file, ended, done, lost>>
      BY <2>21 DEF LogUpdate, At, indexes, history
    <3>2. worker'.at = "write" /\ worker'.index = worker.index /\ worker'.observed = worker.observed
      BY <3>1 DEF LearningType, WorkerType
    <3> QED
      BY <2>18, <3>1, <3>2
  <2>22. ASSUME UNCHANGED <<file, ended, done, lost, worker>> PROVE Sound' /\ Taught'
    <3>1. InMemory' = InMemory
      BY <2>22, InMemoryIs
    <3>2. Sound'
      BY <2>1, <2>22 DEF Sound, At
    <3> QED
      BY <2>6, <2>22, <3>1, <3>2
  <2>23. CASE Midnight
    BY <2>22, <2>23 DEF Midnight, indexes, history
  <2>24. ASSUME NEW c \in pending, Decide(c) PROVE Sound' /\ Taught'
    BY <2>22, <2>24 DEF Decide, indexes, history
  <2>25. CASE UNCHANGED vars
    BY <2>22, <2>25 DEF vars, indexes, history
  <2> QED
    BY <2>7, <2>8, <2>9, <2>10, <2>12, <2>13, <2>14, <2>15, <2>16, <2>17, <2>19, <2>20, <2>21, <2>23, <2>24, <2>25
       DEF Next
<1> QED
  BY <1>1, <1>2

LEMMA TaughtStart == Init => TaughtInv
<1> SUFFICES ASSUME Init PROVE TaughtInv
  OBVIOUS
<1>1. \A x \in Index : ended[x] /\ file[x] = <<>>
  BY DEF Init
<1>2. Whole(<<>>)
  BY DEF Whole
<1>3. worker.at = "off" /\ done = {}
  BY DEF Init, Off
<1> QED
  BY <1>1, <1>2, <1>3 DEF TaughtInv, Sound, Taught, At

\* What the jobs in completed have taught is in an index that the next pass will read, or in
\* the hands of the pass that has yet to append it, whatever else dies or fails, unless a
\* line was cut.
THEOREM TaughtIsIndexed == Spec => []ObservedIndexed
<1>1. Init => LearningType /\ TaughtInv
  BY LearningStart, TaughtStart
<1>2. LearningType /\ TaughtInv /\ [Next]_vars => (LearningType /\ TaughtInv)'
  BY LearningTypeStep, TaughtStep
<1>3. TaughtInv => ObservedIndexed
  BY DEF TaughtInv, Taught, ObservedIndexed, OfSeq
<1> QED
  BY <1>1, <1>2, <1>3, PTL DEF Spec

-----------------------------------------------------------------------------
(* The learning indexes: clusters *)

Clustering == Seq(Seq(Observation) \ {<<>>})

Distinct(S) == \A r, q \in S : r.of.id = q.of.id => r = q

LEMMA MembersAre == \A C : Members(C) = OfSeq(C)
BY DEF Members, OfSeq

\* The first of some places of a list.
LEMMA FirstOf ==
  ASSUME NEW n \in Nat, NEW near \in SUBSET (1 .. n), near # {}
  PROVE  (CHOOSE i \in near : \A k \in near : i <= k) \in near
<1>1. near \subseteq Nat
  OBVIOUS
<1>2. PICK i \in near : \A k \in near : ~(<<k, i>> \in OpToRel(<, Nat))
  BY <1>1, NatLessThanWellFounded, WFMin
<1>3. \A k \in near : ~(k < i)
  BY <1>1, <1>2 DEF OpToRel
<1>4. \A k \in near : i <= k
  BY <1>1, <1>3
<1> QED
  BY <1>4

Joined(old, o, new) ==
  \E i \in DOMAIN new :
    /\ OfSeq(new[i]) = {o} \cup (IF i \in DOMAIN old THEN OfSeq(old[i]) ELSE {})
    /\ \A k \in DOMAIN new : k # i => k \in DOMAIN old /\ new[k] = old[k]

\* Joining an observation leaves every cluster its anchor, and puts it in one of them.
LEMMA JoinStep ==
  ASSUME NEW old \in Clustering, NEW o \in Observation, NEW new, new = Join(old, o)
  PROVE  /\ new \in Clustering /\ DOMAIN old \subseteq DOMAIN new
         /\ \A i \in DOMAIN old : Head(new[i]) = Head(old[i]) /\ OfSeq(old[i]) \subseteq OfSeq(new[i])
         /\ Joined(old, o, new)
<1> DEFINE n    == Len(old)
           near == {i \in DOMAIN old : Alike(Head(old[i]), o)}
           at   == CHOOSE i \in near : \A k \in near : i <= k
           A    == Seq(Observation) \ {<<>>}
<1>1. n \in Nat /\ DOMAIN old = 1 .. n /\ old \in Seq(A) /\ \A i \in 1 .. n : old[i] \in A
  BY DEF Clustering
<1>2. new = IF near = {} THEN Append(old, <<o>>) ELSE [old EXCEPT ![at] = Append(old[at], o)]
  BY DEF Join
<1>3. near \in SUBSET (1 .. n)
  BY <1>1
<1> HIDE DEF n, near
<1>4. CASE near = {}
  <2>1. <<o>> \in A /\ OfSeq(<<o>>) = {o}
    <3>1. DOMAIN <<o>> = {1} /\ <<o>>[1] = o
      OBVIOUS
    <3> QED
      BY <3>1 DEF OfSeq
  <2> HIDE DEF A
  <2>2. new = Append(old, <<o>>)
    BY <1>2, <1>4
  <2>3. new \in Seq(A) /\ DOMAIN new = 1 .. n + 1 /\ new[n + 1] = <<o>> /\ \A i \in 1 .. n : new[i] = old[i]
    BY <1>1, <2>1, <2>2 DEF n
  <2>4. \A i \in 1 .. n + 1 : i # n + 1 => i \in 1 .. n
    BY <1>1
  <2>5. n + 1 \in 1 .. n + 1 /\ n + 1 \notin 1 .. n /\ 1 .. n \subseteq 1 .. n + 1
    BY <1>1
  <2>6. OfSeq(new[n + 1]) = {o} \cup {}
    BY <2>1, <2>3
  <2> QED
    BY <1>1, <2>3, <2>4, <2>5, <2>6 DEF Clustering, A, Joined
<1>5. CASE near # {}
  <2>1. at \in 1 .. n
    BY <1>1, <1>3, <1>5, FirstOf
  <2> HIDE DEF at
  <2>2. old[at] \in Seq(Observation) /\ old[at] # <<>>
    BY <1>1, <2>1
  <2> DEFINE C == Append(old[at], o)
  <2>3. /\ C \in A /\ Head(C) = Head(old[at])
        /\ OfSeq(C) = {o} \cup OfSeq(old[at])
    <3> DEFINE m == Len(old[at])
    <3>1. m \in Nat /\ m > 0 /\ DOMAIN old[at] = 1 .. m
      BY <2>2
    <3>2. C \in Seq(Observation) /\ DOMAIN C = 1 .. m + 1 /\ C[m + 1] = o /\ \A i \in 1 .. m : C[i] = old[at][i]
      BY <2>2
    <3> HIDE DEF C
    <3>3. C # <<>> /\ Head(C) = C[1] /\ Head(old[at]) = old[at][1] /\ 1 \in 1 .. m
      BY <2>2, <3>1, <3>2
    <3> HIDE DEF m
    <3>4. \A i \in 1 .. m + 1 : i \in 1 .. m \/ i = m + 1
      BY <3>1
    <3>5. m + 1 \in 1 .. m + 1 /\ 1 .. m \subseteq 1 .. m + 1
      BY <3>1
    <3>6. OfSeq(C) = {o} \cup OfSeq(old[at])
      BY <3>1, <3>2, <3>4, <3>5 DEF OfSeq
    <3> QED
      BY <3>2, <3>3, <3>6
  <2>4. new = [old EXCEPT ![at] = C]
    BY <1>2, <1>5
  <2> HIDE DEF C, A
  <2>5. DOMAIN new = 1 .. n /\ new[at] = C /\ \A i \in 1 .. n : i # at => new[i] = old[i]
    BY <1>1, <2>1, <2>4
  <2>6. new \in Seq(A)
    BY <1>1, <2>1, <2>3, <2>4
  <2>7. \A i \in 1 .. n : Head(new[i]) = Head(old[i]) /\ OfSeq(old[i]) \subseteq OfSeq(new[i])
    BY <2>3, <2>5
  <2>8. OfSeq(new[at]) = {o} \cup (IF at \in DOMAIN old THEN OfSeq(old[at]) ELSE {})
    BY <1>1, <2>1, <2>3, <2>5
  <2> QED
    BY <1>1, <2>1, <2>5, <2>6, <2>7, <2>8 DEF Clustering, A, Joined
<1> QED
  BY <1>4, <1>5

\* The fold, step by step.
LEMMA JoinSteps ==
  ASSUME NEW n \in Nat, NEW seq \in [1 .. n -> Observation]
  PROVE  \E acc \in [0 .. n -> Clustering] :
           /\ acc[0] = <<>>
           /\ \A k \in 1 .. n : acc[k] = Join(acc[k - 1], seq[k])
           /\ acc[n] = FoldLeft(Join, <<>>, seq)
<1> DEFINE step  == [y \in (1 .. n) \X Clustering |-> Join(y[2], seq[y[1]])]
           It(F) == F = [u \in SUBSET (1 .. n) |-> IF u = {} THEN <<>>
                                                   ELSE Join(F[u \ {Max(u)}], seq[Max(u)])]
           iter == CHOOSE F : It(F)
<1>1. FoldLeft(Join, <<>>, seq) = iter[1 .. n]
  <2>1. DOMAIN seq = 1 .. n
    OBVIOUS
  <2> QED
    BY Zenon, <2>1 DEF FoldLeft, MapThenFoldSet
<1>2. <<>> \in Clustering
  BY DEF Clustering
<1>3. step \in [(1 .. n) \X Clustering -> Clustering]
  BY JoinStep
<1>31. PICK F : Folds(F, n, Clustering, <<>>, step)
  <2> HIDE DEF step
  <2> QED
    BY <1>2, <1>3, Iterates
<1>4. /\ F \in [SUBSET (1 .. n) -> Clustering]
      /\ \A u \in SUBSET (1 .. n) : F[u] = IF u = {} THEN <<>> ELSE step[<<Max(u), F[u \ {Max(u)}]>>]
  <2> HIDE DEF step
  <2> QED
    BY <1>31 DEF Folds
<1>5. It(F)
  <2>1. ASSUME NEW u \in SUBSET (1 .. n)
        PROVE  F[u] = IF u = {} THEN <<>> ELSE Join(F[u \ {Max(u)}], seq[Max(u)])
    <3>1. CASE u = {}
      BY <1>4, <3>1
    <3>2. CASE u # {}
      <4>1. Max(u) \in 1 .. n
        BY <3>2, MaxOf
      <4>2. F[u \ {Max(u)}] \in Clustering
        BY <1>4
      <4>3. F[u] = step[<<Max(u), F[u \ {Max(u)}]>>]
        BY <1>4, <3>2
      <4> QED
        BY <3>2, <4>1, <4>2, <4>3
    <3> QED
      BY <3>1, <3>2
  <2> QED
    BY <1>4, <2>1
<1> HIDE DEF It
<1>6. It(iter)
  BY <1>5
<1> HIDE DEF iter
<1>7. \A u \in SUBSET (1 .. n) :
        iter[u] = IF u = {} THEN <<>> ELSE Join(iter[u \ {Max(u)}], seq[Max(u)])
  BY <1>6 DEF It
<1> DEFINE acc == [k \in 0 .. n |-> iter[1 .. k]]
<1>8. acc[0] = <<>>
  <2>1. 1 .. 0 = {} /\ 0 \in 0 .. n
    OBVIOUS
  <2> QED
    BY <1>7, <2>1
<1>9. ASSUME NEW k \in 1 .. n PROVE acc[k] = Join(acc[k - 1], seq[k]) /\ k - 1 \in 0 .. n
  <2>0. k \in 0 .. n /\ k - 1 \in 0 .. n /\ k \in Nat \ {0}
    OBVIOUS
  <2>01. k \in 1 .. k
    BY <2>0
  <2>02. \A i \in 1 .. k : i \in 1 .. n
    OBVIOUS
  <2>1. 1 .. k \in SUBSET (1 .. n) /\ 1 .. k # {}
    BY <2>01, <2>02
  <2>2. Max(1 .. k) = k /\ (1 .. k) \ {Max(1 .. k)} = 1 .. k - 1
    BY <2>0, MaxOfInterval
  <2>3. iter[1 .. k] = Join(iter[1 .. k - 1], seq[k])
    BY <1>7, <2>1, <2>2
  <2> QED
    BY <2>0, <2>3
<1>10. \A k \in 0 .. n : acc[k] \in Clustering
  <2> DEFINE P == {k \in Nat : k <= n => acc[k] \in Clustering}
  <2> HIDE DEF acc
  <2>1. 0 \in P
    BY <1>2, <1>8
  <2>2. ASSUME NEW k \in Nat, k \in P PROVE k + 1 \in P
    <3> SUFFICES ASSUME k + 1 <= n PROVE acc[k + 1] \in Clustering
      OBVIOUS
    <3>1. k + 1 \in 1 .. n /\ k + 1 - 1 = k /\ k <= n
      OBVIOUS
    <3>2. acc[k] \in Clustering
      BY <2>2, <3>1
    <3>3. acc[k + 1] = Join(acc[k], seq[k + 1]) /\ seq[k + 1] \in Observation
      BY <1>9, <3>1
    <3> QED
      BY <3>2, <3>3, JoinStep
  <2> HIDE DEF P
  <2>3. \A k \in Nat : k \in P
    BY <2>1, <2>2, Induction
  <2> QED
    BY <2>3 DEF P
<1>11. acc \in [0 .. n -> Clustering] /\ acc[n] = FoldLeft(Join, <<>>, seq)
  <2>1. n \in 0 .. n
    OBVIOUS
  <2>2. acc \in [0 .. n -> Clustering]
    BY <1>10
  <2> QED
    BY <1>1, <2>1, <2>2
<1> HIDE DEF acc
<1> QED
  BY <1>8, <1>9, <1>11

ClusteringOf(seq) == FoldLeft(Join, <<>>, seq)

\* No observation is in two clusters, and every member is one of the list.
LEMMA ClusteringIs ==
  ASSUME NEW n \in Nat, NEW seq \in [1 .. n -> Observation], NEW found, found = ClusteringOf(seq),
         \A i, j \in 1 .. n : seq[i] = seq[j] => i = j
  PROVE  /\ found \in Clustering
         /\ \A i \in DOMAIN found : OfSeq(found[i]) \subseteq OfSeq(seq)
         /\ \A i, j \in DOMAIN found : OfSeq(found[i]) \cap OfSeq(found[j]) # {} => i = j
<1>1. PICK acc \in [0 .. n -> Clustering] :
           /\ acc[0] = <<>>
           /\ \A k \in 1 .. n : acc[k] = Join(acc[k - 1], seq[k])
           /\ acc[n] = FoldLeft(Join, <<>>, seq)
  BY JoinSteps
<1> DEFINE Good(k) ==
             /\ \A i \in DOMAIN acc[k] : \A o \in OfSeq(acc[k][i]) : \E j \in 1 .. k : seq[j] = o
             /\ \A i, j \in DOMAIN acc[k] : \A o \in OfSeq(acc[k][i]) : o \in OfSeq(acc[k][j]) => i = j
           P == {k \in Nat : k <= n => Good(k)}
<1>2. 0 \in P
  <2>1. DOMAIN <<>> = {}
    OBVIOUS
  <2> QED
    BY <1>1, <2>1
<1>3. ASSUME NEW k \in Nat, k \in P PROVE k + 1 \in P
  <2>0. k + 1 \in Nat /\ (k + 1 <= n => Good(k + 1)) => k + 1 \in P
    <3> HIDE DEF Good
    <3> QED
      OBVIOUS
  <2> SUFFICES ASSUME k + 1 <= n PROVE Good(k + 1)
    <3> HIDE DEF P
    <3> QED
      BY <2>0
  <2> DEFINE o == seq[k + 1]
             old == acc[k]
             new == acc[k + 1]
  <2>1. k + 1 \in 1 .. n /\ k + 1 - 1 = k /\ k <= n /\ k \in 0 .. n
    OBVIOUS
  <2>2. Good(k)
    BY <1>3, <2>1
  <2>3. old \in Clustering /\ o \in Observation /\ new = Join(old, o)
    BY <1>1, <2>1
  <2>4. /\ \A i \in DOMAIN old : \A q \in OfSeq(old[i]) : \E j \in 1 .. k : seq[j] = q
        /\ \A i, j \in DOMAIN old : \A q \in OfSeq(old[i]) : q \in OfSeq(old[j]) => i = j
    BY <2>2
  <2>5. \A j \in 1 .. k : j \in 1 .. k + 1 /\ j \in 1 .. n /\ j # k + 1
    BY <2>1
  <2>6. k + 1 \in 1 .. k + 1 /\ seq[k + 1] = o
    OBVIOUS
  <2>7. Good(k + 1) <=>
          /\ \A i \in DOMAIN new : \A q \in OfSeq(new[i]) : \E j \in 1 .. k + 1 : seq[j] = q
          /\ \A i, j \in DOMAIN new : \A q \in OfSeq(new[i]) : q \in OfSeq(new[j]) => i = j
    OBVIOUS
  <2>8. \A j \in 1 .. k : seq[j] # seq[k + 1]
    BY <2>1, <2>5
  <2> HIDE DEF Good, o, old, new
  <2>9. Joined(old, o, new)
    BY <2>3, JoinStep
  <2>10. PICK i \in DOMAIN new :
              /\ OfSeq(new[i]) = {o} \cup (IF i \in DOMAIN old THEN OfSeq(old[i]) ELSE {})
              /\ \A m \in DOMAIN new : m # i => m \in DOMAIN old /\ new[m] = old[m]
    BY <2>9 DEF Joined
  <2>11. \A m \in DOMAIN new : \A q \in OfSeq(new[m]) : (m \in DOMAIN old /\ q \in OfSeq(old[m])) \/ (m = i /\ q = o)
    BY <2>10
  <2>12. \A m \in DOMAIN old : o \notin OfSeq(old[m])
    BY <2>4, <2>6, <2>8
  <2>13. \A m \in DOMAIN new : \A q \in OfSeq(new[m]) : \E j \in 1 .. k + 1 : seq[j] = q
    BY <2>4, <2>5, <2>6, <2>11
  <2>14. \A m, j \in DOMAIN new : \A q \in OfSeq(new[m]) : q \in OfSeq(new[j]) => m = j
    BY <2>4, <2>11, <2>12
  <2> QED
    BY <2>7, <2>13, <2>14
<1> HIDE DEF P
<1>4. n \in P
  BY <1>2, <1>3, Induction
<1>5. Good(n) /\ n \in 0 .. n
  BY <1>4 DEF P
<1>6. found = acc[n] /\ found \in Clustering
  BY <1>1, <1>5 DEF ClusteringOf
<1>7. /\ \A i \in DOMAIN found : \A o \in OfSeq(found[i]) : \E j \in 1 .. n : seq[j] = o
      /\ \A i, j \in DOMAIN found : \A o \in OfSeq(found[i]) : o \in OfSeq(found[j]) => i = j
  BY <1>5, <1>6
<1>8. \A j \in 1 .. n : seq[j] \in OfSeq(seq)
  BY DEF OfSeq
<1> QED
  BY <1>6, <1>7, <1>8

\* More observations after those of a list: its clusters stay, with their anchors, and grow.
LEMMA ClusteringGrows ==
  ASSUME NEW n \in Nat, NEW seq \in [1 .. n -> Observation], NEW m \in Nat, NEW more \in [1 .. m -> Observation],
         n <= m, \A i \in 1 .. n : seq[i] = more[i]
  PROVE  \A i \in DOMAIN ClusteringOf(seq) :
           /\ i \in DOMAIN ClusteringOf(more)
           /\ Head(ClusteringOf(more)[i]) = Head(ClusteringOf(seq)[i])
           /\ OfSeq(ClusteringOf(seq)[i]) \subseteq OfSeq(ClusteringOf(more)[i])
<1>1. PICK acc \in [0 .. n -> Clustering] :
           /\ acc[0] = <<>>
           /\ \A k \in 1 .. n : acc[k] = Join(acc[k - 1], seq[k])
           /\ acc[n] = FoldLeft(Join, <<>>, seq)
  BY JoinSteps
<1>2. PICK ac2 \in [0 .. m -> Clustering] :
           /\ ac2[0] = <<>>
           /\ \A k \in 1 .. m : ac2[k] = Join(ac2[k - 1], more[k])
           /\ ac2[m] = FoldLeft(Join, <<>>, more)
  BY JoinSteps
<1>3. ac2[n] = acc[n]
  <2> DEFINE P == {k \in Nat : k <= n => ac2[k] = acc[k]}
  <2>1. 0 \in P
    BY <1>1, <1>2
  <2>2. ASSUME NEW k \in Nat, k \in P PROVE k + 1 \in P
    <3> SUFFICES ASSUME k + 1 <= n PROVE ac2[k + 1] = acc[k + 1]
      OBVIOUS
    <3>1. k + 1 \in 1 .. n /\ k + 1 \in 1 .. m /\ k + 1 - 1 = k /\ k <= n
      OBVIOUS
    <3>2. ac2[k] = acc[k]
      BY <2>2, <3>1
    <3>3. acc[k + 1] = Join(acc[k], seq[k + 1])
      BY <1>1, <3>1
    <3>4. ac2[k + 1] = Join(ac2[k], more[k + 1])
      BY <1>2, <3>1
    <3>5. seq[k + 1] = more[k + 1]
      BY <3>1
    <3> QED
      BY <3>2, <3>3, <3>4, <3>5
  <2> HIDE DEF P
  <2>3. n \in P
    BY <2>1, <2>2, Induction
  <2> QED
    BY <2>3 DEF P
<1> DEFINE Grown(k) == \A i \in DOMAIN acc[n] : /\ i \in DOMAIN ac2[k] /\ Head(ac2[k][i]) = Head(acc[n][i])
                                               /\ OfSeq(acc[n][i]) \subseteq OfSeq(ac2[k][i])
           Q == {k \in Nat : n <= k /\ k <= m => Grown(k)}
<1>4. 0 \in Q
  <2>1. n <= 0 => n = 0
    OBVIOUS
  <2>2. n = 0 => Grown(0)
    BY <1>3
  <2> HIDE DEF Grown
  <2> QED
    BY <2>1, <2>2
<1>5. ASSUME NEW k \in Nat, k \in Q PROVE k + 1 \in Q
  <2>0. k + 1 \in Nat /\ (n <= k + 1 /\ k + 1 <= m => Grown(k + 1)) => k + 1 \in Q
    <3> HIDE DEF Grown
    <3> QED
      OBVIOUS
  <2> SUFFICES ASSUME n <= k + 1, k + 1 <= m PROVE Grown(k + 1)
    <3> HIDE DEF Q
    <3> QED
      BY <2>0
  <2>1. CASE n = k + 1
    BY <1>3, <2>1
  <2>2. CASE n # k + 1
    <3>1. n <= k /\ k <= m /\ k + 1 \in 1 .. m /\ k + 1 - 1 = k /\ k \in 0 .. m
      BY <2>2
    <3>2. Grown(k)
      BY <1>5, <3>1
    <3> DEFINE old == ac2[k]
               new == ac2[k + 1]
    <3>3. old \in Clustering /\ new = Join(old, more[k + 1]) /\ more[k + 1] \in Observation
      BY <1>2, <3>1
    <3>4. \A i \in DOMAIN acc[n] : /\ i \in DOMAIN old /\ Head(old[i]) = Head(acc[n][i])
                                   /\ OfSeq(acc[n][i]) \subseteq OfSeq(old[i])
      BY <3>2
    <3>5. Grown(k + 1) <=> \A i \in DOMAIN acc[n] : /\ i \in DOMAIN new /\ Head(new[i]) = Head(acc[n][i])
                                                   /\ OfSeq(acc[n][i]) \subseteq OfSeq(new[i])
      OBVIOUS
    <3> HIDE DEF Grown, old, new
    <3>6. /\ DOMAIN old \subseteq DOMAIN new
          /\ \A i \in DOMAIN old : Head(new[i]) = Head(old[i]) /\ OfSeq(old[i]) \subseteq OfSeq(new[i])
      BY <3>3, JoinStep
    <3> QED
      BY <3>4, <3>5, <3>6
  <2> QED
    BY <2>1, <2>2
<1> HIDE DEF Q
<1>6. m \in Q
  BY <1>4, <1>5, Induction
<1>7. Grown(m)
  BY <1>6 DEF Q
<1>8. ClusteringOf(seq) = acc[n] /\ ClusteringOf(more) = ac2[m]
  BY <1>1, <1>2 DEF ClusteringOf
<1> QED
  BY <1>7, <1>8

\* The records of an index, no two of one id, in the order in which they are taken.
LEMMA RankedRecords ==
  ASSUME NEW S \in SUBSET Record, IsFiniteSet(S), Distinct(S), NEW ordered, ordered = Ranked(S, Before)
  PROVE  /\ Cardinality(S) \in Nat /\ ordered \in [1 .. Cardinality(S) -> S]
         /\ \A c \in S : \E i \in 1 .. Cardinality(S) : ordered[i] = c
         /\ \A i, j \in 1 .. Cardinality(S) : i < j => ordered[i] # ordered[j]
         /\ \A i \in 1 .. Cardinality(S) : Cardinality({d \in S : Before(d, ordered[i])}) = i - 1
         /\ \A c, d \in S : Before(c, d) => ~Before(d, c)
<1> DEFINE R == {x \in S \X S : Before(x[1], x[2])}
           n == Cardinality(S)
<1>0. n \in Nat
  BY FS_CardinalityType
<1>1. \A c, d \in S : <<c, d>> \in R <=> Before(c, d)
  OBVIOUS
<1>2. \A r \in S : r.at \in Nat /\ r.of.id \in Nat
  BY LearningIndexAssumption DEF Record
<1>3. \A c \in S : {d \in S : <<d, c>> \in R} = {d \in S : Before(d, c)}
  OBVIOUS
<1> HIDE DEF R
<1>4. StrictOrder(S, R)
  <2>0. \A c, d \in S : LET a == c.at
                            b == d.at
                            i == c.of.id
                            k == d.of.id
                        IN  /\ a \in Nat /\ b \in Nat /\ i \in Nat /\ k \in Nat
                            /\ Before(c, d) <=> a < b \/ (a = b /\ i < k)
    BY <1>2 DEF Before
  <2>1. ASSUME NEW c \in S PROVE ~Before(c, c)
    BY <2>0
  <2>2. ASSUME NEW c \in S, NEW d \in S, c # d PROVE Before(c, d) \/ Before(d, c)
    <3>1. c.of.id # d.of.id
      BY <2>2 DEF Distinct
    <3> QED
      BY <2>0, <3>1
  <2>3. ASSUME NEW c \in S, NEW d \in S, NEW e \in S, Before(c, d), Before(d, e) PROVE Before(c, e)
    BY <2>0, <2>3
  <2> QED
    BY <1>1, <2>1, <2>2, <2>3 DEF StrictOrder
<1>5. Chooses(S, R, ordered)
  <2>1. ordered = [i \in 1 .. n |-> CHOOSE c \in S : Cardinality({d \in S : Before(d, c)}) = i - 1]
    BY DEF Ranked
  <2> DEFINE v(i) == CHOOSE c \in S : Cardinality({d \in S : Before(d, c)}) = i - 1
  <2>2. ordered = [i \in 1 .. n |-> v(i)]
    BY <2>1
  <2>3. ASSUME NEW i \in 1 .. n, \E c \in S : Cardinality({d \in S : <<d, c>> \in R}) = i - 1
        PROVE  ordered[i] \in S /\ Cardinality({d \in S : <<d, ordered[i]>> \in R}) = i - 1
    <3>1. \E c \in S : Cardinality({d \in S : Before(d, c)}) = i - 1
      BY <1>3, <2>3
    <3>2. v(i) \in S /\ Cardinality({d \in S : Before(d, v(i))}) = i - 1
      BY <3>1
    <3>3. ordered[i] = v(i)
      <4> HIDE DEF v
      <4> QED
        BY <2>2
    <3> HIDE DEF v
    <3> QED
      BY <1>3, <3>2, <3>3
  <2> HIDE DEF v
  <2>4. ordered = [i \in 1 .. n |-> ordered[i]]
    BY <2>2
  <2> QED
    BY <2>3, <2>4 DEF Chooses
<1>6. /\ ordered \in [1 .. n -> S]
      /\ \A c \in S : \E i \in 1 .. n : ordered[i] = c
      /\ \A i, j \in 1 .. n : i < j => <<ordered[i], ordered[j]>> \in R
      /\ \A i \in 1 .. n : Cardinality({d \in S : <<d, ordered[i]>> \in R}) = i - 1
      /\ \A c \in S : Cardinality({d \in S : <<d, c>> \in R}) \in Nat
  BY <1>4, <1>5, Ranks
<1>7. \A i \in 1 .. n : Cardinality({d \in S : Before(d, ordered[i])}) = i - 1
  BY <1>3, <1>6
<1>8. \A i, j \in 1 .. n : i < j => ordered[i] # ordered[j]
  BY <1>4, <1>6 DEF StrictOrder
<1>9. \A c, d \in S : Before(c, d) => ~Before(d, c)
  BY <1>1, <1>4 DEF StrictOrder
<1> QED
  BY <1>0, <1>6, <1>7, <1>8, <1>9

\* Records that come after those of an index do not change their places.
LEMMA RankedPrefix ==
  ASSUME NEW T \in SUBSET Record, IsFiniteSet(T), Distinct(T), NEW S \in SUBSET T,
         \A r \in S, q \in T \ S : Before(r, q)
  PROVE  /\ Cardinality(S) <= Cardinality(T)
         /\ \A i \in 1 .. Cardinality(S) : Ranked(S, Before)[i] = Ranked(T, Before)[i]
<1> DEFINE n == Cardinality(S)
           m == Cardinality(T)
           s == Ranked(S, Before)
           t == Ranked(T, Before)
<1>1. IsFiniteSet(S) /\ n <= m /\ S \in SUBSET Record /\ Distinct(S)
  BY FS_Subset DEF Distinct
<1> HIDE DEF s, t
<1>2. /\ n \in Nat /\ s \in [1 .. n -> S]
      /\ \A c \in S : \E i \in 1 .. n : s[i] = c
      /\ \A i, j \in 1 .. n : i < j => s[i] # s[j]
      /\ \A i \in 1 .. n : Cardinality({d \in S : Before(d, s[i])}) = i - 1
      /\ \A c, d \in S : Before(c, d) => ~Before(d, c)
  BY <1>1, RankedRecords DEF s
<1>3. /\ m \in Nat /\ t \in [1 .. m -> T]
      /\ \A c \in T : \E i \in 1 .. m : t[i] = c
      /\ \A i, j \in 1 .. m : i < j => t[i] # t[j]
      /\ \A i \in 1 .. m : Cardinality({d \in T : Before(d, t[i])}) = i - 1
      /\ \A c, d \in T : Before(c, d) => ~Before(d, c)
  BY RankedRecords DEF t
<1> HIDE DEF n, m
<1>4. ASSUME NEW i \in 1 .. n PROVE s[i] = t[i]
  <2>1. s[i] \in S /\ s[i] \in T
    BY <1>2
  <2>2. PICK j \in 1 .. m : t[j] = s[i]
    BY <1>3, <2>1
  <2>3. {d \in T : Before(d, s[i])} = {d \in S : Before(d, s[i])}
    BY <1>3, <2>1
  <2>4. Cardinality({d \in S : Before(d, s[i])}) = i - 1
    BY <1>2
  <2>41. Cardinality({d \in T : Before(d, t[j])}) = j - 1
    BY <1>3
  <2>42. Cardinality({d \in T : Before(d, s[i])}) = j - 1
    BY <2>2, <2>41
  <2>43. j - 1 = i - 1
    BY <2>3, <2>4, <2>42
  <2>5. i = j
    BY <1>2, <1>3, <2>43
  <2> QED
    BY <2>2, <2>5
<1> QED
  BY <1>1, <1>4 DEF n, m, s, t

Observed(S) == {r.of : r \in S}
ObservedList(S) == [i \in DOMAIN Ranked(S, Before) |-> Ranked(S, Before)[i].of]

LEMMA ObservedListIs ==
  ASSUME NEW S \in SUBSET Record, IsFiniteSet(S), Distinct(S)
  PROVE  /\ Cardinality(S) \in Nat /\ ObservedList(S) \in [1 .. Cardinality(S) -> Observation]
         /\ \A i, j \in 1 .. Cardinality(S) : ObservedList(S)[i] = ObservedList(S)[j] => i = j
         /\ OfSeq(ObservedList(S)) \subseteq Observed(S)
         /\ \A i \in 1 .. Cardinality(S) : ObservedList(S)[i] = Ranked(S, Before)[i].of
<1> DEFINE n == Cardinality(S)
           s == Ranked(S, Before)
           l == ObservedList(S)
<1> HIDE DEF s
<1>1. /\ n \in Nat /\ s \in [1 .. n -> S]
      /\ \A c \in S : \E i \in 1 .. n : s[i] = c
      /\ \A i, j \in 1 .. n : i < j => s[i] # s[j]
      /\ \A i \in 1 .. n : Cardinality({d \in S : Before(d, s[i])}) = i - 1
      /\ \A c, d \in S : Before(c, d) => ~Before(d, c)
  BY RankedRecords DEF s
<1>2. l = [i \in 1 .. n |-> s[i].of]
  <2>1. DOMAIN s = 1 .. n
    BY <1>1
  <2>2. l = [i \in DOMAIN s |-> s[i].of]
    BY Zenon DEF ObservedList, s
  <2> QED
    BY <2>1, <2>2
<1> HIDE DEF n, l
<1>3. \A i \in 1 .. n : s[i] \in S /\ l[i] = s[i].of /\ l[i] \in Observation
  BY <1>1, <1>2 DEF Record
<1>4. l \in [1 .. n -> Observation]
  BY <1>2, <1>3
<1>5. ASSUME NEW i \in 1 .. n, NEW j \in 1 .. n, l[i] = l[j] PROVE i = j
  <2>1. s[i] = s[j]
    BY <1>3, <1>5 DEF Distinct
  <2>2. ~(i < j) /\ ~(j < i)
    BY <1>1, <2>1
  <2> QED
    BY <1>1, <2>2
<1>6. OfSeq(l) \subseteq Observed(S)
  BY <1>3, <1>4 DEF OfSeq, Observed
<1> QED
  BY <1>1, <1>3, <1>4, <1>5, <1>6 DEF n, l, s

LEMMA ClustersAre ==
  ASSUME NEW S \in SUBSET Record, IsFiniteSet(S), Distinct(S)
  PROVE  /\ \A C \in Clusters(S) : C \in Seq(Observation) /\ C # <<>> /\ Members(C) \subseteq Observed(S)
         /\ \A C, D \in Clusters(S) : Members(C) \cap Members(D) # {} => C = D
<1> DEFINE found == ClusteringOf(ObservedList(S))
<1>1. Clusters(S) = {found[i] : i \in DOMAIN found}
  BY Zenon DEF Clusters, ClusteringOf, ObservedList
<1>2. /\ Cardinality(S) \in Nat /\ ObservedList(S) \in [1 .. Cardinality(S) -> Observation]
      /\ \A i, j \in 1 .. Cardinality(S) : ObservedList(S)[i] = ObservedList(S)[j] => i = j
      /\ OfSeq(ObservedList(S)) \subseteq Observed(S)
  BY ObservedListIs
<1> HIDE DEF found
<1>3. /\ found \in Clustering
      /\ \A i \in DOMAIN found : OfSeq(found[i]) \subseteq OfSeq(ObservedList(S))
      /\ \A i, j \in DOMAIN found : OfSeq(found[i]) \cap OfSeq(found[j]) # {} => i = j
  BY <1>2, ClusteringIs DEF found
<1>4. \A i \in DOMAIN found : found[i] \in Seq(Observation) /\ found[i] # <<>>
  BY <1>3 DEF Clustering
<1> QED
  BY <1>1, <1>2, <1>3, <1>4, MembersAre

\* As an index grows its clusters stay, with their anchors, and grow.
LEMMA ClustersStay ==
  ASSUME NEW T \in SUBSET Record, IsFiniteSet(T), Distinct(T), NEW S \in SUBSET T,
         \A r \in S, q \in T \ S : Before(r, q)
  PROVE  \A C \in Clusters(S) : \E D \in Clusters(T) : Head(D) = Head(C) /\ Members(C) \subseteq Members(D)
<1> DEFINE old == ClusteringOf(ObservedList(S))
           new == ClusteringOf(ObservedList(T))
           n   == Cardinality(S)
           m   == Cardinality(T)
           s   == ObservedList(S)
           t   == ObservedList(T)
<1>1. Clusters(S) = {old[i] : i \in DOMAIN old} /\ Clusters(T) = {new[i] : i \in DOMAIN new}
  BY Zenon DEF Clusters, ClusteringOf, ObservedList
<1>2. IsFiniteSet(S) /\ S \in SUBSET Record /\ Distinct(S)
  BY FS_Subset DEF Distinct
<1>3. /\ n \in Nat /\ s \in [1 .. n -> Observation]
      /\ \A i \in 1 .. n : s[i] = Ranked(S, Before)[i].of
  BY <1>2, ObservedListIs
<1>4. /\ m \in Nat /\ t \in [1 .. m -> Observation]
      /\ \A i \in 1 .. m : t[i] = Ranked(T, Before)[i].of
  BY ObservedListIs
<1>5. n <= m /\ \A i \in 1 .. n : Ranked(S, Before)[i] = Ranked(T, Before)[i]
  BY RankedPrefix
<1> HIDE DEF n, m, s, t
<1>6. \A i \in 1 .. n : i \in 1 .. m
  BY <1>3, <1>4, <1>5
<1>7. \A i \in 1 .. n : s[i] = t[i]
  BY <1>3, <1>4, <1>5, <1>6
<1>8. \A i \in DOMAIN ClusteringOf(s) :
           /\ i \in DOMAIN ClusteringOf(t)
           /\ Head(ClusteringOf(t)[i]) = Head(ClusteringOf(s)[i])
           /\ OfSeq(ClusteringOf(s)[i]) \subseteq OfSeq(ClusteringOf(t)[i])
  BY <1>3, <1>4, <1>5, <1>7, ClusteringGrows
<1> QED
  BY <1>1, <1>8, MembersAre DEF s, t

-----------------------------------------------------------------------------
(* The learning indexes: candidates *)

\* What may be proposed of an index, the clusters that are not worth it included.
Unmarked(L)      == {r \in L : ~r.of.marked}
Fingerprinted(W) == {r \in W : r.of.prompts # {} /\ r.of.tools # {}}
Anchorages(detector, S) == {Anchored(detector, C) : C \in Clusters(S)}
Proposals(L, W) ==
  Anchorages("promotion", Unmarked(L)) \cup Anchorages("new", Fingerprinted(W)) \cup Updates(W)

Indexable(S) == S \in SUBSET Record /\ IsFiniteSet(S) /\ Distinct(S)
GrewTo(S, T) == S \subseteq T /\ \A r \in S, q \in T \ S : Before(r, q)
\* A candidate holds part of the evidence of one that may be proposed.
Backed(c, all) == \E d \in all : d.id = c.id /\ c.evidence \subseteq d.evidence

LEMMA AnchoredIs ==
  \A m, C : /\ Anchored(m, C).id = [detector |-> m, anchor |-> Head(C).id, skill |-> "", role |-> ""]
            /\ Anchored(m, C).id.detector = m /\ Anchored(m, C).id.anchor = Head(C).id
            /\ Anchored(m, C).evidence = Ids(Members(C))
BY DEF Anchored

LEMMA PartIndexable ==
  ASSUME NEW T, Indexable(T), NEW S \in SUBSET T
  PROVE  Indexable(S)
BY FS_Subset DEF Indexable, Distinct

\* An anchor, or one member, tells a cluster from the others of its index.
LEMMA OneAnchorage ==
  ASSUME NEW S, Indexable(S), NEW detector, NEW c \in Anchorages(detector, S), NEW d \in Anchorages(detector, S),
         c.id = d.id \/ c.evidence \cap d.evidence # {}
  PROVE  c = d
<1>1. PICK C \in Clusters(S) : c = Anchored(detector, C)
  BY DEF Anchorages
<1>2. PICK D \in Clusters(S) : d = Anchored(detector, D)
  BY DEF Anchorages
<1>3. /\ C \in Seq(Observation) /\ C # <<>> /\ Members(C) \subseteq Observed(S)
      /\ D \in Seq(Observation) /\ D # <<>> /\ Members(D) \subseteq Observed(S)
      /\ Members(C) \cap Members(D) # {} => C = D
  BY ClustersAre DEF Indexable
<1>4. Head(C) \in Members(C) /\ Head(D) \in Members(D)
  <2>1. 1 \in DOMAIN C /\ Head(C) = C[1] /\ 1 \in DOMAIN D /\ Head(D) = D[1]
    BY <1>3
  <2> QED
    BY <2>1 DEF Members
<1>5. \A o, q \in Observed(S) : o.id = q.id => o = q
  BY DEF Observed, Indexable, Distinct
<1>6. CASE c.id = d.id
  <2>1. Head(C).id = Head(D).id
    <3>1. c.id.anchor = Head(C).id
      BY <1>1, AnchoredIs
    <3>2. d.id.anchor = Head(D).id
      BY <1>2, AnchoredIs
    <3> QED
      BY <1>6, <3>1, <3>2
  <2>2. Head(C) = Head(D)
    BY <1>3, <1>4, <1>5, <2>1
  <2> QED
    BY <1>1, <1>2, <1>3, <1>4, <2>2
<1>7. CASE c.evidence \cap d.evidence # {}
  <2>1. PICK i : i \in Ids(Members(C)) /\ i \in Ids(Members(D))
    <3>1. c.evidence = Ids(Members(C))
      BY <1>1, AnchoredIs
    <3>2. d.evidence = Ids(Members(D))
      BY <1>2, AnchoredIs
    <3> QED
      BY <1>7, <3>1, <3>2
  <2>2. PICK o \in Members(C) : o.id = i
    BY <2>1 DEF Ids
  <2>3. PICK q \in Members(D) : q.id = i
    BY <2>1 DEF Ids
  <2>4. o = q
    BY <1>3, <1>5, <2>2, <2>3
  <2> QED
    BY <1>1, <1>2, <1>3, <2>4
<1> QED
  BY <1>6, <1>7

LEMMA AnchoragesGrow ==
  ASSUME NEW S, NEW T, Indexable(T), GrewTo(S, T), NEW detector, NEW c \in Anchorages(detector, S)
  PROVE  Backed(c, Anchorages(detector, T))
<1>1. PICK C \in Clusters(S) : c = Anchored(detector, C)
  BY DEF Anchorages
<1>2. PICK D \in Clusters(T) : Head(D) = Head(C) /\ Members(C) \subseteq Members(D)
  BY ClustersStay DEF Indexable, GrewTo
<1> DEFINE d == Anchored(detector, D)
<1>3. d \in Anchorages(detector, T)
  BY DEF Anchorages
<1>4. d.id = c.id
  <2>1. c.id = [detector |-> detector, anchor |-> Head(C).id, skill |-> "", role |-> ""]
    BY <1>1, AnchoredIs
  <2>2. d.id = [detector |-> detector, anchor |-> Head(D).id, skill |-> "", role |-> ""]
    BY AnchoredIs
  <2> QED
    BY <1>2, <2>1, <2>2
<1>5. c.evidence \subseteq d.evidence
  <2>1. Ids(Members(C)) \subseteq Ids(Members(D))
    BY <1>2 DEF Ids
  <2>2. c.evidence = Ids(Members(C))
    BY <1>1, AnchoredIs
  <2>3. d.evidence = Ids(Members(D))
    BY AnchoredIs
  <2> QED
    BY <2>1, <2>2, <2>3
<1> QED
  BY <1>3, <1>4, <1>5 DEF Backed

\* The sessions of an index in which a skill was corrected often enough, with the skill.
Corrected(W) == {x \in (UNION {DOMAIN r.of.uses : r \in W}) \X W :
                   x[1] \in DOMAIN x[2].of.uses /\ x[2].of.uses[x[1]] >= MinCorrections}
Updated(x)   == [detector |-> "update", anchor |-> 0, skill |-> x[1], role |-> x[2].of.role]
Sessions(W, id) == {y[2].of.id : y \in {z \in Corrected(W) : Updated(z) = id}}

LEMMA UpdatesAre ==
  ASSUME NEW W
  PROVE  /\ Updates(W) = {[id |-> Updated(x), evidence |-> Sessions(W, Updated(x))] : x \in Corrected(W)}
         /\ \A c \in Updates(W) : c.id.detector = "update" /\ c = [id |-> c.id, evidence |-> Sessions(W, c.id)]
<1>1. Updates(W) = {[id |-> Updated(x), evidence |-> Sessions(W, Updated(x))] : x \in Corrected(W)}
  BY Zenon DEF Updates, Updated, Corrected, Sessions
<1>2. \A x : Updated(x).detector = "update"
  BY DEF Updated
<1> HIDE DEF Updated, Sessions, Corrected, Updates
<1>3. ASSUME NEW c \in Updates(W) PROVE c.id.detector = "update" /\ c = [id |-> c.id, evidence |-> Sessions(W, c.id)]
  <2>1. PICK x \in Corrected(W) : c = [id |-> Updated(x), evidence |-> Sessions(W, Updated(x))]
    BY <1>1
  <2>2. c.id = Updated(x)
    BY <2>1
  <2> QED
    BY <1>2, <2>1, <2>2
<1> QED
  BY <1>1, <1>3

LEMMA UpdatesGrow ==
  ASSUME NEW T, NEW S \in SUBSET T, NEW c \in Updates(S)
  PROVE  Backed(c, Updates(T))
<1>1. Corrected(S) \subseteq Corrected(T)
  BY DEF Corrected
<1>2. PICK x \in Corrected(S) : c = [id |-> Updated(x), evidence |-> Sessions(S, Updated(x))]
  BY UpdatesAre
<1> DEFINE d == [id |-> Updated(x), evidence |-> Sessions(T, Updated(x))]
<1>3. d \in Updates(T)
  BY <1>1, UpdatesAre
<1>4. Sessions(S, Updated(x)) \subseteq Sessions(T, Updated(x))
  BY <1>1 DEF Sessions
<1> QED
  BY <1>2, <1>3, <1>4 DEF Backed

\* Of one detector, only updates may share evidence.
LEMMA OneProposal ==
  ASSUME NEW L, NEW W, Indexable(L), Indexable(W), NEW c \in Proposals(L, W), NEW d \in Proposals(L, W)
  PROVE  /\ c.id = d.id => c = d
         /\ /\ c.id.detector = d.id.detector /\ c.id.detector # "update" /\ c.evidence \cap d.evidence # {}
            => c = d
<1>1. Indexable(Unmarked(L)) /\ Indexable(Fingerprinted(W))
  <2>1. Unmarked(L) \in SUBSET L /\ Fingerprinted(W) \in SUBSET W
    BY DEF Unmarked, Fingerprinted
  <2> QED
    BY <2>1, PartIndexable
<1> DEFINE A == Anchorages("promotion", Unmarked(L))
           B == Anchorages("new", Fingerprinted(W))
           U == Updates(W)
<1>2. \A e \in A : e.id.detector = "promotion"
  BY AnchoredIs DEF Anchorages
<1>3. \A e \in B : e.id.detector = "new"
  BY AnchoredIs DEF Anchorages
<1>4. \A e \in U : e.id.detector = "update" /\ e = [id |-> e.id, evidence |-> Sessions(W, e.id)]
  BY UpdatesAre
<1>5. \A e, f \in A : e.id = f.id \/ e.evidence \cap f.evidence # {} => e = f
  BY <1>1, OneAnchorage
<1>6. \A e, f \in B : e.id = f.id \/ e.evidence \cap f.evidence # {} => e = f
  BY <1>1, OneAnchorage
<1>7. c \in A \cup B \cup U /\ d \in A \cup B \cup U
  BY DEF Proposals
<1> HIDE DEF A, B, U
<1>8. c.id.detector = d.id.detector => (c \in A /\ d \in A) \/ (c \in B /\ d \in B) \/ (c \in U /\ d \in U)
  BY <1>2, <1>3, <1>4, <1>7
<1>9. c \in U /\ d \in U /\ c.id = d.id => c = d
  BY <1>4
<1>10. c \in U => c.id.detector = "update"
  BY <1>4
<1> QED
  BY <1>5, <1>6, <1>8, <1>9, <1>10

LEMMA ProposalsGrow ==
  ASSUME NEW L, NEW W, NEW L2, NEW W2, Indexable(L2), Indexable(W2), GrewTo(L, L2), GrewTo(W, W2), NEW c,
         Backed(c, Proposals(L, W))
  PROVE  Backed(c, Proposals(L2, W2))
<1>1. PICK d \in Proposals(L, W) : d.id = c.id /\ c.evidence \subseteq d.evidence
  BY DEF Backed
<1>2. Indexable(Unmarked(L2)) /\ Indexable(Fingerprinted(W2))
  <2>1. Unmarked(L2) \in SUBSET L2 /\ Fingerprinted(W2) \in SUBSET W2
    BY DEF Unmarked, Fingerprinted
  <2> QED
    BY <2>1, PartIndexable
<1>3. GrewTo(Unmarked(L), Unmarked(L2)) /\ GrewTo(Fingerprinted(W), Fingerprinted(W2))
  BY DEF GrewTo, Unmarked, Fingerprinted
<1>4. CASE d \in Anchorages("promotion", Unmarked(L))
  <2>1. Backed(d, Anchorages("promotion", Unmarked(L2)))
    BY <1>2, <1>3, <1>4, AnchoragesGrow
  <2> QED
    BY <1>1, <2>1 DEF Backed, Proposals
<1>5. CASE d \in Anchorages("new", Fingerprinted(W))
  <2>1. Backed(d, Anchorages("new", Fingerprinted(W2)))
    BY <1>2, <1>3, <1>5, AnchoragesGrow
  <2> QED
    BY <1>1, <2>1 DEF Backed, Proposals
<1>6. CASE d \in Updates(W)
  <2>1. Backed(d, Updates(W2))
    BY <1>6, UpdatesGrow DEF GrewTo
  <2> QED
    BY <1>1, <2>1 DEF Backed, Proposals
<1> QED
  BY <1>1, <1>4, <1>5, <1>6 DEF Proposals

LEMMA CandidatesAreProposals ==
  ASSUME NEW x \in Index, NEW L, NEW W
  PROVE  Candidates(x, IF x = "lessons" THEN L ELSE W) \subseteq Proposals(L, W)
<1>1. Promotions(L) \subseteq Anchorages("promotion", Unmarked(L))
  BY DEF Promotions, Anchorages, Unmarked
<1>2. NewSkills(W) \subseteq Anchorages("new", Fingerprinted(W))
  BY DEF NewSkills, Anchorages, Fingerprinted
<1> QED
  BY <1>1, <1>2 DEF Candidates, Proposals

-----------------------------------------------------------------------------
(* The learning indexes: evidence *)

\* The pass that a record may not be of: until a detector proposes, the records its pass
\* has added are in no cluster that was proposed.
BoundOf(at, index, p, x) == IF x \in AheadOf(at, index) THEN p ELSE p + 1
Base(lines, bound) == {r \in RecordsOf(lines) : r.at < bound}
Bound(x)  == BoundOf(worker.at, worker.index, pass, x)
Proposed  == Proposals(Base(file["lessons"], Bound("lessons")), Base(file["workflows"], Bound("workflows")))

Dated(lines, p) == /\ IsFiniteSet(RecordsOf(lines)) /\ Distinct(RecordsOf(lines))
                   /\ \A r \in RecordsOf(lines) : r.at <= p
New(fresh, records) == /\ \A i, k \in DOMAIN fresh : fresh[i].id = fresh[k].id => i = k
                       /\ Ids(OfSeq(fresh)) \cap Recorded(records) = {}

\* While no line was cut: every candidate holds evidence of a cluster of its index or of
\* a skill, and what is still to be written holds all of it.
Grounded ==
  /\ \A x \in Index : Dated(file[x], pass)
  /\ At("append") => New(worker.fresh, worker.records)
  /\ \A c \in pending \cup decided : Backed(c, Proposed)
  /\ worker.todo \subseteq Proposed

GroundedInv == cut \/ Grounded

LEMMA BaseIndexable ==
  ASSUME NEW x \in Index, NEW lines \in Seq(Lines(x)), NEW p, Dated(lines, p), NEW bound
  PROVE  Indexable(Base(lines, bound))
<1>1. RecordsOf(lines) \in SUBSET Record
  <2>1. Kind(x) \subseteq Observation
    BY KindType
  <2>2. RecordsOf(lines) \in SUBSET [of : Kind(x), at : Nat]
    BY RecordsOfType
  <2> QED
    BY <2>1, <2>2 DEF Record
<1>2. Indexable(RecordsOf(lines))
  BY <1>1 DEF Indexable, Dated
<1>3. Base(lines, bound) \in SUBSET RecordsOf(lines)
  BY DEF Base
<1> QED
  BY <1>2, <1>3, PartIndexable

LEMMA ProposedOne ==
  ASSUME FileType, Grounded, NEW c \in Proposed, NEW d \in Proposed
  PROVE  /\ c.id = d.id => c = d
         /\ /\ c.id.detector = d.id.detector /\ c.id.detector # "update" /\ c.evidence \cap d.evidence # {}
            => c = d
<1>1. "lessons" \in Index /\ "workflows" \in Index
  BY DEF Index
<1>2. /\ Indexable(Base(file["lessons"], Bound("lessons")))
      /\ Indexable(Base(file["workflows"], Bound("workflows")))
  BY <1>1, BaseIndexable DEF FileType, Grounded
<1> QED
  BY <1>2, OneProposal DEF Proposed

\* Two candidates of a detector that share evidence are one.
LEMMA GroundedIsOne ==
  ASSUME FileType, GroundedInv
  PROVE  OneCandidate
<1> SUFFICES ASSUME Grounded, NEW c \in pending \cup decided, NEW d \in pending \cup decided,
                    c.id.detector = d.id.detector, c.id.detector # "update", c.evidence \cap d.evidence # {}
             PROVE  c.id = d.id
  BY DEF OneCandidate, GroundedInv
<1>1. PICK a \in Proposed : a.id = c.id /\ c.evidence \subseteq a.evidence
  BY DEF Grounded, Backed
<1>2. PICK b \in Proposed : b.id = d.id /\ d.evidence \subseteq b.evidence
  BY DEF Grounded, Backed
<1>3. a.evidence \cap b.evidence # {}
  BY <1>1, <1>2
<1>4. a.id.detector = b.id.detector /\ a.id.detector # "update"
  BY <1>1, <1>2
<1>5. a = b
  BY <1>3, <1>4, ProposedOne
<1> QED
  BY <1>1, <1>2, <1>5

\* A candidate written has all the evidence of the one it replaces.
LEMMA WrittenHasMore ==
  ASSUME FileType, Grounded, NEW c \in worker.todo, NEW p \in pending, p.id = c.id
  PROVE  p.evidence \subseteq c.evidence
<1>1. PICK a \in Proposed : a.id = p.id /\ p.evidence \subseteq a.evidence
  BY DEF Grounded, Backed
<1>2. c \in Proposed
  BY DEF Grounded
<1>3. a = c
  BY <1>1, <1>2, ProposedOne
<1> QED
  BY <1>1, <1>3

\* The records of the passes before a bound stay, and those of later ones come after them.
LEMMA BaseGrows ==
  ASSUME NEW x \in Index, NEW lines \in Seq(Lines(x)), NEW old \in Nat, NEW new \in Nat, old <= new
  PROVE  GrewTo(Base(lines, old), Base(lines, new))
<1>1. \A r \in RecordsOf(lines) : r.at \in Nat
  BY RecordsOfType
<1>2. Base(lines, old) \subseteq Base(lines, new)
  BY <1>1 DEF Base
<1>3. ASSUME NEW r \in Base(lines, old), NEW q \in Base(lines, new) \ Base(lines, old) PROVE Before(r, q)
  <2>1. r.at \in Nat /\ q.at \in Nat /\ r.at < old /\ ~(q.at < old)
    BY <1>1, <1>3 DEF Base
  <2>2. r.at < q.at
    BY <2>1
  <2> QED
    BY <2>2 DEF Before
<1> QED
  BY <1>2, <1>3 DEF GrewTo

LEMMA ProposedIs ==
  /\ Proposed = Proposals(Base(file["lessons"], BoundOf(worker.at, worker.index, pass, "lessons")),
                          Base(file["workflows"], BoundOf(worker.at, worker.index, pass, "workflows")))
  /\ Proposed' = Proposals(Base(file'["lessons"], BoundOf(worker'.at, worker'.index, pass', "lessons")),
                           Base(file'["workflows"], BoundOf(worker'.at, worker'.index, pass', "workflows")))
BY Zenon DEF Proposed, Bound

\* A step that leaves the files alone, and from which no kind is newly ahead.
LEMMA QuietStep ==
  ASSUME FileType, Grounded, UNCHANGED <<file, pass>>,
         AheadOf(worker'.at, worker'.index) \subseteq AheadOf(worker.at, worker.index)
  PROVE  /\ \A x \in Index : Dated(file'[x], pass')
         /\ \A c : Backed(c, Proposed) => Backed(c, Proposed')
         /\ AheadOf(worker'.at, worker'.index) = AheadOf(worker.at, worker.index) => Proposed' = Proposed
<1> DEFINE old(x) == BoundOf(worker.at, worker.index, pass, x)
           new(x) == BoundOf(worker'.at, worker'.index, pass, x)
<1>1. pass \in Nat
  BY DEF FileType
<1>2. \A x : old(x) \in Nat /\ new(x) \in Nat /\ old(x) <= new(x)
  BY <1>1 DEF BoundOf
<1>3. AheadOf(worker'.at, worker'.index) = AheadOf(worker.at, worker.index) => \A x : old(x) = new(x)
  BY DEF BoundOf
<1>4. /\ Proposed = Proposals(Base(file["lessons"], old("lessons")), Base(file["workflows"], old("workflows")))
      /\ Proposed' = Proposals(Base(file["lessons"], new("lessons")), Base(file["workflows"], new("workflows")))
  BY ProposedIs
<1> HIDE DEF old, new
<1>5. \A x \in Index : /\ Indexable(Base(file[x], new(x)))
                       /\ GrewTo(Base(file[x], old(x)), Base(file[x], new(x)))
  BY <1>2, BaseIndexable, BaseGrows DEF FileType, Grounded
<1>6. "lessons" \in Index /\ "workflows" \in Index
  BY DEF Index
<1>7. ASSUME NEW c, Backed(c, Proposed) PROVE Backed(c, Proposed')
  BY <1>4, <1>5, <1>6, <1>7, ProposalsGrow
<1>8. \A x \in Index : Dated(file'[x], pass')
  BY DEF Grounded
<1> QED
  BY <1>3, <1>4, <1>7, <1>8

\* A record added by the pass is in no cluster that may be proposed yet.
LEMMA GroundedAppend ==
  ASSUME LearningType, Sound, Grounded, AppendRecord
  PROVE  Grounded'
<1> DEFINE o    == Head(worker.fresh)
           rest == Tail(worker.fresh)
           r    == [of |-> o, at |-> pass]
           x    == worker.index
           R    == RecordsOf(file[x])
<1>1. /\ worker.at = "append" /\ worker.fresh # <<>>
      /\ AddLine(x, Line(o, pass), TRUE)
      /\ worker' = [worker EXCEPT !.fresh = rest, !.records = worker.records \cup {r}]
      /\ pass' = pass /\ pending' = pending /\ decided' = decided
  BY DEF AppendRecord, At, history, files, counters
<1>2. x \in Index /\ pass \in Nat /\ worker.fresh \in Seq(Observation)
  BY DEF LearningType, WorkerType, FileType
<1>3. o \in Kind(x) /\ OfSeq(worker.fresh) = {o} \cup OfSeq(rest) /\ rest \in Seq(Observation)
  BY <1>1, <1>2, HeadTail DEF LearningType, WorkerType
<1>4. /\ RecordsOf(file'[x]) = R \cup {r}
      /\ \A y \in Index : y # x => file'[y] = file[y]
  <2> HIDE DEF o, rest, x
  <2>1. /\ \A y \in Index : ended'[y] /\ Whole(file'[y])
        /\ RecordsOf(file'[x]) = RecordsOf(file[x]) \cup {[of |-> o, at |-> pass]}
        /\ \A y \in Index : y # x => file'[y] = file[y]
        /\ OnDisk' = OnDisk \cup {o.id}
    BY <1>1, <1>2, <1>3, DiskGrows DEF LearningType
  <2> QED
    BY <2>1
<1>5. worker.records = R /\ New(worker.fresh, worker.records)
  BY <1>1 DEF Sound, Grounded, At
<1>6. r.of = o /\ r.at = pass
  OBVIOUS
<1>7. \A i, k \in DOMAIN rest : /\ rest[i] = worker.fresh[i + 1] /\ i + 1 \in DOMAIN worker.fresh /\ i \in Nat
                                /\ k + 1 \in DOMAIN worker.fresh /\ rest[k] = worker.fresh[k + 1] /\ k \in Nat
  BY <1>1, <1>2
<1>8. 1 \in DOMAIN worker.fresh /\ o = worker.fresh[1]
  BY <1>1, <1>2
<1> HIDE DEF o, rest, r
<1>9. /\ worker'.at = "append" /\ worker'.index = x /\ worker'.records = R \cup {r} /\ worker'.fresh = rest
      /\ worker'.todo = worker.todo
  BY <1>1, <1>5 DEF LearningType, WorkerType
<1> HIDE DEF x
<1>10. o.id \notin Recorded(R)
  BY <1>3, <1>5 DEF New, Ids
<1>11. Dated(file[x], pass)
  BY <1>2 DEF Grounded
<1>12. Dated(file'[x], pass)
  <2>1. IsFiniteSet(R \cup {r})
    BY <1>11, FS_AddElement DEF Dated
  <2>2. Distinct(R \cup {r})
    BY <1>6, <1>10, <1>11 DEF Dated, Distinct, Recorded
  <2>3. \A q \in R \cup {r} : q.at <= pass
    BY <1>2, <1>6, <1>11 DEF Dated
  <2> QED
    BY <1>4, <2>1, <2>2, <2>3 DEF Dated
<1>13. \A y \in Index : Dated(file'[y], pass')
  BY <1>1, <1>4, <1>12 DEF Grounded
<1>14. New(worker'.fresh, worker'.records)
  <2>1. \A i, k \in DOMAIN rest : rest[i].id = rest[k].id => i = k
    <3>1. ASSUME NEW i \in DOMAIN rest, NEW k \in DOMAIN rest, rest[i].id = rest[k].id PROVE i = k
      <4>1. i + 1 = k + 1
        BY <1>5, <1>7, <3>1 DEF New
      <4> QED
        BY <1>7, <4>1
    <3> QED
      BY <3>1
  <2>2. o.id \notin Ids(OfSeq(rest))
    <3> SUFFICES ASSUME NEW i \in DOMAIN rest, rest[i].id = o.id PROVE FALSE
      BY DEF Ids, OfSeq
    <3>1. i + 1 = 1
      BY <1>5, <1>7, <1>8 DEF New
    <3>2. i \in DOMAIN rest /\ i >= 1
      BY <1>3
    <3> QED
      BY <1>7, <3>1, <3>2
  <2>3. Ids(OfSeq(rest)) \subseteq Ids(OfSeq(worker.fresh))
    BY <1>3 DEF Ids
  <2>4. Recorded(R \cup {r}) \subseteq Recorded(R) \cup {o.id}
    BY <1>6 DEF Recorded
  <2> QED
    BY <1>5, <1>9, <2>1, <2>2, <2>3, <2>4 DEF New
<1>15. \A y \in Index : Base(file'[y], BoundOf("append", x, pass, y)) = Base(file[y], BoundOf("append", x, pass, y))
  <2>1. ASSUME NEW y \in Index, y = x
        PROVE  Base(file'[y], BoundOf("append", x, pass, y)) = Base(file[y], BoundOf("append", x, pass, y))
    <3>1. BoundOf("append", x, pass, y) = pass
      BY <2>1 DEF BoundOf, AheadOf
    <3>2. ~(r.at < pass)
      BY <1>2, <1>6
    <3>3. Base(file'[y], pass) = Base(file[y], pass)
      BY <1>4, <2>1, <3>2 DEF Base
    <3> QED
      BY <3>1, <3>3
  <2> QED
    BY <1>4, <2>1
<1>16. Proposed' = Proposed
  <2>1. "lessons" \in Index /\ "workflows" \in Index
    BY DEF Index
  <2>2. worker.index = x
    BY DEF x
  <2> QED
    BY <1>1, <1>9, <1>15, <2>1, <2>2, ProposedIs
<1> QED
  BY <1>1, <1>9, <1>13, <1>14, <1>16 DEF Grounded

\* The first step of a pass: what earlier passes have added is now before it.
LEMMA GroundedBegin ==
  ASSUME LearningType, Grounded, Begin
  PROVE  Grounded'
<1>1. /\ worker' = [worker EXCEPT !.at = "jobs"] /\ worker.at = "off" /\ pass' = pass + 1
      /\ UNCHANGED <<file, pending, decided>>
  BY DEF Begin, GoOn, At, indexes, files
<1>2. worker'.at = "jobs" /\ worker'.index = "lessons" /\ worker'.todo = worker.todo /\ pass \in Nat
  BY <1>1 DEF LearningType, WorkerType, FileType
<1>3. ASSUME NEW x \in Index
      PROVE  BoundOf(worker'.at, worker'.index, pass', x) = BoundOf(worker.at, worker.index, pass, x)
  <2>1. AheadOf(worker.at, worker.index) = {} /\ AheadOf(worker'.at, worker'.index) = Index
    BY <1>1, <1>2 DEF AheadOf, Index
  <2> QED
    BY <1>1, <2>1 DEF BoundOf
<1>4. Proposed' = Proposed
  <2>1. "lessons" \in Index /\ "workflows" \in Index
    BY DEF Index
  <2> QED
    BY <1>1, <1>3, <2>1, ProposedIs
<1>5. ASSUME NEW x \in Index PROVE Dated(file'[x], pass')
  <2>1. Dated(file[x], pass)
    BY DEF Grounded
  <2>2. \A r \in RecordsOf(file[x]) : r.at \in Nat
    BY RecordsOfType DEF LearningType, FileType
  <2>3. \A r \in RecordsOf(file[x]) : r.at <= pass + 1
    BY <1>2, <2>1, <2>2 DEF Dated
  <2> QED
    BY <1>1, <2>1, <2>3 DEF Dated
<1> QED
  BY <1>1, <1>2, <1>4, <1>5 DEF Grounded, At

\* All clusters of an index are proposed, those of this pass included.
LEMMA GroundedPropose ==
  ASSUME LearningType, Sound, Grounded, Propose
  PROVE  Grounded'
<1> DEFINE x == worker.index
           R == RecordsOf(file[x])
           L == Base(file["lessons"], BoundOf("write", x, pass, "lessons"))
           W == Base(file["workflows"], BoundOf("write", x, pass, "workflows"))
<1>1. /\ worker' = [worker EXCEPT !.at = "write", !.todo = Candidates(x, worker.records)]
      /\ worker.at = "append" /\ UNCHANGED <<file, pass, pending, decided>>
  BY DEF Propose, At, indexes, files, counters
<1>2. worker'.at = "write" /\ worker'.index = x /\ worker'.todo = Candidates(x, worker.records) /\ x \in Index
  BY <1>1 DEF LearningType, WorkerType
<1>3. worker.records = R
  BY <1>1 DEF Sound, At
<1>4. AheadOf(worker'.at, worker'.index) \subseteq AheadOf(worker.at, worker.index)
  BY <1>1, <1>2 DEF AheadOf
<1>5. /\ \A y \in Index : Dated(file'[y], pass')
      /\ \A c : Backed(c, Proposed) => Backed(c, Proposed')
  BY <1>1, <1>4, QuietStep DEF LearningType
<1>6. Base(file[x], BoundOf("write", x, pass, x)) = R
  <2>1. BoundOf("write", x, pass, x) = pass + 1
    BY DEF BoundOf, AheadOf
  <2>2. pass \in Nat /\ \A r \in R : r.at \in Nat /\ r.at <= pass
    BY <1>2, RecordsOfType DEF LearningType, FileType, Grounded, Dated
  <2>3. \A r \in R : r.at < pass + 1
    BY <2>2
  <2> QED
    BY <2>1, <2>3 DEF Base
<1> HIDE DEF R
<1>7. Proposed' = Proposals(L, W)
  BY <1>1, <1>2, ProposedIs
<1>8. R = IF x = "lessons" THEN L ELSE W
  BY <1>2, <1>6 DEF Index
<1> HIDE DEF L, W, x
<1>9. worker'.todo \subseteq Proposed'
  BY <1>2, <1>3, <1>7, <1>8, CandidatesAreProposals
<1> QED
  BY <1>1, <1>2, <1>5, <1>9 DEF Grounded, At

LEMMA GroundedStep ==
  ASSUME LearningType, TaughtInv, GroundedInv, [Next]_vars
  PROVE  GroundedInv'
<1>1. CASE cut'
  BY <1>1 DEF GroundedInv
<1>2. CASE ~cut'
  <2>0. cut' = cut \/ cut' = TRUE
    <3>1. CutLine => cut' = TRUE
      BY DEF CutLine
    <3> QED
      BY <3>1 DEF Next, vars, history, Begin, EndJobs, Read, AppendRecord, DetectorFails, Propose, LogFails, EndWrites,
         Crash, Midnight, CompleteJob, CompleteJobBlind, WriteCandidate, LogUpdate, Decide
  <2> SUFFICES Grounded'
    BY DEF GroundedInv
  <2>1. Sound /\ Grounded
    BY <1>2, <2>0 DEF TaughtInv, GroundedInv
  <2>2. /\ worker.index \in Index /\ worker.at \in Places /\ (worker.at \in {"off", "jobs"} => worker.index = "lessons")
        /\ worker.observed \in Seq(Observation) /\ FileType
    BY DEF LearningType, WorkerType
  <2>3. ~CutLine
    BY <1>2 DEF CutLine
  <2>4. ASSUME UNCHANGED <<file, pass, pending, decided>>, worker'.at = "append" => New(worker'.fresh, worker'.records),
               AheadOf(worker'.at, worker'.index) \subseteq AheadOf(worker.at, worker.index),
               \/ worker'.todo = {}
               \/ worker'.todo = worker.todo /\ AheadOf(worker'.at, worker'.index) = AheadOf(worker.at, worker.index)
        PROVE  Grounded'
    <3>1. /\ \A x \in Index : Dated(file'[x], pass')
          /\ \A c : Backed(c, Proposed) => Backed(c, Proposed')
          /\ AheadOf(worker'.at, worker'.index) = AheadOf(worker.at, worker.index) => Proposed' = Proposed
      BY <2>1, <2>2, <2>4, QuietStep
    <3>2. worker'.todo \subseteq Proposed'
      BY <2>1, <2>4, <3>1 DEF Grounded
    <3>3. \A c \in pending' \cup decided' : Backed(c, Proposed')
      BY <2>1, <2>4, <3>1 DEF Grounded
    <3> QED
      BY <2>4, <3>1, <3>2, <3>3 DEF Grounded, At
  <2>5. CASE EndJobs
    <3>1. /\ worker' = [worker EXCEPT !.at = "index", !.job = 0] /\ worker.at = "jobs"
          /\ UNCHANGED <<file, pass, pending, decided>>
      BY <2>5 DEF EndJobs, At, indexes, files, counters
    <3>2. worker'.at = "index" /\ worker'.index = worker.index /\ worker'.todo = worker.todo
      BY <3>1 DEF LearningType, WorkerType
    <3> QED
      BY <2>4, <3>1, <3>2 DEF AheadOf
  <2>6. CASE Read
    <3> DEFINE records == ReadIndex(worker.index)
               fresh   == Fresh(worker.index, records, worker.observed)
    <3>1. /\ worker' = [worker EXCEPT !.at = "append", !.records = records, !.fresh = fresh] /\ worker.at = "index"
          /\ UNCHANGED <<file, pass, pending, decided>>
      BY <2>6 DEF Read, At, indexes, files, counters
    <3>2. New(fresh, records)
      <4> HIDE DEF records
      <4>1. /\ \A i \in DOMAIN fresh : fresh[i] \in Kind(worker.index) /\ fresh[i].id \notin Recorded(records)
            /\ \A i, k \in DOMAIN fresh : fresh[i].id = fresh[k].id => i = k
        BY <2>2, FreshAdds
      <4> HIDE DEF fresh
      <4> QED
        BY <4>1 DEF New, Ids, OfSeq
    <3> HIDE DEF records, fresh
    <3>3. /\ worker'.at = "append" /\ worker'.index = worker.index /\ worker'.todo = worker.todo
          /\ worker'.records = records /\ worker'.fresh = fresh
      BY <3>1 DEF LearningType, WorkerType
    <3> QED
      BY <2>4, <3>1, <3>2, <3>3 DEF AheadOf
  <2>7. ASSUME EndDetector, UNCHANGED <<file, pass, pending, decided>>, worker.at \in {"index", "append", "write"}
        PROVE  Grounded'
    <3>1. worker'.todo = {}
      BY <2>7 DEF EndDetector, Off
    <3>2. /\ worker'.at \in {"off", "index"}
          /\ worker.index = "workflows" => worker' = Off
          /\ worker.index = "lessons" => worker'.at = "index" /\ worker'.index = "workflows"
      BY <2>7, EndDetectorType DEF LearningType
    <3>3. CASE worker.index = "workflows"
      BY <2>4, <2>7, <3>1, <3>2, <3>3 DEF AheadOf, Off
    <3>4. CASE worker.index = "lessons"
      BY <2>4, <2>7, <3>1, <3>2, <3>4 DEF AheadOf
    <3> QED
      BY <2>2, <3>3, <3>4 DEF Index
  <2>8. CASE DetectorFails
    <3>1. /\ EndDetector /\ UNCHANGED <<file, pass, pending, decided>>
          /\ worker.at \in {"index", "append", "write"}
      BY <2>3, <2>8 DEF DetectorFails, indexes, files
    <3> QED
      BY <2>7, <3>1
  <2>9. CASE EndWrites
    <3>1. EndDetector /\ UNCHANGED <<file, pass, pending, decided>> /\ worker.at = "write"
      BY <2>9 DEF EndWrites, At, indexes, files, counters
    <3> QED
      BY <2>7, <3>1
  <2>10. CASE Crash
    <3>1. worker' = Off /\ UNCHANGED <<file, pass, pending, decided>>
      BY <2>3, <2>10 DEF Crash, indexes, files
    <3>2. worker'.at = "off" /\ worker'.todo = {} /\ AheadOf(worker'.at, worker'.index) = {}
      BY <3>1 DEF Off, AheadOf
    <3> QED
      BY <2>4, <3>1, <3>2
  <2>11. ASSUME NEW j \in Job, CompleteJob(j) PROVE Grounded'
    <3>1. /\ worker' = [worker EXCEPT !.job = j, !.observed = worker.observed \o Seen[j]] /\ worker.at = "jobs"
          /\ UNCHANGED <<file, pass, pending, decided>>
      BY <2>11 DEF CompleteJob, At, indexes, files, counters
    <3>2. worker'.at = worker.at /\ worker'.index = worker.index /\ worker'.todo = worker.todo
      BY <3>1 DEF LearningType, WorkerType
    <3> QED
      BY <2>4, <3>1, <3>2
  <2>12. ASSUME NEW j \in Job, CompleteJobBlind(j) PROVE Grounded'
    <3>1. /\ worker' = [worker EXCEPT !.job = j] /\ worker.at = "jobs"
          /\ UNCHANGED <<file, pass, pending, decided>>
      BY <2>12 DEF CompleteJobBlind, At, indexes, files
    <3>2. worker'.at = worker.at /\ worker'.index = worker.index /\ worker'.todo = worker.todo
      BY <3>1 DEF LearningType, WorkerType
    <3> QED
      BY <2>4, <3>1, <3>2
  <2>13. ASSUME worker' = [worker EXCEPT !.at = "write", !.hint = {}], worker.at = "log",
                UNCHANGED <<file, pass, pending, decided>>
         PROVE  Grounded'
    <3>1. worker'.at = "write" /\ worker'.index = worker.index /\ worker'.todo = worker.todo
      BY <2>13 DEF LearningType, WorkerType
    <3> QED
      BY <2>4, <2>13, <3>1 DEF AheadOf
  <2>14. CASE LogFails
    BY <2>13, <2>14 DEF LogFails, At, indexes, files
  <2>15. ASSUME NEW s \in worker.hint, LogUpdate(s) PROVE Grounded'
    BY <2>13, <2>15 DEF LogUpdate, At, indexes, counters
  <2>16. ASSUME NEW c \in worker.todo, WriteCandidate(c) PROVE Grounded'
    <3>1. PICK hints1 \in {{}, {c.id.skill}} :
            worker' = [worker EXCEPT !.todo = worker.todo \ {c}, !.hint = hints1,
                                     !.at = IF hints1 = {} THEN "write" ELSE "log"]
      BY <2>16, WorkerWrites
    <3>2. worker.at = "write" /\ UNCHANGED <<file, pass, decided>> /\ pending' \subseteq pending \cup {c}
      BY <2>16 DEF WriteCandidate, At, indexes, counters
    <3>3. worker'.at \in {"write", "log"} /\ worker'.index = worker.index /\ worker'.todo = worker.todo \ {c}
      BY <3>1 DEF LearningType, WorkerType
    <3>4. AheadOf(worker'.at, worker'.index) = AheadOf(worker.at, worker.index)
      BY <3>2, <3>3 DEF AheadOf
    <3>5. (\A x \in Index : Dated(file'[x], pass')) /\ Proposed' = Proposed
      BY <2>1, <2>2, <3>2, <3>4, QuietStep
    <3>6. Backed(c, Proposed)
      BY <2>1 DEF Grounded, Backed
    <3>7. \A d \in pending' \cup decided' : Backed(d, Proposed')
      BY <2>1, <3>2, <3>5, <3>6 DEF Grounded
    <3> QED
      BY <2>1, <3>3, <3>5, <3>7 DEF Grounded, At
  <2>17. ASSUME UNCHANGED <<file, pass, worker>>, pending' \cup decided' \subseteq pending \cup decided PROVE Grounded'
    <3>1. (\A x \in Index : Dated(file'[x], pass')) /\ Proposed' = Proposed
      BY <2>1, <2>2, <2>17, QuietStep
    <3> QED
      BY <2>1, <2>17, <3>1 DEF Grounded, At
  <2>18. CASE Midnight
    BY <2>17, <2>18 DEF Midnight, indexes, files
  <2>19. ASSUME NEW c \in pending, Decide(c) PROVE Grounded'
    BY <2>17, <2>19 DEF Decide, indexes, counters
  <2>20. CASE UNCHANGED vars
    BY <2>17, <2>20 DEF vars, indexes, files, counters
  <2>21. CASE Begin \/ AppendRecord \/ Propose
    BY <2>1, <2>21, GroundedBegin, GroundedAppend, GroundedPropose
  <2> QED
    BY <2>5, <2>6, <2>8, <2>9, <2>10, <2>11, <2>12, <2>14, <2>15, <2>16, <2>18, <2>19, <2>20, <2>21 DEF Next
<1> QED
  BY <1>1, <1>2

LEMMA GroundedStart == Init => GroundedInv
<1> SUFFICES ASSUME Init PROVE Grounded
  BY DEF GroundedInv
<1>1. \A x \in Index : file[x] = <<>>
  BY DEF Init
<1>2. RecordsOf(<<>>) = {}
  BY DEF RecordsOf
<1>3. \A x \in Index : Dated(file[x], pass)
  BY <1>1, <1>2, FS_EmptySet DEF Dated, Distinct
<1>4. worker.at = "off" /\ worker.todo = {} /\ pending \cup decided = {}
  BY DEF Init, Off
<1> QED
  BY <1>3, <1>4 DEF Grounded, At

LEMMA GroundedAlways == Spec => [](LearningType /\ GroundedInv)
<1>1. Init => LearningType /\ TaughtInv /\ GroundedInv
  BY LearningStart, TaughtStart, GroundedStart
<1>2. LearningType /\ TaughtInv /\ GroundedInv /\ [Next]_vars => (LearningType /\ TaughtInv /\ GroundedInv)'
  BY LearningTypeStep, TaughtStep, GroundedStep
<1> QED
  BY <1>1, <1>2, PTL DEF Spec

\* A lesson, or a session, is evidence of one candidate of its detector whatever is appended
\* after it, unless a line was cut.
THEOREM EvidenceOfOne == Spec => []OneCandidate
<1>1. LearningType /\ GroundedInv => OneCandidate
  BY GroundedIsOne DEF LearningType
<1> QED
  BY <1>1, GroundedAlways, PTL

\* A pending file never loses evidence as the index grows, and leaves only by a decision,
\* unless a line was cut.
THEOREM EvidenceIsKept == Spec => EvidenceGrows
<1> DEFINE Stays == cut \/ \A c \in pending : \/ c \in decided'
                                              \/ \E d \in pending' : d.id = c.id /\ c.evidence \subseteq d.evidence
<1>1. ASSUME LearningType, GroundedInv, [Next]_vars PROVE [Stays]_vars
  <2>1. ASSUME ~cut, NEW p \in pending, [Next]_vars, p \notin pending', p \notin decided'
        PROVE  \E d \in pending' : d.id = p.id /\ p.evidence \subseteq d.evidence
    <3>1. ASSUME NEW c \in worker.todo, WriteCandidate(c)
          PROVE  \E d \in pending' : d.id = p.id /\ p.evidence \subseteq d.evidence
      <4>1. c \in pending' /\ p.id = c.id
        BY <2>1, <3>1 DEF WriteCandidate
      <4>2. p.evidence \subseteq c.evidence
        BY <1>1, <2>1, <4>1, WrittenHasMore DEF GroundedInv, LearningType
      <4> QED
        BY <4>1, <4>2
    <3>2. ASSUME NEW c \in pending, Decide(c) PROVE FALSE
      BY <2>1, <3>2 DEF Decide
    <3>3. pending' = pending \/ (\E c \in worker.todo : WriteCandidate(c)) \/ (\E c \in pending : Decide(c))
      BY <2>1 DEF Next, vars, files, Begin, EndJobs, Read, AppendRecord, DetectorFails, Propose, LogFails, EndWrites,
         Crash, Midnight, CompleteJob, CompleteJobBlind, LogUpdate
    <3> QED
      BY <2>1, <3>1, <3>2, <3>3
  <2> QED
    BY <1>1, <2>1
<1> QED
  BY <1>1, GroundedAlways, PTL DEF Spec, EvidenceGrows
=============================================================================

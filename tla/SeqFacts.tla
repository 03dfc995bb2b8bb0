------------------------------ MODULE SeqFacts ------------------------------
(***************************************************************************)
(* Facts about the queues and caches of the node, which are sequences that *)
(* grow at the end, shrink at the front, and hold each element once.       *)
(***************************************************************************)
EXTENDS Naturals, Sequences, FiniteSets, SequencesExt, SequenceTheorems, WellFoundedInduction, TLAPS

\* No element twice.
Injective(q) == \A i, k \in 1..Len(q) : q[i] = q[k] => i = k

\* The elements of a sequence over S are elements of S.
LEMMA ToSetOfSeq ==
  ASSUME NEW S, NEW q \in Seq(S)
  PROVE  /\ ToSet(q) = {q[i] : i \in 1..Len(q)}
         /\ ToSet(q) \subseteq S
BY DEF ToSet

\* The empty sequence has no element and repeats none.
LEMMA ToSetOfEmpty == ToSet(<<>>) = {} /\ Injective(<<>>)
BY DEF ToSet, Injective

\* Appending an element adds it, and keeps a queue without repetition so when
\* the element is new.
LEMMA ToSetOfAppend ==
  ASSUME NEW S, NEW q \in Seq(S), NEW e \in S
  PROVE  /\ Append(q, e) \in Seq(S)
         /\ Append(q, e) # <<>>
         /\ Len(Append(q, e)) = Len(q) + 1
         /\ ToSet(Append(q, e)) = ToSet(q) \cup {e}
         /\ Injective(q) /\ e \notin ToSet(q) => Injective(Append(q, e))
<1> DEFINE n == Len(q)
           a == Append(q, e)
<1>1. /\ a \in Seq(S) /\ a # <<>> /\ Len(a) = n + 1
      /\ \A i \in 1..n : a[i] = q[i]
      /\ a[n+1] = e
  BY AppendProperties
<1>2. n \in Nat
  BY LenProperties
<1>3. ToSet(q) = {q[i] : i \in 1..n} /\ ToSet(a) = {a[i] : i \in 1..(n+1)}
  BY <1>1, ToSetOfSeq
<1>4. ToSet(a) = ToSet(q) \cup {e}
  <2>1. ASSUME NEW x \in ToSet(a) PROVE x \in ToSet(q) \cup {e}
    <3>1. PICK i \in 1..(n+1) : x = a[i]
      BY <2>1, <1>3
    <3>2. CASE i = n + 1
      BY <3>1, <3>2, <1>1
    <3>3. CASE i # n + 1
      <4>1. i \in 1..n
        BY <3>1, <3>3, <1>2
      <4> QED BY <4>1, <3>1, <1>1, <1>3
    <3> QED BY <3>2, <3>3
  <2>2. ASSUME NEW x \in ToSet(q) PROVE x \in ToSet(a)
    <3>1. PICK i \in 1..n : x = q[i]
      BY <2>2, <1>3
    <3>2. i \in 1..(n+1) /\ x = a[i]
      BY <3>1, <1>1, <1>2
    <3> QED BY <3>2, <1>3
  <2>3. e \in ToSet(a)
    <3>1. n + 1 \in 1..(n+1)
      BY <1>2
    <3> QED BY <3>1, <1>1, <1>3
  <2> QED BY <2>1, <2>2, <2>3
<1>5. ASSUME Injective(q), e \notin ToSet(q)
      PROVE  Injective(a)
  <2> SUFFICES ASSUME NEW i \in 1..(n+1), NEW k \in 1..(n+1), a[i] = a[k]
               PROVE  i = k
    BY <1>1 DEF Injective
  <2>1. CASE i \in 1..n /\ k \in 1..n
    BY <2>1, <1>1, <1>5 DEF Injective
  <2>2. CASE i = n + 1 /\ k = n + 1
    BY <2>2
  <2>3. CASE i = n + 1 /\ k \in 1..n
    BY <2>3, <1>1, <1>3, <1>5
  <2>4. CASE i \in 1..n /\ k = n + 1
    BY <2>4, <1>1, <1>3, <1>5
  <2> QED BY <2>1, <2>2, <2>3, <2>4, <1>2
<1> QED BY <1>1, <1>4, <1>5

\* Taking the head off removes one element, and only that one when none repeats.
LEMMA ToSetOfTail ==
  ASSUME NEW S, NEW q \in Seq(S), q # <<>>
  PROVE  /\ Head(q) \in ToSet(q)
         /\ Tail(q) \in Seq(S)
         /\ Len(Tail(q)) = Len(q) - 1
         /\ ToSet(q) = ToSet(Tail(q)) \cup {Head(q)}
         /\ Injective(q) => /\ Injective(Tail(q))
                            /\ ToSet(Tail(q)) = ToSet(q) \ {Head(q)}
<1> DEFINE n == Len(q)
           t == Tail(q)
<1>1. n \in Nat \ {0}
  BY EmptySeq
<1>2. t \in Seq(S) /\ Len(t) = n - 1 /\ \A i \in 1..(n-1) : t[i] = q[i+1]
  BY HeadTailProperties, <1>1
<1>3. Head(q) = q[1]
  OBVIOUS
<1>4. ToSet(q) = {q[i] : i \in 1..n} /\ ToSet(t) = {t[i] : i \in 1..(n-1)}
  BY <1>2, ToSetOfSeq
<1>5. Head(q) \in ToSet(q)
  BY <1>1, <1>3, <1>4
<1>6. ToSet(q) = ToSet(t) \cup {Head(q)}
  <2>1. ASSUME NEW x \in ToSet(q) PROVE x \in ToSet(t) \cup {Head(q)}
    <3>1. PICK i \in 1..n : x = q[i]
      BY <2>1, <1>4
    <3>2. CASE i = 1
      BY <3>1, <3>2, <1>3
    <3>3. CASE i # 1
      <4>1. i - 1 \in 1..(n-1) /\ x = t[i-1]
        BY <3>1, <3>3, <1>1, <1>2
      <4> QED BY <4>1, <1>4
    <3> QED BY <3>2, <3>3
  <2>2. ASSUME NEW x \in ToSet(t) PROVE x \in ToSet(q)
    <3>1. PICK i \in 1..(n-1) : x = t[i]
      BY <2>2, <1>4
    <3>2. i + 1 \in 1..n /\ x = q[i+1]
      BY <3>1, <1>1, <1>2
    <3> QED BY <3>2, <1>4
  <2> QED BY <2>1, <2>2, <1>5
<1>7. ASSUME Injective(q)
      PROVE  Injective(t) /\ Head(q) \notin ToSet(t)
  <2>1. Injective(t)
    <3> SUFFICES ASSUME NEW i \in 1..(n-1), NEW k \in 1..(n-1), t[i] = t[k]
                 PROVE  i = k
      BY <1>2 DEF Injective
    <3>1. i + 1 \in 1..n /\ k + 1 \in 1..n /\ q[i+1] = q[k+1]
      BY <1>1, <1>2
    <3>2. i + 1 = k + 1
      BY <3>1, <1>7 DEF Injective
    <3> QED BY <3>2, <1>1
  <2>2. Head(q) \notin ToSet(t)
    <3> SUFFICES ASSUME NEW i \in 1..(n-1), t[i] = q[1]
                 PROVE  FALSE
      BY <1>3, <1>4
    <3>1. i + 1 \in 1..n /\ 1 \in 1..n /\ q[i+1] = q[1] /\ i + 1 # 1
      BY <1>1, <1>2
    <3> QED BY <3>1, <1>7 DEF Injective
  <2> QED BY <2>1, <2>2
<1> QED BY <1>2, <1>5, <1>6, <1>7

\* Removing the element at i: what is left are the other places' elements.
LEMMA ToSetOfRemoveAt ==
  ASSUME NEW S, NEW q \in Seq(S), NEW i \in 1..Len(q)
  PROVE  /\ RemoveAt(q, i) \in Seq(S)
         /\ Len(RemoveAt(q, i)) = Len(q) - 1
         /\ ToSet(q) = ToSet(RemoveAt(q, i)) \cup {q[i]}
<1> DEFINE n == Len(q)
           l == SubSeq(q, 1, i-1)
           r == SubSeq(q, i+1, n)
           c == l \o r
<1>1. n \in Nat /\ i \in 1..n /\ \A k \in 1..n : q[k] \in S
  BY LenProperties, ElementOfSeq
<1>2. l \in Seq(S) /\ Len(l) = i - 1 /\ \A k \in 1..(i-1) : l[k] = q[k]
  <2>1. \A k \in 1..(i-1) : q[k] \in S
    BY <1>1
  <2> QED BY <2>1, <1>1, SubSeqProperties
<1>3. r \in Seq(S) /\ Len(r) = n - i /\ \A k \in 1..(n-i) : r[k] = q[i+k]
  <2>1. \A k \in (i+1)..n : q[k] \in S
    BY <1>1
  <2>2. i + 1 \in Int /\ n \in Int
    BY <1>1
  <2>3. /\ r \in Seq(S)
        /\ Len(r) = IF i+1 <= n THEN n-(i+1)+1 ELSE 0
        /\ \A k \in 1..(n-(i+1)+1) : r[k] = q[(i+1)+k-1]
    BY <2>1, <2>2, SubSeqProperties
  <2>4. n-(i+1)+1 = n-i /\ \A k \in 1..(n-i) : (i+1)+k-1 = i+k
    BY <1>1
  <2> HIDE DEF r
  <2>5. Len(r) = n - i
    <3>1. i + 1 <= n \/ n - i = 0
      BY <1>1
    <3> HIDE DEF n
    <3> QED BY <3>1, <2>3, <2>4, <1>1
  <2>6. ASSUME NEW k \in 1..(n-i) PROVE r[k] = q[i+k]
    <3>1. r[k] = q[(i+1)+k-1] /\ (i+1)+k-1 = i+k
      BY <2>3, <2>4
    <3> QED BY <3>1
  <2> QED BY <2>3, <2>5, <2>6
<1>4. /\ c \in Seq(S) /\ Len(c) = n - 1
      /\ \A k \in 1..(n-1) : c[k] = IF k <= i-1 THEN q[k] ELSE q[k+1]
  <2>1. /\ c \in Seq(S) /\ Len(c) = Len(l) + Len(r)
        /\ \A k \in 1..(Len(l) + Len(r)) :
              c[k] = IF k <= Len(l) THEN l[k] ELSE r[k - Len(l)]
    BY <1>2, <1>3, ConcatProperties
  <2> HIDE DEF l, r, c
  <2>2. Len(l) + Len(r) = n - 1
    BY <1>1, <1>2, <1>3
  <2>3. ASSUME NEW k \in 1..(n-1)
        PROVE  c[k] = IF k <= i-1 THEN q[k] ELSE q[k+1]
    <3>1. CASE k <= i-1
      BY <3>1, <2>1, <2>2, <1>1, <1>2
    <3>2. CASE ~(k <= i-1)
      <4>1. k - (i-1) \in 1..(n-i) /\ i + (k - (i-1)) = k + 1
        BY <3>2, <1>1
      <4> QED BY <4>1, <3>2, <2>1, <2>2, <1>1, <1>2, <1>3
    <3> QED BY <3>1, <3>2
  <2> QED BY <2>1, <2>2, <2>3
<1>5. ToSet(q) = {q[k] : k \in 1..n} /\ ToSet(c) = {c[k] : k \in 1..(n-1)}
  <2> HIDE DEF c
  <2> QED BY <1>4, ToSetOfSeq
<1> HIDE DEF c
<1>6. ASSUME NEW x \in ToSet(q) PROVE x \in ToSet(c) \cup {q[i]}
  <2>1. PICK k \in 1..n : x = q[k]
    BY <1>6, <1>5
  <2>2. CASE k < i
    <3>1. k \in 1..(n-1) /\ c[k] = q[k]
      BY <2>1, <2>2, <1>1, <1>4
    <3> QED BY <3>1, <2>1, <1>5
  <2>3. CASE k = i
    BY <2>1, <2>3
  <2>4. CASE k > i
    <3>1. k-1 \in 1..(n-1) /\ ~(k-1 <= i-1) /\ (k-1)+1 = k
      BY <2>1, <2>4, <1>1
    <3>2. c[k-1] = q[k]
      BY <3>1, <1>4
    <3> QED BY <3>1, <3>2, <2>1, <1>5
  <2> QED BY <2>2, <2>3, <2>4, <1>1
<1>7. ASSUME NEW x \in ToSet(c) PROVE x \in ToSet(q)
  <2>1. PICK k \in 1..(n-1) : x = c[k]
    BY <1>7, <1>5
  <2>2. k \in 1..n /\ k+1 \in 1..n
    BY <2>1, <1>1
  <2> QED BY <2>1, <2>2, <1>4, <1>5
<1>8. q[i] \in ToSet(q)
  BY <1>1, <1>5
<1> QED BY <1>4, <1>6, <1>7, <1>8 DEF RemoveAt, c

\* The elements of a concatenation are those of its two parts.
LEMMA ToSetOfConcat ==
  ASSUME NEW S, NEW q \in Seq(S), NEW r \in Seq(S)
  PROVE  ToSet(q \o r) = ToSet(q) \cup ToSet(r)
<1> DEFINE c == q \o r
           n == Len(q)
           m == Len(r)
<1>1. /\ c \in Seq(S) /\ Len(c) = n + m /\ n \in Nat /\ m \in Nat
      /\ \A i \in 1..(n + m) : c[i] = IF i <= n THEN q[i] ELSE r[i - n]
  BY ConcatProperties, LenProperties
<1>2. /\ ToSet(c) = {c[i] : i \in 1..(n + m)}
      /\ ToSet(q) = {q[i] : i \in 1..n} /\ ToSet(r) = {r[i] : i \in 1..m}
  BY <1>1, ToSetOfSeq
<1> HIDE DEF c, n, m
<1>3. ASSUME NEW x \in ToSet(c) PROVE x \in ToSet(q) \cup ToSet(r)
  <2>1. PICK i \in 1..(n + m) : x = c[i]
    BY <1>2, <1>3
  <2>2. CASE i <= n
    <3>1. i \in 1..n /\ x = q[i]
      BY <1>1, <2>1, <2>2
    <3> QED BY <3>1, <1>2
  <2>3. CASE ~(i <= n)
    <3>1. i - n \in 1..m /\ x = r[i - n]
      BY <1>1, <2>1, <2>3
    <3> QED BY <3>1, <1>2
  <2> QED BY <2>2, <2>3
<1>4. ASSUME NEW x \in ToSet(q) PROVE x \in ToSet(c)
  <2>1. PICK i \in 1..n : x = q[i]
    BY <1>2, <1>4
  <2>2. i \in 1..(n + m) /\ x = c[i]
    BY <1>1, <2>1
  <2> QED BY <2>2, <1>2
<1>5. ASSUME NEW x \in ToSet(r) PROVE x \in ToSet(c)
  <2>1. PICK i \in 1..m : x = r[i]
    BY <1>2, <1>5
  <2>2. n + i \in 1..(n + m) /\ ~(n + i <= n) /\ (n + i) - n = i
    BY <1>1, <2>1
  <2> QED BY <1>1, <1>2, <2>1, <2>2
<1> QED BY <1>3, <1>4, <1>5 DEF c

\* A queue cut after its first k elements.
LEMMA ToSetOfCut ==
  ASSUME NEW S, NEW q \in Seq(S), NEW k \in 0..Len(q)
  PROVE  LET front == SubSeq(q, 1, k)
             back  == SubSeq(q, k+1, Len(q))
         IN /\ front \in Seq(S) /\ Len(front) = k /\ \A i \in 1..k : front[i] = q[i]
            /\ back \in Seq(S) /\ Len(back) = Len(q) - k
            /\ \A i \in 1..(Len(q) - k) : back[i] = q[k + i]
            /\ ToSet(q) = ToSet(front) \cup ToSet(back)
<1> DEFINE n == Len(q)
           front == SubSeq(q, 1, k)
           back  == SubSeq(q, k+1, n)
<1>1. n \in Nat /\ k \in 0..n /\ \A i \in 1..n : q[i] \in S
  BY LenProperties, ElementOfSeq
<1>2. front \in Seq(S) /\ Len(front) = k /\ \A i \in 1..k : front[i] = q[i]
  <2>1. \A i \in 1..k : q[i] \in S
    BY <1>1
  <2> QED BY <2>1, <1>1, SubSeqProperties
<1>3. /\ back \in Seq(S) /\ Len(back) = IF k+1 <= n THEN n-(k+1)+1 ELSE 0
      /\ \A i \in 1..(n-(k+1)+1) : back[i] = q[(k+1)+i-1]
  <2>1. k + 1 \in Int /\ n \in Int /\ \A i \in (k+1)..n : q[i] \in S
    BY <1>1
  <2> QED BY <2>1, SubSeqProperties
<1>4. q = front \o back
  <2>1. k+1 \in 1..(n+1) /\ 1 \in 1..(n+1) /\ k \in (1-1)..n /\ n \in k..n
    BY <1>1
  <2>2. front \o back = SubSeq(q, 1, n)
    BY <2>1, ConcatAdjacentSubSeq
  <2> QED BY <2>2, SubSeqFull
<1> HIDE DEF front, back, n
<1>5. Len(back) = n - k
  BY <1>1, <1>3
<1>6. ASSUME NEW i \in 1..(n - k) PROVE back[i] = q[k + i]
  <2>1. i \in 1..(n-(k+1)+1) /\ (k+1)+i-1 = k + i
    BY <1>1
  <2> QED BY <2>1, <1>3
<1>7. ToSet(q) = ToSet(front) \cup ToSet(back)
  BY <1>2, <1>3, <1>4, ToSetOfConcat
<1> QED BY <1>2, <1>3, <1>5, <1>6, <1>7 DEF front, back, n

\* A queue without its head is the rest of it.
LEMMA HeadThenTail ==
  ASSUME NEW S, NEW q \in Seq(S), q # <<>>
  PROVE  Head(q) \in S /\ Tail(q) \in Seq(S) /\ q = <<Head(q)>> \o Tail(q)
<1>1. Head(q) \in S /\ Tail(q) \in Seq(S)
  BY HeadTailProperties
<1>2. Len(q) \in Nat \ {0}
  BY EmptySeq
<1>3. 1 \in 1..Len(q) /\ Len(q) \in 1..Len(q)
  BY <1>2
<1>4. SubSeq(q, 1, Len(q)) = <<q[1]>> \o SubSeq(q, 1 + 1, Len(q))
  BY <1>3, SubSeqRecursiveFirst
<1>5. SubSeq(q, 1, Len(q)) = q /\ Tail(q) = SubSeq(q, 2, Len(q)) /\ Head(q) = q[1]
  BY SubSeqFull, TailIsSubSeq
<1> QED BY <1>1, <1>4, <1>5

\* The head of one queue moved to the end of the one before it: together they are the same.
LEMMA HeadMoves ==
  ASSUME NEW S, NEW q \in Seq(S), NEW r \in Seq(S), r # <<>>
  PROVE  Append(q, Head(r)) \o Tail(r) = q \o r
<1>1. Head(r) \in S /\ Tail(r) \in Seq(S) /\ r = <<Head(r)>> \o Tail(r)
  BY HeadThenTail
<1>2. Append(q, Head(r)) = q \o <<Head(r)>> /\ <<Head(r)>> \in Seq(S)
  BY <1>1, AppendIsConcat
<1>3. (q \o <<Head(r)>>) \o Tail(r) = q \o (<<Head(r)>> \o Tail(r))
  BY <1>1, <1>2, ConcatAssociative
<1> QED BY <1>1, <1>2, <1>3

\* In order, and each number once.
Ascending(q) == \A i, k \in 1..Len(q) : i < k => q[i] < q[k]

\* Every number of one queue is below every number of the other.
Below(q, r) == \A x \in ToSet(q), y \in ToSet(r) : x < y

\* Two ascending queues with the first below the second are one.
LEMMA AscendingConcat ==
  ASSUME NEW q \in Seq(Nat), NEW r \in Seq(Nat)
  PROVE  Ascending(q \o r) <=> Ascending(q) /\ Ascending(r) /\ Below(q, r)
<1> DEFINE c == q \o r
           n == Len(q)
           m == Len(r)
<1>1. /\ c \in Seq(Nat) /\ Len(c) = n + m /\ n \in Nat /\ m \in Nat
      /\ \A i \in 1..(n + m) : c[i] = IF i <= n THEN q[i] ELSE r[i - n]
  BY ConcatProperties, LenProperties
<1>2. ToSet(q) = {q[i] : i \in 1..n} /\ ToSet(r) = {r[i] : i \in 1..m}
  BY ToSetOfSeq
<1>3. /\ \A i \in 1..n : i \in 1..(n + m) /\ c[i] = q[i]
      /\ \A i \in 1..m : n + i \in 1..(n + m) /\ c[n + i] = r[i]
  <2>1. ASSUME NEW i \in 1..n PROVE i \in 1..(n + m) /\ c[i] = q[i]
    BY <1>1
  <2>2. ASSUME NEW i \in 1..m PROVE n + i \in 1..(n + m) /\ c[n + i] = r[i]
    <3>1. n + i \in 1..(n + m) /\ ~(n + i <= n) /\ (n + i) - n = i
      BY <1>1
    <3> QED BY <3>1, <1>1
  <2> QED BY <2>1, <2>2
<1> HIDE DEF c, n, m
<1>4. ASSUME Ascending(c) PROVE Ascending(q) /\ Ascending(r) /\ Below(q, r)
  <2>1. \A i, k \in 1..(n + m) : i < k => c[i] < c[k]
    BY <1>1, <1>4 DEF Ascending
  <2>2. \A i, k \in 1..n : i < k => q[i] < q[k]
    BY <2>1, <1>3
  <2>3. ASSUME NEW i \in 1..m, NEW k \in 1..m, i < k PROVE r[i] < r[k]
    <3>1. n + i < n + k
      BY <2>3, <1>1
    <3> QED BY <3>1, <2>1, <1>3
  <2>4. ASSUME NEW i \in 1..n, NEW k \in 1..m PROVE q[i] < r[k]
    <3>1. i < n + k
      BY <1>1
    <3> QED BY <3>1, <2>1, <1>3
  <2> QED BY <2>2, <2>3, <2>4, <1>2 DEF Ascending, Below, n, m
<1>5. ASSUME Ascending(q), Ascending(r), Below(q, r) PROVE Ascending(c)
  <2>1. /\ \A i, k \in 1..n : i < k => q[i] < q[k]
        /\ \A i, k \in 1..m : i < k => r[i] < r[k]
        /\ \A i \in 1..n, k \in 1..m : q[i] < r[k]
    BY <1>2, <1>5 DEF Ascending, Below, n, m
  <2> SUFFICES ASSUME NEW i \in 1..(n + m), NEW k \in 1..(n + m), i < k
               PROVE  c[i] < c[k]
    BY <1>1 DEF Ascending
  <2>2. CASE k <= n
    <3>1. i \in 1..n /\ k \in 1..n
      BY <2>2, <1>1
    <3> QED BY <3>1, <2>1, <1>3
  <2>3. CASE i <= n /\ ~(k <= n)
    <3>1. i \in 1..n /\ k - n \in 1..m
      BY <2>3, <1>1
    <3> QED BY <3>1, <2>1, <2>3, <1>1
  <2>4. CASE ~(i <= n)
    <3>1. i - n \in 1..m /\ k - n \in 1..m /\ i - n < k - n /\ ~(k <= n)
      BY <2>4, <1>1
    <3> QED BY <3>1, <2>1, <2>4, <1>1
  <2> QED BY <2>2, <2>3, <2>4, <1>1
<1> QED BY <1>4, <1>5 DEF c

\* A queue of one.
LEMMA AscendingOne ==
  ASSUME NEW e \in Nat
  PROVE  <<e>> \in Seq(Nat) /\ Len(<<e>>) = 1 /\ ToSet(<<e>>) = {e} /\ Ascending(<<e>>)
<1>1. <<e>> \in Seq(Nat) /\ Len(<<e>>) = 1 /\ <<e>>[1] = e
  OBVIOUS
<1>2. ToSet(<<e>>) = {e}
  BY <1>1 DEF ToSet
<1>3. \A i, k \in 1..1 : ~(i < k)
  OBVIOUS
<1> QED BY <1>1, <1>2, <1>3 DEF Ascending

\* At most one element of a queue is in E.
AtMostOne(q, E) == \A i, k \in 1..Len(q) : q[i] \in E /\ q[k] \in E => i = k

\* Taking the head off: if it was in E, none of E is left, and otherwise what there was.
LEMMA AtMostOneOfTail ==
  ASSUME NEW S, NEW q \in Seq(S), q # <<>>, NEW E, AtMostOne(q, E)
  PROVE  /\ AtMostOne(Tail(q), E)
         /\ Head(q) \in E => ToSet(q) \cap E = {Head(q)} /\ ToSet(Tail(q)) \cap E = {}
         /\ Head(q) \notin E => ToSet(Tail(q)) \cap E = ToSet(q) \cap E
<1> DEFINE n == Len(q)
           t == Tail(q)
<1>1. n \in Nat \ {0}
  BY EmptySeq
<1>2. t \in Seq(S) /\ Len(t) = n - 1 /\ \A i \in 1..(n-1) : t[i] = q[i+1]
  BY HeadTailProperties, <1>1
<1>3. Head(q) = q[1]
  OBVIOUS
<1>4. ToSet(t) = {t[i] : i \in 1..(n-1)}
  BY <1>2, ToSetOfSeq
<1>5. \A i, k \in 1..n : q[i] \in E /\ q[k] \in E => i = k
  BY DEF AtMostOne
<1> HIDE DEF t, n
<1>6. ASSUME NEW i \in 1..(n-1), NEW k \in 1..(n-1), t[i] \in E, t[k] \in E PROVE i = k
  <2>1. i+1 \in 1..n /\ k+1 \in 1..n /\ q[i+1] \in E /\ q[k+1] \in E
    BY <1>1, <1>2, <1>6
  <2>2. i + 1 = k + 1
    BY <2>1, <1>5
  <2> QED BY <2>2
<1>7. ASSUME Head(q) \in E, NEW i \in 1..(n-1), t[i] \in E PROVE FALSE
  <2>1. i+1 \in 1..n /\ 1 \in 1..n /\ q[i+1] \in E /\ q[1] \in E /\ i + 1 # 1
    BY <1>1, <1>2, <1>3, <1>7
  <2> QED BY <2>1, <1>5
<1>8. ToSet(q) = ToSet(t) \cup {Head(q)}
  BY ToSetOfTail DEF t
<1> QED BY <1>2, <1>4, <1>6, <1>7, <1>8 DEF AtMostOne, t

\* Two queues of which not both have one.
LEMMA AtMostOneOfConcat ==
  ASSUME NEW S, NEW q \in Seq(S), NEW r \in Seq(S), NEW E, AtMostOne(q, E), AtMostOne(r, E),
         ToSet(q) \cap E = {} \/ ToSet(r) \cap E = {}
  PROVE  AtMostOne(q \o r, E)
<1> DEFINE c == q \o r
           n == Len(q)
           m == Len(r)
<1>1. /\ c \in Seq(S) /\ Len(c) = n + m /\ n \in Nat /\ m \in Nat
      /\ \A i \in 1..(n + m) : c[i] = IF i <= n THEN q[i] ELSE r[i - n]
  BY ConcatProperties, LenProperties
<1>2. ToSet(q) = {q[i] : i \in 1..n} /\ ToSet(r) = {r[i] : i \in 1..m}
  BY ToSetOfSeq
<1>3. /\ \A i, k \in 1..n : q[i] \in E /\ q[k] \in E => i = k
      /\ \A i, k \in 1..m : r[i] \in E /\ r[k] \in E => i = k
      /\ (\A i \in 1..n : q[i] \notin E) \/ (\A i \in 1..m : r[i] \notin E)
  BY <1>2 DEF AtMostOne
<1> HIDE DEF c, n, m
<1> SUFFICES ASSUME NEW i \in 1..(n + m), NEW k \in 1..(n + m), c[i] \in E, c[k] \in E
             PROVE  i = k
  BY <1>1 DEF AtMostOne, c
<1>4. CASE i <= n /\ k <= n
  <2>1. i \in 1..n /\ k \in 1..n /\ c[i] = q[i] /\ c[k] = q[k]
    BY <1>1, <1>4
  <2> QED BY <2>1, <1>3
<1>5. CASE ~(i <= n) /\ ~(k <= n)
  <2>1. i - n \in 1..m /\ k - n \in 1..m /\ c[i] = r[i - n] /\ c[k] = r[k - n]
    BY <1>1, <1>5
  <2>2. i - n = k - n
    BY <2>1, <1>3
  <2> QED BY <2>2, <1>1
<1>6. CASE i <= n /\ ~(k <= n)
  <2>1. i \in 1..n /\ k - n \in 1..m /\ c[i] = q[i] /\ c[k] = r[k - n]
    BY <1>1, <1>6
  <2> QED BY <2>1, <1>3
<1>7. CASE ~(i <= n) /\ k <= n
  <2>1. k \in 1..n /\ i - n \in 1..m /\ c[k] = q[k] /\ c[i] = r[i - n]
    BY <1>1, <1>7
  <2> QED BY <2>1, <1>3
<1> QED BY <1>4, <1>5, <1>6, <1>7

\* One element added at the end.
LEMMA AtMostOneOfAppend ==
  ASSUME NEW S, NEW q \in Seq(S), NEW e \in S, NEW E, AtMostOne(q, E),
         e \notin E \/ ToSet(q) \cap E = {}
  PROVE  /\ AtMostOne(Append(q, e), E)
         /\ ToSet(Append(q, e)) \cap E = (ToSet(q) \cap E) \cup ({e} \cap E)
<1> DEFINE r == <<e>>
<1>1. r \in Seq(S) /\ Len(r) = 1 /\ r[1] = e
  OBVIOUS
<1>2. ToSet(r) = {e}
  BY <1>1 DEF ToSet
<1>3. AtMostOne(r, E)
  BY <1>1 DEF AtMostOne
<1>4. Append(q, e) = q \o r
  BY AppendIsConcat
<1> HIDE DEF r
<1>5. ToSet(q) \cap E = {} \/ ToSet(r) \cap E = {}
  BY <1>2
<1>6. ToSet(Append(q, e)) = ToSet(q) \cup {e}
  BY ToSetOfAppend
<1> QED BY <1>1, <1>3, <1>4, <1>5, <1>6, AtMostOneOfConcat

\* Two elements added at once.
LEMMA AppendTwo ==
  ASSUME NEW S, NEW q \in Seq(S), NEW a \in S, NEW b \in S
  PROVE  q \o <<a, b>> = Append(Append(q, a), b)
<1>1. /\ Append(q, a) \in Seq(S) /\ Len(Append(q, a)) = Len(q) + 1
      /\ \A i \in 1..Len(q) : Append(q, a)[i] = q[i]
      /\ Append(q, a)[Len(q) + 1] = a
  BY AppendProperties
<1> DEFINE p == Append(q, a)
<1> HIDE DEF p
<1>2. /\ Append(p, b) \in Seq(S) /\ Len(Append(p, b)) = Len(p) + 1
      /\ \A i \in 1..Len(p) : Append(p, b)[i] = p[i]
      /\ Append(p, b)[Len(p) + 1] = b
  BY <1>1, AppendProperties DEF p
<1> DEFINE r == <<a, b>>
<1>3. r \in Seq(S) /\ Len(r) = 2 /\ r[1] = a /\ r[2] = b
  OBVIOUS
<1> HIDE DEF r
<1>4. /\ q \o r \in Seq(S) /\ Len(q \o r) = Len(q) + Len(r)
      /\ \A i \in 1..(Len(q) + Len(r)) : (q \o r)[i] = IF i <= Len(q) THEN q[i] ELSE r[i - Len(q)]
  BY <1>3, ConcatProperties
<1>5. Len(q) \in Nat
  BY LenProperties
<1> DEFINE c == q \o r
           d == Append(p, b)
           n == Len(q)
<1>6. Len(c) = n + 2 /\ Len(d) = n + 2
  BY <1>1, <1>2, <1>3, <1>4, <1>5 DEF p
<1>7. ASSUME NEW i \in 1..(n + 2) PROVE c[i] = d[i]
  <2>1. CASE i \in 1..n
    <3>1. i \in 1..(Len(q) + Len(r)) /\ i <= Len(q) /\ i \in 1..Len(p) /\ i \in 1..Len(q)
      BY <2>1, <1>1, <1>3, <1>5 DEF p
    <3>2. c[i] = q[i]
      BY <3>1, <1>4
    <3>3. d[i] = p[i] /\ p[i] = q[i]
      BY <3>1, <1>1, <1>2 DEF p
    <3> QED BY <3>2, <3>3
  <2>2. CASE i = n + 1
    <3>1. /\ i \in 1..(Len(q) + Len(r)) /\ ~(i <= Len(q)) /\ i - Len(q) = 1
          /\ i \in 1..Len(p) /\ i = Len(q) + 1
      BY <2>2, <1>1, <1>3, <1>5 DEF p
    <3>2. c[i] = a
      BY <3>1, <1>3, <1>4
    <3>3. d[i] = p[i] /\ p[i] = a
      BY <3>1, <1>1, <1>2 DEF p
    <3> QED BY <3>2, <3>3
  <2>3. CASE i = n + 2
    <3>1. /\ i \in 1..(Len(q) + Len(r)) /\ ~(i <= Len(q)) /\ i - Len(q) = 2
          /\ i = Len(p) + 1
      BY <2>3, <1>1, <1>3, <1>5 DEF p
    <3>2. c[i] = b
      BY <3>1, <1>3, <1>4
    <3>3. d[i] = b
      BY <3>1, <1>2
    <3> QED BY <3>2, <3>3
  <2>4. i \in 1..n \/ i = n + 1 \/ i = n + 2
    BY <1>5
  <2> QED BY <2>1, <2>2, <2>3, <2>4
<1>8. c = d
  BY <1>2, <1>4, <1>6, <1>7, SeqEqual
<1> QED BY <1>8 DEF p, r

-----------------------------------------------------------------------------
\* Paths are sequences too: their beginnings, and induction over their length.

\* Induction over the naturals, for a set.
LEMMA SetInduction ==
  ASSUME NEW S, 0 \in S, \A n \in Nat : n \in S => n + 1 \in S
  PROVE  Nat \subseteq S
<1> DEFINE Less == {pair \in Nat \X Nat : pair[1] < pair[2]}
           Missing == {n \in Nat : n \notin S}
<1> SUFFICES ASSUME Missing # {} PROVE FALSE
  OBVIOUS
<1>1. IsWellFoundedOn(Less, Nat)
  BY NatLessThanWellFounded DEF OpToRel
<1>2. PICK n \in Missing : \A m \in Missing : <<m, n>> \notin Less
  <2> HIDE DEF Less
  <2> QED BY <1>1, WFMin
<1>3. n - 1 \in Nat /\ n - 1 + 1 = n
  BY <1>2
<1>4. n - 1 \in Missing /\ <<n - 1, n>> \in Less
  BY <1>3
<1> QED BY <1>2, <1>4

\* The first n elements of a sequence, and the rest.
LEMMA PrefixOf ==
  ASSUME NEW S, NEW s \in Seq(S), NEW n \in 0..Len(s)
  PROVE  /\ SubSeq(s, 1, n) \in Seq(S) /\ Len(SubSeq(s, 1, n)) = n
         /\ \A i \in 1..n : SubSeq(s, 1, n)[i] = s[i]
         /\ SubSeq(s, n + 1, Len(s)) \in Seq(S) /\ Len(SubSeq(s, n + 1, Len(s))) = Len(s) - n
         /\ \A i \in 1..(Len(s) - n) : SubSeq(s, n + 1, Len(s))[i] = s[n + i]
OBVIOUS

\* All of a sequence, and nothing of it.
LEMMA WholeOf ==
  ASSUME NEW S, NEW s \in Seq(S)
  PROVE  SubSeq(s, 1, Len(s)) = s /\ SubSeq(s, Len(s) + 1, Len(s)) = <<>> /\ s \o <<>> = s
OBVIOUS

\* Appending changes no prefix, and is appending to the rest.
LEMMA PrefixOfAppend ==
  ASSUME NEW S, NEW s \in Seq(S), NEW x \in S, NEW n \in 0..Len(s)
  PROVE  /\ SubSeq(Append(s, x), 1, n) = SubSeq(s, 1, n)
         /\ SubSeq(Append(s, x), n + 1, Len(s) + 1) = Append(SubSeq(s, n + 1, Len(s)), x)
<1> DEFINE longer == Append(s, x)
           cut == SubSeq(longer, 1, n)
           rest == SubSeq(longer, n + 1, Len(s) + 1)
<1>1. longer \in Seq(S) /\ Len(longer) = Len(s) + 1 /\ \A i \in 1..Len(s) : longer[i] = s[i]
  OBVIOUS
<1>2. longer[Len(s) + 1] = x
  OBVIOUS
<1> HIDE DEF longer
<1>3. cut = SubSeq(s, 1, n)
  <2>1. cut \in Seq(S) /\ Len(cut) = n /\ \A i \in 1..n : cut[i] = s[i]
    BY <1>1, PrefixOf
  <2> HIDE DEF cut
  <2> QED BY <2>1, PrefixOf, SeqEqual
<1>4. rest = Append(SubSeq(s, n + 1, Len(s)), x)
  <2> DEFINE short == SubSeq(s, n + 1, Len(s))
  <2>1. /\ rest \in Seq(S) /\ Len(rest) = Len(s) + 1 - n
        /\ \A i \in 1..(Len(s) + 1 - n) : rest[i] = longer[n + i]
    BY <1>1, PrefixOf
  <2>2. short \in Seq(S) /\ Len(short) = Len(s) - n /\ \A i \in 1..(Len(s) - n) : short[i] = s[n + i]
    BY PrefixOf
  <2> HIDE DEF rest, short
  <2>3. /\ Append(short, x) \in Seq(S) /\ Len(Append(short, x)) = Len(s) + 1 - n
        /\ \A i \in 1..(Len(s) + 1 - n) : Append(short, x)[i] = IF i <= Len(s) - n THEN s[n + i] ELSE x
    BY <2>2
  <2>4. \A i \in 1..(Len(s) + 1 - n) : rest[i] = Append(short, x)[i]
    BY <1>1, <1>2, <2>1, <2>3
  <2>5. rest = Append(short, x)
    BY <2>1, <2>3, <2>4, SeqEqual
  <2> QED BY <2>5 DEF short
<1> QED BY <1>3, <1>4 DEF cut, rest, longer

\* The elements of a concatenation.
LEMMA ConcatOf ==
  ASSUME NEW S, NEW s \in Seq(S), NEW t \in Seq(S)
  PROVE  /\ s \o t \in Seq(S) /\ Len(s \o t) = Len(s) + Len(t)
         /\ \A i \in 1..Len(s) : (s \o t)[i] = s[i]
         /\ \A i \in 1..Len(t) : (s \o t)[Len(s) + i] = t[i]
OBVIOUS

\* The elements of a sequence appended to.
LEMMA AppendOf ==
  ASSUME NEW S, NEW s \in Seq(S), NEW x \in S
  PROVE  /\ Append(s, x) \in Seq(S) /\ Len(Append(s, x)) = Len(s) + 1
         /\ \A i \in 1..Len(s) : Append(s, x)[i] = s[i]
         /\ Append(s, x)[Len(s) + 1] = x
OBVIOUS

\* A pair is the concatenation of its halves.
LEMMA PairOf ==
  ASSUME NEW S, NEW a \in S, NEW b \in S
  PROVE  <<a>> \o <<b>> = <<a, b>>
<1> DEFINE pair == <<a, b>>
           both == <<a>> \o <<b>>
<1>1. pair \in Seq(S) /\ Len(pair) = 2 /\ pair[1] = a /\ pair[2] = b
  OBVIOUS
<1>2. both \in Seq(S) /\ Len(both) = Len(<<a>>) + Len(<<b>>) /\ both[1] = a
  BY ConcatOf
<1>3. both[2] = b
  <2>1. both[Len(<<a>>) + 1] = <<b>>[1]
    BY ConcatOf
  <2> QED BY <2>1
<1>4. Len(both) = 2
  BY <1>2
<1> HIDE DEF pair, both
<1>5. \A i \in 1..2 : both[i] = pair[i]
  BY <1>1, <1>2, <1>3
<1>6. both = pair
  BY <1>1, <1>2, <1>4, <1>5, SeqEqual
<1> QED BY <1>6 DEF both, pair

\* Appending to the right of a concatenation is appending to it.
LEMMA ConcatOfAppend ==
  ASSUME NEW S, NEW s \in Seq(S), NEW t \in Seq(S), NEW x \in S
  PROVE  s \o Append(t, x) = Append(s \o t, x)
OBVIOUS

\* Appending leaves the head alone.
LEMMA TailOfAppend ==
  ASSUME NEW S, NEW s \in Seq(S), NEW x \in S, s # <<>>
  PROVE  Tail(Append(s, x)) = Append(Tail(s), x) /\ Tail(s) \in Seq(S)
OBVIOUS

\* What a sequence with a given beginning is.
LEMMA StartsWith ==
  ASSUME NEW S, NEW s \in Seq(S), NEW a, NEW b
  PROVE  /\ IsPrefix(<<a>>, s) <=> s # <<>> /\ s[1] = a
         /\ IsPrefix(<<a, b>>, s) <=> Len(s) >= 2 /\ s[1] = a /\ s[2] = b
BY DEF IsPrefix
=============================================================================

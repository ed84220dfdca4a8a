------------------------------ MODULE DomProofs ------------------------------
(* Whatever a script calls, the nodes of a document stay a forest, and what is copied from the  *)
(* tree agrees with it (Dom).  The kids of all nodes are looked at as relations of sets; every  *)
(* loop of the code is a step for each member of a sequence (Each), and keeps what each of its  *)
(* steps keeps (Followed, Iterated).                                                            *)
EXTENDS Dom, TLAPS, FiniteSetTheorems, SequenceTheorems, NaturalsInduction

-----------------------------------------------------------------------------
(* A set of numbers has a least one. *)
LEMMA Least == ASSUME NEW S, S \in SUBSET Nat, S # {} PROVE \E n \in S : \A m \in S : n <= m
<1> DEFINE R == {ss \in Nat \X Nat : ss[1] < ss[2]}
<1>1. OpToRel(<, Nat) = R
  BY DEF OpToRel
<1>2. IsWellFoundedOn(R, Nat)
  BY <1>1, NatLessThanWellFounded
<1> HIDE DEF R
<1>3. PICK n \in S : \A m \in S : ~ (<<m, n>> \in R)
  BY <1>2, WFMin
<1>4. \A m \in S : ~ (m < n)
  BY <1>3 DEF R
<1> QED BY <1>4

(* Loops.  S[i] is what holds after i steps; what it begins with, f[i] or a[i] keeps. *)
Keeps(n, S, a) ==
    n \in Nat /\ a[0] \in S[0] /\ \A i \in 1..n : a[i - 1] \in S[i - 1] => a[i] \in S[i]

Steps(n, T, S, d, f) ==
    /\ n \in Nat /\ S \in [0..n -> SUBSET T] /\ d \in S[0]
    /\ \A i \in 1..n : \A e \in S[i - 1] : f[i][e] \in S[i]

Goes(n, T, S, d, f, g) ==
    /\ g \in [0..n -> T] /\ g[0] = d /\ \A i \in 0..n : g[i] \in S[i]
    /\ \A i \in 1..n : g[i] = f[i][g[i - 1]]

(* What each step keeps, the last one leaves. *)
LEMMA Followed == ASSUME NEW n, NEW S, NEW a, Keeps(n, S, a) PROVE a[n] \in S[n]
<1> USE DEF Keeps
<1> DEFINE Bad == {i \in 0..n : a[i] \notin S[i]}
<1> SUFFICES ASSUME Bad # {} PROVE FALSE
  OBVIOUS
<1>1. PICK m \in Bad : \A i \in Bad : m <= i
  <2>1. Bad \in SUBSET Nat
    OBVIOUS
  <2> HIDE DEF Bad
  <2> QED BY <2>1, Least
<1>2. m \in 1..n
  BY <1>1
<1>3. m - 1 \in 0..n /\ m - 1 \notin Bad
  BY <1>1, <1>2
<1> QED BY <1>1, <1>2, <1>3

(* There is a sequence of values that follow each other by the steps f. *)
LEMMA Iterated ==
  ASSUME NEW n, NEW T, NEW S, NEW d, NEW f, Steps(n, T, S, d, f)
  PROVE  \E g : Goes(n, T, S, d, f, g)
<1> USE DEF Steps
<1> DEFINE Bad == {k \in 0..n : \A g \in [0..k -> T] : ~Goes(k, T, S, d, f, g)}
<1> SUFFICES ASSUME Bad # {} PROVE FALSE
  <2>1. n \in 0..n
    OBVIOUS
  <2> QED BY <2>1
<1>1. PICK m \in Bad : \A i \in Bad : m <= i
  <2>1. Bad \in SUBSET Nat
    OBVIOUS
  <2> HIDE DEF Bad
  <2> QED BY <2>1, Least
<1>2. m \in 0..n
  BY <1>1
<1>3. m # 0
  <2> DEFINE g == [i \in 0..0 |-> d]
  <2>1. g \in [0..0 -> T] /\ Goes(0, T, S, d, f, g)
    BY DEF Goes
  <2> HIDE DEF g
  <2> QED BY <1>1, <2>1
<1>4. m \in 1..n /\ m - 1 \in 0..n /\ m - 1 \notin Bad
  <2> HIDE DEF Bad
  <2> QED BY <1>1, <1>2, <1>3
<1>5. PICK g \in [0..(m - 1) -> T] : Goes(m - 1, T, S, d, f, g)
  BY <1>4
<1> DEFINE h == [i \in 0..m |-> IF i = m THEN f[m][g[m - 1]] ELSE g[i]]
<1>6. g[m - 1] \in S[m - 1] /\ f[m][g[m - 1]] \in S[m]
  BY <1>4, <1>5 DEF Goes
<1>7. h[m] = f[m][g[m - 1]] /\ \A i \in 0..(m - 1) : h[i] = g[i]
  BY <1>4
<1>8. \A i \in 0..m : h[i] \in S[i] /\ S[i] \subseteq T
  BY <1>4, <1>5, <1>6, <1>7 DEF Goes
<1>9. h \in [0..m -> T]
  BY <1>8
<1>10. \A i \in 1..m : h[i] = f[i][h[i - 1]]
  BY <1>4, <1>5, <1>7 DEF Goes
<1>11. h[0] = d
  BY <1>4, <1>5, <1>7 DEF Goes
<1> HIDE DEF h
<1>12. Goes(m, T, S, d, f, h)
  BY <1>8, <1>9, <1>10, <1>11 DEF Goes
<1> QED BY <1>1, <1>9, <1>12

-----------------------------------------------------------------------------
(* Sequences.  x is at an earlier place of s than y. *)
Before(s, x, y) == \E i, j \in DOMAIN s : i < j /\ s[i] = x /\ s[j] = y

(* What is in a sequence is at one of its places. *)
LEMMA InToSet == ASSUME NEW s, NEW x PROVE x \in ToSet(s) <=> \E k \in DOMAIN s : s[k] = x
BY DEF ToSet

(* What an appended member changes: it is in, and behind all that were there. *)
LEMMA AppendFacts ==
  ASSUME NEW A, NEW s \in Seq(A), NEW x \in A
  PROVE  /\ Append(s, x) \in Seq(A) /\ ToSet(Append(s, x)) = ToSet(s) \cup {x}
         /\ \A a, b : Before(Append(s, x), a, b) => Before(s, a, b) \/ (b = x /\ a \in ToSet(s))
<1> DEFINE u == Append(s, x)
<1>1. u \in Seq(A) /\ Len(u) = Len(s) + 1 /\ u[Len(u)] = x /\ \A k \in 1..Len(s) : u[k] = s[k]
  OBVIOUS
<1>2. DOMAIN u = 1..(Len(s) + 1) /\ DOMAIN s = 1..Len(s) /\ Len(s) \in Nat
  BY <1>1
<1> HIDE DEF u
<1>3. ToSet(u) = ToSet(s) \cup {x}
  <2>1. ASSUME NEW y \in ToSet(u) PROVE y \in ToSet(s) \cup {x}
    <3>1. PICK k \in DOMAIN u : u[k] = y
      BY <2>1, InToSet
    <3>2. (k \in DOMAIN s /\ s[k] = y) \/ y = x
      BY <1>1, <1>2, <3>1
    <3> QED BY <3>2, InToSet
  <2>2. ASSUME NEW y \in ToSet(s) \cup {x} PROVE y \in ToSet(u)
    <3>1. \E k \in DOMAIN u : u[k] = y
      <4>1. CASE y = x
        BY <1>1, <1>2, <4>1
      <4>2. CASE y \in ToSet(s)
        <5>1. PICK k \in DOMAIN s : s[k] = y
          BY <4>2, InToSet
        <5> QED BY <1>1, <1>2, <5>1
      <4> QED BY <2>2, <4>1, <4>2
    <3> QED BY <3>1, InToSet
  <2> QED BY <2>1, <2>2
<1>4. ASSUME NEW a, NEW b, Before(u, a, b) PROVE Before(s, a, b) \/ (b = x /\ a \in ToSet(s))
  <2>1. PICK p, q \in DOMAIN u : p < q /\ u[p] = a /\ u[q] = b
    BY <1>4 DEF Before
  <2>2. p \in DOMAIN s /\ s[p] = a
    BY <1>1, <1>2, <2>1
  <2>3. a \in ToSet(s)
    BY <2>2, InToSet
  <2>4. (q \in DOMAIN s /\ s[q] = b) \/ b = x
    BY <1>1, <1>2, <2>1
  <2> QED BY <2>1, <2>2, <2>3, <2>4 DEF Before
<1> QED BY <1>1, <1>3, <1>4 DEF u

(* What is left of s, in its order (Without). *)
LEMMA WithoutFacts ==
  ASSUME NEW A, NEW s \in Seq(A), NEW S
  PROVE  /\ Without(s, S) \in Seq(A) /\ ToSet(Without(s, S)) = ToSet(s) \ S
         /\ \A x, y \in A : Before(Without(s, S), x, y) => Before(s, x, y)
<1>1. CASE ToSet(s) \cap S = {}
  BY <1>1 DEF Without
<1>2. CASE ToSet(s) \cap S # {}
  <2> DEFINE n == Len(s)
             step(t, x) == IF x \in S THEN t ELSE Append(t, x)
             Kept(i, t) ==
               /\ ToSet(t) = {s[k] : k \in 1..i} \ S
               /\ \A x, y \in A : Before(t, x, y) =>
                     \E a, b \in 1..i : a < b /\ s[a] = x /\ s[b] = y
             R(a) == a = [i \in 0..n |-> IF i = 0 THEN <<>> ELSE step(a[i - 1], s[i])]
             I == [i \in 0..n |-> {t \in Seq(A) : Kept(i, t)}]
             f == [i \in 1..n |-> [t \in Seq(A) |-> step(t, s[i])]]
             after == CHOOSE a : R(a)
  <2>1. n \in Nat /\ I \in [0..n -> SUBSET Seq(A)] /\ \A i \in 1..n : s[i] \in A
    OBVIOUS
  <2>2. Without(s, S) = after[n]
    BY <1>2 DEF Without, Each
  <2>3. <<>> \in I[0]
    BY <2>1 DEF Before, ToSet
  <2>4. ASSUME NEW i \in 1..n, NEW t \in I[i - 1] PROVE step(t, s[i]) \in I[i]
    <3>1. t \in Seq(A) /\ Kept(i - 1, t) /\ s[i] \in A /\ i \in Nat /\ i - 1 \in 0..n
      BY <2>1, <2>4
    <3>2. CASE s[i] \in S
      <4>1. {s[k] : k \in 1..i} \ S = {s[k] : k \in 1..(i - 1)} \ S
        BY <3>1, <3>2
      <4>2. Kept(i, t)
        BY <3>1, <4>1
      <4> HIDE DEF Kept
      <4> QED BY <3>1, <3>2, <4>2
    <3>3. CASE s[i] \notin S
      <4> DEFINE u == Append(t, s[i])
      <4>1. u \in Seq(A) /\ ToSet(u) = ToSet(t) \cup {s[i]}
        BY <3>1, AppendFacts
      <4>2. ToSet(u) = {s[k] : k \in 1..i} \ S
        BY <3>1, <3>3, <4>1
      <4>3. ASSUME NEW x \in A, NEW y \in A, Before(u, x, y)
            PROVE  \E a, b \in 1..i : a < b /\ s[a] = x /\ s[b] = y
        <5>1. Before(t, x, y) \/ (y = s[i] /\ x \in ToSet(t))
          <6> HIDE DEF Kept
          <6> QED BY <3>1, <4>3, AppendFacts
        <5>2. CASE Before(t, x, y)
          <6>1. PICK a, b \in 1..(i - 1) : a < b /\ s[a] = x /\ s[b] = y
            BY <3>1, <5>2
          <6> QED BY <6>1
        <5>3. CASE y = s[i] /\ x \in ToSet(t)
          <6>1. PICK a \in 1..(i - 1) : s[a] = x
            BY <3>1, <5>3
          <6>2. a \in 1..i /\ i \in 1..i /\ a < i
            BY <3>1
          <6> QED BY <5>3, <6>1, <6>2
        <5> QED BY <5>1, <5>2, <5>3
      <4>6. Kept(i, u)
        BY <4>2, <4>3
      <4>7. step(t, s[i]) = u
        BY <3>3 DEF u
      <4> HIDE DEF Kept, step, u
      <4> QED BY <3>1, <4>1, <4>6, <4>7
    <3> QED BY <3>2, <3>3
  <2> HIDE DEF Kept
  <2>5. \E a : R(a)
    <3>1. \A i \in 1..n : \A t \in I[i - 1] : f[i][t] = step(t, s[i])
      OBVIOUS
    <3>2. Steps(n, Seq(A), I, <<>>, f)
      <4> HIDE DEF I, f, step, n
      <4> QED BY <2>1, <2>3, <2>4, <3>1 DEF Steps
    <3>3. PICK g : Goes(n, Seq(A), I, <<>>, f, g)
      <4> HIDE DEF I, f, n
      <4> QED BY <3>2, Iterated
    <3>4. g = [i \in 0..n |-> IF i = 0 THEN <<>> ELSE step(g[i - 1], s[i])]
      <4> HIDE DEF f, I, step, n
      <4>1. \A i \in 1..n : g[i - 1] \in I[i - 1] /\ g[i] = step(g[i - 1], s[i])
        <5>1. \A i \in 1..n : i - 1 \in 0..n
          BY <2>1
        <5>2. \A i \in 1..n : g[i - 1] \in I[i - 1] /\ g[i] = f[i][g[i - 1]]
          BY <3>3, <5>1 DEF Goes
        <5> QED BY <3>1, <5>2
      <4> QED BY <2>1, <3>3, <4>1 DEF Goes
    <3> QED BY <3>4
  <2>6. R(after)
    <3> HIDE DEF R
    <3> QED BY <2>5, Zenon
  <2>7. after[n] \in I[n]
    <3> HIDE DEF after, I, step, n
    <3>1. after[0] = <<>> /\ \A i \in 1..n : after[i] = step(after[i - 1], s[i])
      BY <2>1, <2>6
    <3>2. Keeps(n, I, after)
      BY <2>1, <2>3, <2>4, <3>1 DEF Keeps
    <3> QED BY <3>2, Followed
  <2>8. Without(s, S) \in Seq(A) /\ Kept(n, Without(s, S))
    <3>1. after[n] \in {t \in Seq(A) : Kept(n, t)}
      <4>1. I[n] = {t \in Seq(A) : Kept(n, t)}
        BY <2>1
      <4> HIDE DEF after, I
      <4> QED BY <2>7, <4>1
    <3> HIDE DEF after, I, n
    <3> QED BY <2>2, <3>1
  <2>9. {s[k] : k \in 1..n} = ToSet(s)
    BY DEF ToSet
  <2>10. ASSUME NEW x \in A, NEW y \in A, Before(Without(s, S), x, y) PROVE Before(s, x, y)
    <3>1. \E a, b \in 1..n : a < b /\ s[a] = x /\ s[b] = y
      BY <2>8, <2>10 DEF Kept
    <3> QED BY <3>1 DEF Before
  <2>11. ToSet(Without(s, S)) = ToSet(s) \ S
    BY <2>8, <2>9 DEF Kept
  <2> QED BY <2>8, <2>10, <2>11
<1> QED BY <1>1, <1>2

(* s with x before r, or at the end (Inserted). *)
LEMMA IndexIs ==
  ASSUME NEW s, NEW r \in ToSet(s)
  PROVE  Index(s, r) \in DOMAIN s /\ s[Index(s, r)] = r
<1>1. \E i \in DOMAIN s : s[i] = r
  BY InToSet
<1> QED BY <1>1 DEF Index

(* The places of two sequences, one behind the other. *)
LEMMA ConcatFacts ==
  ASSUME NEW A, NEW u \in Seq(A), NEW v \in Seq(A)
  PROVE  /\ u \o v \in Seq(A) /\ Len(u \o v) = Len(u) + Len(v)
         /\ \A k \in 1..Len(u) : (u \o v)[k] = u[k]
         /\ \A k \in (Len(u) + 1)..(Len(u) + Len(v)) : (u \o v)[k] = v[k - Len(u)]
OBVIOUS

Split(s, x, i, t) == t = SubSeq(s, 1, i - 1) \o <<x>> \o SubSeq(s, i, Len(s))

(* The places of s with x put at its i-th. *)
LEMMA SplitFacts ==
  ASSUME NEW A, NEW s \in Seq(A), NEW x \in A, NEW i \in DOMAIN s, NEW t, Split(s, x, i, t)
  PROVE  /\ t \in Seq(A) /\ DOMAIN t = 1..(Len(s) + 1) /\ t[i] = x
         /\ \A k \in 1..(i - 1) : t[k] = s[k]
         /\ \A k \in (i + 1)..(Len(s) + 1) : t[k] = s[k - 1]
<1> DEFINE u == SubSeq(s, 1, i - 1)  v == SubSeq(s, i, Len(s))  w == u \o <<x>>
<1>1. i \in 1..Len(s) /\ Len(s) \in Nat /\ i \in Nat
  OBVIOUS
<1>2. u \in Seq(A) /\ Len(u) = i - 1 /\ \A k \in 1..(i - 1) : u[k] = s[k]
  BY <1>1
<1>3. v \in Seq(A) /\ Len(v) = Len(s) - i + 1 /\ \A k \in 1..(Len(s) - i + 1) : v[k] = s[i + k - 1]
  BY <1>1
<1>4. t = w \o v
  BY DEF Split
<1> HIDE DEF u, v
<1>5. w \in Seq(A) /\ Len(w) = i /\ w[i] = x /\ \A k \in 1..(i - 1) : w[k] = s[k]
  BY <1>1, <1>2
<1> HIDE DEF w
<1>9. /\ t \in Seq(A) /\ Len(t) = Len(w) + Len(v)
      /\ \A k \in 1..Len(w) : t[k] = w[k]
      /\ \A k \in (Len(w) + 1)..(Len(w) + Len(v)) : t[k] = v[k - Len(w)]
  BY ONLY <1>3, <1>4, <1>5, ConcatFacts
<1>6. t \in Seq(A) /\ Len(t) = Len(s) + 1
  BY <1>1, <1>3, <1>5, <1>9
<1>7. \A k \in 1..i : t[k] = w[k]
  BY <1>5, <1>9
<1>8. ASSUME NEW k \in (i + 1)..(Len(s) + 1) PROVE t[k] = s[k - 1]
  <2>1. /\ k - i \in 1..(Len(s) - i + 1) /\ k \in (Len(w) + 1)..(Len(w) + Len(v))
        /\ k = Len(w) + (k - i)
    BY <1>1, <1>3, <1>5, <1>8
  <2>2. t[k] = v[k - i]
    <3>1. t[k] = v[k - Len(w)]
      BY ONLY <1>9, <2>1
    <3> QED BY ONLY <1>5, <3>1
  <2>3. i + (k - i) - 1 = k - 1
    BY <1>1, <1>8
  <2> QED BY <1>3, <2>1, <2>2, <2>3
<1> QED BY <1>1, <1>5, <1>6, <1>7, <1>8

(* What an inserted member changes: it is in, behind what is before r, before r and the rest. *)
LEMMA InsertedFacts ==
  ASSUME NEW A, NEW s \in Seq(A), NEW x \in A, NEW r
  PROVE  /\ Inserted(s, x, r) \in Seq(A) /\ ToSet(Inserted(s, x, r)) = ToSet(s) \cup {x}
         /\ \A a, b : Before(Inserted(s, x, r), a, b) =>
              \/ Before(s, a, b)
              \/ b = x /\ a \in ToSet(s) /\ (r \in ToSet(s) => Before(s, a, r))
              \/ a = x /\ r \in ToSet(s) /\ (b = r \/ Before(s, r, b))
<1>1. CASE r \notin ToSet(s)
  BY <1>1, AppendFacts DEF Inserted
<1>2. CASE r \in ToSet(s)
  <2> DEFINE i == Index(s, r)  t == Inserted(s, x, r)
  <2>1. i \in DOMAIN s /\ s[i] = r
    BY <1>2, IndexIs
  <2>2. Split(s, x, i, t)
    BY <1>2 DEF Inserted, Split
  <2> HIDE DEF i, t
  <2>3. /\ t \in Seq(A) /\ DOMAIN t = 1..(Len(s) + 1) /\ t[i] = x
        /\ \A k \in 1..(i - 1) : t[k] = s[k]
        /\ \A k \in (i + 1)..(Len(s) + 1) : t[k] = s[k - 1]
    BY <2>1, <2>2, SplitFacts
  <2>4. DOMAIN s = 1..Len(s) /\ Len(s) \in Nat /\ i \in 1..Len(s)
    BY <2>1
  <2>5. ASSUME NEW y \in ToSet(t) PROVE y \in ToSet(s) \cup {x}
    <3>1. PICK k \in DOMAIN t : t[k] = y
      BY InToSet
    <3>2. CASE k < i
      <4>1. k \in DOMAIN s /\ s[k] = y
        BY <2>3, <2>4, <3>1, <3>2
      <4> QED BY <4>1, InToSet
    <3>3. CASE k > i
      <4>1. k - 1 \in DOMAIN s /\ s[k - 1] = y
        BY <2>3, <2>4, <3>1, <3>3
      <4> QED BY <4>1, InToSet
    <3> QED BY <2>3, <2>4, <3>1, <3>2, <3>3
  <2>6. ASSUME NEW y \in ToSet(s) \cup {x} PROVE y \in ToSet(t)
    <3>1. CASE y = x
      <4>1. i \in DOMAIN t
        BY <2>3, <2>4
      <4> QED BY <2>3, <3>1, <4>1, InToSet
    <3>2. CASE y \in ToSet(s)
      <4>1. PICK k \in DOMAIN s : s[k] = y
        BY <3>2, InToSet
      <4>2. CASE k < i
        <5>1. k \in DOMAIN t /\ t[k] = y
          BY <2>3, <2>4, <4>1, <4>2
        <5> QED BY <5>1, InToSet
      <4>3. CASE k >= i
        <5>1. k + 1 \in DOMAIN t /\ (k + 1) - 1 = k /\ k + 1 \in (i + 1)..(Len(s) + 1)
          BY <2>3, <2>4, <4>3
        <5>2. t[k + 1] = y
          BY <2>3, <4>1, <5>1
        <5> QED BY <5>1, <5>2, InToSet
      <4> QED BY <2>4, <4>1, <4>2, <4>3
    <3> QED BY <2>6, <3>1, <3>2
  <2>7. ASSUME NEW a, NEW b, Before(t, a, b)
        PROVE  \/ Before(s, a, b)
               \/ b = x /\ a \in ToSet(s) /\ Before(s, a, r)
               \/ a = x /\ (b = r \/ Before(s, r, b))
    <3>1. PICK p, q \in DOMAIN t : p < q /\ t[p] = a /\ t[q] = b
      BY <2>7 DEF Before
    <3>2. CASE q < i
      <4>1. p \in DOMAIN s /\ q \in DOMAIN s /\ s[p] = a /\ s[q] = b
        BY <2>3, <2>4, <3>1, <3>2
      <4> QED BY <3>1, <4>1 DEF Before
    <3>3. CASE q = i
      <4>1. p \in DOMAIN s /\ s[p] = a /\ p < i /\ b = x
        BY <2>3, <2>4, <3>1, <3>3
      <4>2. Before(s, a, r)
        BY <2>1, <4>1 DEF Before
      <4>3. a \in ToSet(s)
        BY <4>1, InToSet
      <4> QED BY <4>1, <4>2, <4>3
    <3>4. CASE q > i /\ p = i
      <4>1. q - 1 \in DOMAIN s /\ s[q - 1] = b /\ a = x /\ i <= q - 1
        BY <2>3, <2>4, <3>1, <3>4
      <4>2. b = r \/ Before(s, r, b)
        <5>1. CASE q - 1 = i
          BY <2>1, <4>1, <5>1
        <5>2. CASE i < q - 1
          BY <2>1, <4>1, <5>2 DEF Before
        <5> QED BY <2>4, <4>1, <5>1, <5>2
      <4> QED BY <4>1, <4>2
    <3>5. CASE q > i /\ p < i
      <4>1. p \in DOMAIN s /\ s[p] = a /\ q - 1 \in DOMAIN s /\ s[q - 1] = b /\ p < q - 1
        BY <2>3, <2>4, <3>1, <3>5
      <4> QED BY <4>1 DEF Before
    <3>6. CASE q > i /\ p > i
      <4>1. /\ p - 1 \in DOMAIN s /\ s[p - 1] = a /\ q - 1 \in DOMAIN s /\ s[q - 1] = b
            /\ p - 1 < q - 1
        BY <2>3, <2>4, <3>1, <3>6
      <4> QED BY <4>1 DEF Before
    <3> QED BY <2>3, <2>4, <3>1, <3>2, <3>3, <3>4, <3>5, <3>6
  <2> QED BY <1>2, <2>3, <2>5, <2>6, <2>7 DEF t
<1> QED BY <1>1, <1>2

(* The first of s that is in S, from the i-th on (FirstFrom). *)
LEMMA FirstFacts ==
  ASSUME NEW A, NEW s \in Seq(A), NEW S, NEW i \in Int, FirstFrom(s, i, S) # None
  PROVE  /\ FirstFrom(s, i, S) \in S \cap ToSet(s)
         /\ \E j \in DOMAIN s : j >= i /\ s[j] = FirstFrom(s, i, S)
                                /\ \A k \in DOMAIN s : k >= i /\ s[k] \in S => j <= k
<1> DEFINE at == {j \in DOMAIN s : j >= i /\ s[j] \in S}
           j == CHOOSE j \in at : \A k \in at : j <= k
<1>1. at # {} /\ FirstFrom(s, i, S) = s[j]
  BY DEF FirstFrom
<1>2. j \in at /\ \A k \in at : j <= k
  <2>1. at \in SUBSET Nat
    OBVIOUS
  <2>2. \E m \in at : \A k \in at : m <= k
    <3> HIDE DEF at
    <3> QED BY <1>1, <2>1, Least
  <2> HIDE DEF at
  <2> QED BY <2>2
<1> HIDE DEF j
<1>3. s[j] \in ToSet(s)
  BY <1>2, InToSet
<1> QED BY <1>1, <1>2, <1>3

(* When there is no first one, nothing of s from its i-th on is in S. *)
LEMMA NoFirst ==
  ASSUME NEW A, NEW s \in Seq(A), NEW S, NEW i \in Int, FirstFrom(s, i, S) = None, None \notin A,
         NEW k \in DOMAIN s, k >= i
  PROVE  s[k] \notin S
<1> SUFFICES ASSUME s[k] \in S PROVE FALSE
  OBVIOUS
<1> DEFINE at == {j \in DOMAIN s : j >= i /\ s[j] \in S}
           j == CHOOSE j \in at : \A m \in at : j <= m
<1>1. at # {}
  OBVIOUS
<1>2. FirstFrom(s, i, S) = s[j]
  BY <1>1 DEF FirstFrom
<1>3. j \in at
  <2>1. at \in SUBSET Nat
    OBVIOUS
  <2>2. \E m \in at : \A l \in at : m <= l
    <3> HIDE DEF at
    <3> QED BY <1>1, <2>1, Least
  <2> HIDE DEF at
  <2> QED BY <2>2
<1> HIDE DEF j
<1>4. s[j] \in A
  BY <1>3
<1> QED BY <1>2, <1>4

-----------------------------------------------------------------------------
(* Trees.  The children k of all that may have some: nothing is the child of two, or of one     *)
(* twice, or in itself.                                                                         *)
Tidy(k) ==
    /\ k \in [Inner -> Seq(DOMAIN type)]
    /\ \A p \in Inner : \A x \in DOMAIN type : ~Before(k[p], x, x)
    /\ \A p, q \in Inner : p # q => ToSet(k[p]) \cap ToSet(k[q]) = {}
    /\ \A S \in (SUBSET Inner) \ {{}} : \E n \in S : \A p \in S : n \notin ToSet(k[p])

(* XML: who has no place in the document is stored behind all who have one. *)
Behind(d) ==
    /\ d.marks \subseteq ToSet(d.kids[Doc])
    /\ \A n \in NodesOf(type, d) \ {Doc} : \E p \in Inner : n \in ToSet(d.kids[p])
    /\ \A x, y \in DOMAIN type : Before(d.kids[Doc], x, y) /\ x \in d.marks => y \in d.marks

Shape(d) ==
    /\ d \in Trees(type) /\ Tidy(d.kids)
    /\ \A p \in Inner : ToSet(d.kids[p]) \subseteq {n \in NodesOf(type, d) : type[n] \in ChildTypes}
    /\ held \subseteq NodesOf(type, d) /\ d.blank \subseteq NodesOf(type, d)

Sound(d) == Shape(d) /\ IF Xml THEN Behind(d) ELSE d.marks = {}

Basis == Kinds(be, type) /\ DOMAIN type \ Texts \subseteq held

(* What the types of the nodes say: who may be where. *)
LEMMA BasisFacts ==
  ASSUME Basis
  PROVE  /\ IsFiniteSet(DOMAIN type) /\ IsFiniteSet(Inner) /\ Inner \subseteq DOMAIN type
         /\ None \notin DOMAIN type /\ None \notin Inner /\ Word \notin DOMAIN type
         /\ Doc \in Inner /\ type[Doc] = Document /\ type[Doc] \notin ChildTypes
         /\ Texts \cap Inner = {} /\ \A n \in Texts \cap DOMAIN type : type[n] \in ChildTypes
         /\ \A n \in DOMAIN type : type[n] = Document => n = Doc
         /\ \A n \in DOMAIN type : type[n] = Fragment => type[n] \notin ChildTypes /\ ~Xml
<1> USE DEF Basis, Kinds, Inner, Branches, ChildTypes, Element, Text, Comment, Document, Doctype,
            Fragment
<1>1. IsFiniteSet(DOMAIN type)
  OBVIOUS
<1>2. Inner \subseteq DOMAIN type
  OBVIOUS
<1>3. IsFiniteSet(Inner)
  BY <1>1, <1>2, FS_Subset
<1>4. None \notin DOMAIN type /\ Word \notin DOMAIN type /\ Doc \in DOMAIN type
  OBVIOUS
<1>5. type[Doc] = 9 /\ \A n \in Texts \cap DOMAIN type : type[n] = 3
  OBVIOUS
<1>6. ~Xml \/ \A n \in DOMAIN type : type[n] # 11
  BY DEF Xml
<1> QED BY <1>1, <1>2, <1>3, <1>4, <1>5, <1>6

(* What a node is in (Above). *)
LEMMA AboveIs ==
  ASSUME NEW d, DOMAIN d.kids = Inner, None \notin Inner, NEW n
  PROVE  /\ Above(d, n) = None <=> \A p \in Inner : n \notin ToSet(d.kids[p])
         /\ Above(d, n) # None => Above(d, n) \in Inner /\ n \in ToSet(d.kids[Above(d, n)])
<1> DEFINE in == {p \in Inner : n \in ToSet(d.kids[p])}
<1>1. Above(d, n) = IF in = {} THEN None ELSE CHOOSE p \in in : TRUE
  BY DEF Above
<1>2. in # {} => (CHOOSE p \in in : TRUE) \in in
  <2> HIDE DEF in
  <2> QED OBVIOUS
<1> QED BY <1>1, <1>2

(* A node is in one only. *)
LEMMA AboveOnly ==
  ASSUME NEW d, Tidy(d.kids), None \notin Inner, NEW p \in Inner, NEW n \in ToSet(d.kids[p])
  PROVE  Above(d, n) = p
<1>1. DOMAIN d.kids = Inner
  BY DEF Tidy
<1>2. Above(d, n) \in Inner /\ n \in ToSet(d.kids[Above(d, n)])
  BY <1>1, AboveIs
<1> QED BY <1>2 DEF Tidy

(* The two ways to say it. *)
LEMMA OnceIs ==
  ASSUME NEW d, d.kids \in [Inner -> Seq(DOMAIN type)], None \notin Inner,
         Inner \subseteq DOMAIN type
  PROVE  Once(d) /\ Acyclic(d) <=> Tidy(d.kids)
<1>1. DOMAIN d.kids = Inner /\ \A p \in Inner : d.kids[p] \in Seq(DOMAIN type)
  OBVIOUS
<1>2. ASSUME Once(d), NEW p \in Inner, NEW x PROVE ~Before(d.kids[p], x, x)
  <2> SUFFICES ASSUME Before(d.kids[p], x, x) PROVE FALSE
    OBVIOUS
  <2>1. PICK i, j \in DOMAIN d.kids[p] : i < j /\ d.kids[p][i] = x /\ d.kids[p][j] = x
    BY DEF Before
  <2>2. i = j
    BY <1>1, <1>2, <2>1 DEF Once
  <2>3. DOMAIN d.kids[p] \subseteq Int
    BY <1>1
  <2> QED BY <2>1, <2>2, <2>3
<1>3. ASSUME Once(d), NEW p \in Inner, NEW q \in Inner, p # q
      PROVE  ToSet(d.kids[p]) \cap ToSet(d.kids[q]) = {}
  <2> SUFFICES ASSUME NEW x, x \in ToSet(d.kids[p]), x \in ToSet(d.kids[q]) PROVE FALSE
    OBVIOUS
  <2>1. PICK i \in DOMAIN d.kids[p] : d.kids[p][i] = x
    BY InToSet
  <2>2. PICK j \in DOMAIN d.kids[q] : d.kids[q][j] = x
    BY InToSet
  <2> QED BY <1>1, <1>3, <2>1, <2>2 DEF Once
<1>4. ASSUME Tidy(d.kids) PROVE Once(d)
  <2> SUFFICES ASSUME NEW p \in Inner, NEW q \in Inner, NEW i \in DOMAIN d.kids[p],
                      NEW j \in DOMAIN d.kids[q], d.kids[p][i] = d.kids[q][j]
               PROVE  p = q /\ i = j
    BY <1>1 DEF Once
  <2> DEFINE x == d.kids[p][i]
  <2>1. x \in ToSet(d.kids[p]) /\ x \in ToSet(d.kids[q])
    BY InToSet
  <2>2. p = q
    BY <1>4, <2>1 DEF Tidy
  <2>3. x \in DOMAIN type /\ i \in Int /\ j \in Int
    BY <1>1
  <2>4. ~(i < j) /\ ~(j < i)
    <3>1. ~Before(d.kids[p], x, x)
      BY <1>4, <2>3 DEF Tidy
    <3>2. d.kids[p][j] = x /\ j \in DOMAIN d.kids[p]
      BY <2>2
    <3> QED BY <3>1, <3>2 DEF Before
  <2> QED BY <2>2, <2>3, <2>4
<1>5. ASSUME Acyclic(d), NEW S \in (SUBSET Inner) \ {{}}
      PROVE  \E n \in S : \A p \in S : n \notin ToSet(d.kids[p]) \/ ~Once(d)
  <2>1. PICK n \in S : Above(d, n) \notin S
    BY <1>1, <1>5 DEF Acyclic
  <2>2. ASSUME NEW p \in S, n \in ToSet(d.kids[p]), Once(d) PROVE FALSE
    <3>1. Above(d, n) \in Inner /\ n \in ToSet(d.kids[Above(d, n)])
      BY <1>1, <2>2, AboveIs
    <3>2. Above(d, n) = p
      BY <1>3, <2>2, <3>1
    <3> QED BY <2>1, <3>2
  <2> QED BY <2>1, <2>2
<1>6. ASSUME Tidy(d.kids) PROVE Acyclic(d)
  <2> SUFFICES ASSUME NEW S \in (SUBSET Inner) \ {{}} PROVE \E n \in S : Above(d, n) \notin S
    BY <1>1 DEF Acyclic
  <2>1. PICK n \in S : \A p \in S : n \notin ToSet(d.kids[p])
    BY <1>6 DEF Tidy
  <2>2. Above(d, n) \notin S
    <3>1. CASE Above(d, n) = None
      BY <3>1
    <3>2. CASE Above(d, n) # None
      BY <1>1, <2>1, <3>2, AboveIs
    <3> QED BY <3>1, <3>2
  <2> QED BY <2>2
<1>7. ASSUME Once(d), Acyclic(d) PROVE Tidy(d.kids)
  <2>1. \A p \in Inner : \A x \in DOMAIN type : ~Before(d.kids[p], x, x)
    BY <1>2, <1>7
  <2>2. \A p, q \in Inner : p # q => ToSet(d.kids[p]) \cap ToSet(d.kids[q]) = {}
    BY <1>3, <1>7
  <2>3. \A S \in (SUBSET Inner) \ {{}} : \E n \in S : \A p \in S : n \notin ToSet(d.kids[p])
    BY <1>5, <1>7
  <2> QED BY <2>1, <2>2, <2>3 DEF Tidy
<1> QED BY <1>4, <1>6, <1>7

(* Behind says what Stored says, of a tree that is tidy. *)
LEMMA BehindIs ==
  ASSUME NEW d, d \in Trees(type), Tidy(d.kids), Basis
  PROVE  Behind(d) <=> Stored(type, d)
<1>1. d.kids \in [Inner -> Seq(DOMAIN type)] /\ DOMAIN d.kids = Inner
  BY DEF Tidy
<1>2. Doc \in Inner /\ None \notin Inner
  BY BasisFacts
<1>3. \A n : Above(d, n) # None <=> \E p \in Inner : n \in ToSet(d.kids[p])
  BY <1>1, <1>2, AboveIs
<1> DEFINE s == d.kids[Doc]
<1>4. s \in Seq(DOMAIN type)
  BY <1>1, <1>2
<1>5. (\A x, y \in DOMAIN type : Before(s, x, y) /\ x \in d.marks => y \in d.marks)
      <=> \A i, j \in DOMAIN s : i < j /\ s[i] \in d.marks => s[j] \in d.marks
  BY <1>4 DEF Before
<1> QED BY <1>3, <1>5 DEF Behind, Stored

(* Sound says what WellFormed says, in terms of sets of children. *)
LEMMA SoundIs == ASSUME NEW d PROVE WellFormed(be, type, held, d) <=> Basis /\ Sound(d)
<1> DEFINE Placed_ ==
      \A p \in Inner : ToSet(d.kids[p]) \subseteq {n \in NodesOf(type, d) : type[n] \in ChildTypes}
<1>1. WellFormed(be, type, held, d) <=>
        /\ Basis /\ d \in Trees(type) /\ held \subseteq NodesOf(type, d)
        /\ Placed_ /\ d.blank \subseteq NodesOf(type, d) /\ Once(d) /\ Acyclic(d)
        /\ IF Xml THEN Stored(type, d) ELSE d.marks = {}
  BY Zenon DEF WellFormed, Basis, Inner, Xml
<1>2. ASSUME Basis, d \in Trees(type)
      PROVE  Once(d) /\ Acyclic(d) <=> Tidy(d.kids)
  <2>1. d.kids \in [Inner -> Seq(DOMAIN type)]
    BY <1>2 DEF Trees, Inner
  <2> QED BY <1>2, <2>1, BasisFacts, OnceIs
<1> HIDE DEF Placed_
<1>3. Sound(d) <=>
        /\ d \in Trees(type) /\ Tidy(d.kids) /\ Placed_
        /\ held \subseteq NodesOf(type, d) /\ d.blank \subseteq NodesOf(type, d)
        /\ IF Xml THEN Behind(d) ELSE d.marks = {}
  BY Zenon DEF Sound, Shape, Placed_
<1> QED BY <1>1, <1>2, <1>3, BehindIs

-----------------------------------------------------------------------------
(* Taking a node out and putting it somewhere, as a change of the children of all. *)
Loose(k, c) == [q \in Inner |-> Without(k[q], {c})]
Linked(k, c, p, r) ==
    [q \in Inner |-> IF q = p THEN Inserted(Without(k[q], {c}), c, r) ELSE Without(k[q], {c})]

(* Taking c out everywhere keeps a tidy tree tidy. *)
LEMMA LooseFacts ==
  ASSUME NEW k, Tidy(k), NEW c
  PROVE  /\ Tidy(Loose(k, c)) /\ \A q \in Inner : ToSet(Loose(k, c)[q]) = ToSet(k[q]) \ {c}
         /\ \A q \in Inner : \A x, y \in DOMAIN type :
               Before(Loose(k, c)[q], x, y) => Before(k[q], x, y)
<1> DEFINE l == Loose(k, c)
<1>1. k \in [Inner -> Seq(DOMAIN type)]
  BY DEF Tidy
<1>2. \A q \in Inner : l[q] = Without(k[q], {c}) /\ k[q] \in Seq(DOMAIN type)
  BY <1>1 DEF Loose
<1>3. \A q \in Inner : /\ l[q] \in Seq(DOMAIN type) /\ ToSet(l[q]) = ToSet(k[q]) \ {c}
                       /\ \A x, y \in DOMAIN type : Before(l[q], x, y) => Before(k[q], x, y)
  <2> HIDE DEF l
  <2> QED BY <1>2, WithoutFacts
<1>4. l \in [Inner -> Seq(DOMAIN type)]
  <2>1. l = [q \in Inner |-> l[q]]
    BY DEF Loose
  <2> HIDE DEF l
  <2> QED BY <1>3, <2>1
<1> HIDE DEF l
<1>5. \A p \in Inner : \A x \in DOMAIN type : ~Before(l[p], x, x)
  BY <1>3 DEF Tidy
<1>6. \A p, q \in Inner : p # q => ToSet(l[p]) \cap ToSet(l[q]) = {}
  BY <1>3 DEF Tidy
<1>7. \A S \in (SUBSET Inner) \ {{}} : \E n \in S : \A p \in S : n \notin ToSet(l[p])
  <2> SUFFICES ASSUME NEW S \in (SUBSET Inner) \ {{}}
               PROVE  \E n \in S : \A p \in S : n \notin ToSet(l[p])
    OBVIOUS
  <2>1. PICK n \in S : \A p \in S : n \notin ToSet(k[p])
    BY DEF Tidy
  <2> QED BY <1>3, <2>1
<1>8. Tidy(l)
  BY <1>4, <1>5, <1>6, <1>7 DEF Tidy
<1> QED BY <1>3, <1>8 DEF l

(* Who is above the parent and the document, and the new node is not: it has all that it is in. *)
Closed(k, U) ==
    /\ U \subseteq Inner /\ Doc \in U
    /\ \A q \in Inner : \A n \in U : n \in ToSet(k[q]) => q \in U

IsLinked(m, k, c, p, r) ==
    /\ m \in [Inner -> Seq(DOMAIN type)] /\ ToSet(m[p]) = ToSet(k[p]) \cup {c}
    /\ \A q \in Inner \ {p} : ToSet(m[q]) = ToSet(k[q]) \ {c}
    /\ \A q \in Inner \ {p} : \A x, y \in DOMAIN type : Before(m[q], x, y) => Before(k[q], x, y)
    /\ \A x, y \in DOMAIN type : Before(m[p], x, y) =>
         /\ x # y /\ x \in ToSet(k[p]) \cup {c} /\ y \in ToSet(k[p]) \cup {c}
         /\ \/ x # c /\ y # c /\ Before(k[p], x, y)
            \/ x # c /\ y = c /\ (r \in ToSet(k[p]) \ {c} => Before(k[p], x, r))
            \/ x = c /\ y # c /\ r \in ToSet(k[p]) \ {c} /\ (y = r \/ Before(k[p], r, y))

(* Who has which children when c has been put under p before r, and in which order. *)
LEMMA LinkedSets ==
  ASSUME NEW k, Tidy(k), NEW c \in DOMAIN type, NEW p \in Inner, NEW r
  PROVE  IsLinked(Linked(k, c, p, r), k, c, p, r)
<1> DEFINE l == Loose(k, c)  m == Linked(k, c, p, r)  t == Inserted(l[p], c, r)
<1>1. /\ Tidy(l) /\ \A q \in Inner : ToSet(l[q]) = ToSet(k[q]) \ {c}
      /\ \A q \in Inner : \A x, y \in DOMAIN type : Before(l[q], x, y) => Before(k[q], x, y)
  BY LooseFacts
<1>2. m = [q \in Inner |-> IF q = p THEN t ELSE l[q]]
  BY DEF Linked, Loose
<1> HIDE DEF l, m
<1>3. l \in [Inner -> Seq(DOMAIN type)] /\ \A x \in DOMAIN type : ~Before(l[p], x, x)
  BY <1>1 DEF Tidy
<1>4. /\ t \in Seq(DOMAIN type) /\ ToSet(t) = ToSet(l[p]) \cup {c}
      /\ \A x, y : Before(t, x, y) =>
           \/ Before(l[p], x, y)
           \/ y = c /\ x \in ToSet(l[p]) /\ (r \in ToSet(l[p]) => Before(l[p], x, r))
           \/ x = c /\ r \in ToSet(l[p]) /\ (y = r \/ Before(l[p], r, y))
  <2>1. l[p] \in Seq(DOMAIN type)
    BY <1>3
  <2> HIDE DEF t
  <2> QED BY <2>1, InsertedFacts DEF t
<1> HIDE DEF t
<1>5. ASSUME NEW x, NEW y, Before(l[p], x, y)
      PROVE  x \in ToSet(k[p]) \ {c} /\ y \in ToSet(k[p]) \ {c}
  <2>1. PICK i, j \in DOMAIN l[p] : i < j /\ l[p][i] = x /\ l[p][j] = y
    BY <1>5 DEF Before
  <2>2. x \in ToSet(l[p]) /\ y \in ToSet(l[p])
    BY <2>1, InToSet
  <2> QED BY <1>1, <2>2
<1>6. m \in [Inner -> Seq(DOMAIN type)] /\ m[p] = t /\ \A q \in Inner \ {p} : m[q] = l[q]
  BY <1>2, <1>3, <1>4
<1>7. ToSet(m[p]) = ToSet(k[p]) \cup {c}
  BY <1>1, <1>4, <1>6
<1>8. \A q \in Inner \ {p} : ToSet(m[q]) = ToSet(k[q]) \ {c} /\
        \A x, y \in DOMAIN type : Before(m[q], x, y) => Before(k[q], x, y)
  BY <1>1, <1>6
<1>9. ASSUME NEW x \in DOMAIN type, NEW y \in DOMAIN type, Before(m[p], x, y)
      PROVE  /\ x # y /\ x \in ToSet(k[p]) \cup {c} /\ y \in ToSet(k[p]) \cup {c}
             /\ \/ x # c /\ y # c /\ Before(k[p], x, y)
                \/ x # c /\ y = c /\ (r \in ToSet(k[p]) \ {c} => Before(k[p], x, r))
                \/ x = c /\ y # c /\ r \in ToSet(k[p]) \ {c} /\ (y = r \/ Before(k[p], r, y))
  <2>1. ToSet(l[p]) = ToSet(k[p]) \ {c}
    BY <1>1
  <2>2. \A a, b \in DOMAIN type : Before(l[p], a, b) => Before(k[p], a, b)
    BY <1>1
  <2>3. CASE Before(l[p], x, y)
    BY <1>3, <1>5, <2>2, <2>3
  <2>4. CASE y = c /\ x \in ToSet(l[p]) /\ (r \in ToSet(l[p]) => Before(l[p], x, r))
    <3>1. r \in ToSet(k[p]) \ {c} => Before(k[p], x, r) /\ r \in DOMAIN type
      <4>1. ASSUME r \in ToSet(l[p]) PROVE r \in DOMAIN type
        BY <1>3, <4>1, InToSet
      <4> QED BY <2>1, <2>2, <2>4, <4>1
    <3> QED BY <2>1, <2>4, <3>1
  <2>5. CASE x = c /\ r \in ToSet(l[p]) /\ (y = r \/ Before(l[p], r, y))
    <3>1. r \in DOMAIN type
      BY <1>3, <2>5, InToSet
    <3>2. y = r \/ Before(k[p], r, y)
      BY <2>2, <2>5, <3>1
    <3>3. y \in ToSet(k[p]) \ {c}
      BY <1>5, <2>1, <2>5
    <3> QED BY <2>1, <2>5, <3>2, <3>3
  <2> QED BY <1>4, <1>6, <1>9, <2>3, <2>4, <2>5
<1>10. IsLinked(m, k, c, p, r)
  BY <1>6, <1>7, <1>8, <1>9 DEF IsLinked
<1> QED BY <1>10 DEF m

(* Nothing comes to be in itself when c is not among those that p is in. *)
LEMMA LinkedTidy ==
  ASSUME NEW k, Tidy(k), NEW c \in DOMAIN type, NEW p \in Inner, NEW r,
         NEW U, Closed(k, U), p \in U
  PROVE  Closed(Linked(k, c, p, r), U) /\ (c \notin U => Tidy(Linked(k, c, p, r)))
<1> DEFINE m == Linked(k, c, p, r)
<1>1. IsLinked(m, k, c, p, r)
  BY LinkedSets
<1> HIDE DEF m
<1>2. /\ m \in [Inner -> Seq(DOMAIN type)] /\ ToSet(m[p]) = ToSet(k[p]) \cup {c}
      /\ \A q \in Inner \ {p} : ToSet(m[q]) = ToSet(k[q]) \ {c}
  BY <1>1 DEF IsLinked
<1>3. /\ \A q \in Inner \ {p} : \A x, y \in DOMAIN type : Before(m[q], x, y) => Before(k[q], x, y)
      /\ \A x, y \in DOMAIN type : Before(m[p], x, y) => x # y
  BY <1>1 DEF IsLinked
<1>4. Closed(m, U)
  <2>1. ASSUME NEW q \in Inner, NEW n \in U, n \in ToSet(m[q]) PROVE q \in U
    <3>1. CASE q = p
      BY <3>1
    <3>2. CASE q # p
      BY <1>2, <2>1, <3>2 DEF Closed
    <3> QED BY <3>1, <3>2
  <2> QED BY <2>1 DEF Closed
<1>5. ASSUME c \notin U PROVE Tidy(m)
  <2>1. \A q \in Inner : \A x \in DOMAIN type : ~Before(m[q], x, x)
    BY <1>3 DEF Tidy
  <2>2. \A q, s \in Inner : q # s => ToSet(m[q]) \cap ToSet(m[s]) = {}
    <3> SUFFICES ASSUME NEW q \in Inner, NEW s \in Inner, q # s
                 PROVE  ToSet(m[q]) \cap ToSet(m[s]) = {}
      OBVIOUS
    <3>1. ToSet(k[q]) \cap ToSet(k[s]) = {}
      BY DEF Tidy
    <3>2. q # p => ToSet(m[q]) = ToSet(k[q]) \ {c}
      BY <1>2
    <3>3. s # p => ToSet(m[s]) = ToSet(k[s]) \ {c}
      BY <1>2
    <3> QED BY <1>2, <3>1, <3>2, <3>3
  <2>3. ASSUME NEW S \in (SUBSET Inner) \ {{}} PROVE \E n \in S : \A q \in S : n \notin ToSet(m[q])
    <3>1. CASE c \in S /\ p \in S
      <4>1. S \cap U \in (SUBSET Inner) \ {{}}
        BY <3>1
      <4>2. PICK n \in S \cap U : \A q \in S \cap U : n \notin ToSet(k[q])
        BY <4>1 DEF Tidy
      <4>3. ASSUME NEW q \in S, n \in ToSet(m[q]) PROVE FALSE
        <5>1. n # c /\ q \in Inner
          BY <1>5
        <5>2. n \in ToSet(k[q])
          <6>1. CASE q = p
            BY <1>2, <4>3, <5>1, <6>1
          <6>2. CASE q # p
            BY <1>2, <4>3, <5>1, <6>2
          <6> QED BY <6>1, <6>2
        <5>3. q \in U
          BY <5>1, <5>2 DEF Closed
        <5> QED BY <4>2, <5>2, <5>3
      <4> QED BY <4>3
    <3>2. CASE ~(c \in S /\ p \in S)
      <4>1. PICK n \in S : \A q \in S : n \notin ToSet(k[q])
        BY DEF Tidy
      <4>2. ASSUME NEW q \in S, n \in ToSet(m[q]) PROVE FALSE
        <5>1. CASE q = p
          BY <1>2, <3>2, <4>1, <4>2, <5>1
        <5>2. CASE q # p
          BY <1>2, <4>1, <4>2, <5>2
        <5> QED BY <5>1, <5>2
      <4> QED BY <4>2
    <3> QED BY <3>1, <3>2
  <2> QED BY <1>2, <2>1, <2>2, <2>3 DEF Tidy
<1> QED BY <1>4, <1>5 DEF m

-----------------------------------------------------------------------------
(* The way up (Path).  It ends at a node without a parent: if it did not, it would be longer    *)
(* than there are nodes to go through, and nothing is in itself.                                *)
LEMMA ParentIs ==
  ASSUME NEW d, DOMAIN d.kids = Inner, None \notin Inner, NEW n
  PROVE  Parent(d, n) \in Inner \cup {None} /\
         (Parent(d, n) # None => n \in ToSet(d.kids[Parent(d, n)]) /\ Above(d, n) = Parent(d, n))
BY AboveIs DEF Parent

IsWay(d, n, s, i) ==
    /\ Len(s) > 0 /\ s[1] = n
    /\ \A j \in 1..(Len(s) - 1) : s[j + 1] = Parent(d, s[j]) /\ s[j + 1] # None
    /\ Len(s) = i + 1 \/ Parent(d, s[Len(s)]) = None

(* The loop of Path: each is the parent of the one before it, until there is none. *)
LEMMA PathIs ==
  ASSUME NEW d, DOMAIN d.kids = Inner, Basis, NEW n \in DOMAIN type
  PROVE  Path(d, n) \in Seq(DOMAIN type) /\ IsWay(d, n, Path(d, n), Cardinality(Inner))
<1> DEFINE N == Cardinality(Inner)
           T == Seq(DOMAIN type)
           s == Counted(N)
           step(t, k) == LET p == Parent(d, t[Len(t)]) IN IF p = None THEN t ELSE Append(t, p)
           R(a) == a = [i \in 0..Len(s) |-> IF i = 0 THEN <<n>> ELSE step(a[i - 1], s[i])]
           I == [i \in 0..N |-> {t \in T : IsWay(d, n, t, i)}]
           f == [i \in 1..N |-> [t \in T |-> step(t, s[i])]]
           after == CHOOSE a : R(a)
<1>1. N \in Nat
  BY BasisFacts, FS_CardinalityType
<1>2. Len(s) = N /\ \A i \in 1..N : s[i] = i
  BY <1>1 DEF Counted
<1>3. Path(d, n) = after[Len(s)]
  BY DEF Path, Each
<1>4. I \in [0..N -> SUBSET T]
  OBVIOUS
<1>5. <<n>> \in I[0]
  BY <1>1 DEF IsWay
<1>6. ASSUME NEW i \in 1..N, NEW t \in I[i - 1] PROVE step(t, s[i]) \in I[i]
  <2>1. t \in T /\ IsWay(d, n, t, i - 1) /\ i - 1 \in 0..N /\ i \in Nat
    BY <1>1
  <2> DEFINE p == Parent(d, t[Len(t)])  u == Append(t, p)
  <2>2. CASE p = None
    <3>1. step(t, s[i]) = t
      BY <2>2
    <3>2. IsWay(d, n, t, i)
      BY <2>1, <2>2 DEF IsWay
    <3> HIDE DEF step
    <3> QED BY <2>1, <3>1, <3>2
  <2>3. CASE p # None
    <3>1. p \in Inner /\ p \in DOMAIN type
      BY <2>3, BasisFacts, ParentIs
    <3>2. step(t, s[i]) = u
      BY <2>3
    <3>3. Len(t) = i /\ Len(t) > 0
      BY <2>1, <2>3 DEF IsWay
    <3> HIDE DEF step
    <3>4. u \in T /\ Len(u) = Len(t) + 1 /\ u[Len(u)] = p /\ \A j \in 1..Len(t) : u[j] = t[j]
      <4> HIDE DEF p
      <4> QED BY <2>1, <3>1
    <3> HIDE DEF u
    <3>5. u[1] = n
      BY <2>1, <3>3, <3>4 DEF IsWay
    <3>6. ASSUME NEW j \in 1..(Len(u) - 1) PROVE u[j + 1] = Parent(d, u[j]) /\ u[j + 1] # None
      <4>1. j \in 1..Len(t) /\ u[j] = t[j]
        BY <2>1, <3>3, <3>4
      <4>2. CASE j = Len(t)
        BY <2>3, <3>4, <4>1, <4>2
      <4>3. CASE j < Len(t)
        <5>1. j + 1 \in 1..Len(t) /\ j \in 1..(Len(t) - 1)
          BY <2>1, <4>1, <4>3
        <5> QED BY <2>1, <3>4, <4>1, <5>1 DEF IsWay
      <4> QED BY <2>1, <4>1, <4>2, <4>3
    <3>7. IsWay(d, n, u, i)
      BY <2>1, <3>3, <3>4, <3>5, <3>6 DEF IsWay
    <3> QED BY <2>1, <3>2, <3>4, <3>7
  <2> QED BY <2>2, <2>3
<1>7. \E a : R(a)
  <2>1. \A i \in 1..N : \A t \in I[i - 1] : f[i][t] = step(t, s[i])
    BY <1>1
  <2>2. Steps(N, T, I, <<n>>, f)
    <3> HIDE DEF I, f, step, N, T, s
    <3> QED BY <1>1, <1>4, <1>5, <1>6, <2>1 DEF Steps
  <2>3. PICK g : Goes(N, T, I, <<n>>, f, g)
    <3> HIDE DEF I, f, N, T
    <3> QED BY <2>2, Iterated
  <2>4. g = [i \in 0..Len(s) |-> IF i = 0 THEN <<n>> ELSE step(g[i - 1], s[i])]
    <3> HIDE DEF f, I, step, N, s, T
    <3>1. \A i \in 1..N : i - 1 \in 0..N
      BY <1>1
    <3>2. \A i \in 1..N : g[i - 1] \in I[i - 1] /\ g[i] = f[i][g[i - 1]]
      BY <2>3, <3>1 DEF Goes
    <3>3. \A i \in 1..N : g[i] = step(g[i - 1], s[i])
      BY <2>1, <3>2
    <3>4. g = [i \in 0..N |-> IF i = 0 THEN <<n>> ELSE step(g[i - 1], s[i])]
      <4>1. DOMAIN g = 0..N /\ g = [i \in 0..N |-> g[i]] /\ g[0] = <<n>>
        BY <2>3 DEF Goes
      <4>2. \A i \in 0..N : g[i] = IF i = 0 THEN <<n>> ELSE step(g[i - 1], s[i])
        <5> SUFFICES ASSUME NEW i \in 0..N
                     PROVE  g[i] = IF i = 0 THEN <<n>> ELSE step(g[i - 1], s[i])
          OBVIOUS
        <5>1. CASE i = 0
          BY <4>1, <5>1
        <5>2. CASE i # 0
          <6>1. i \in 1..N
            BY <1>1, <5>2
          <6> QED BY <3>3, <5>2, <6>1
        <5> QED BY <5>1, <5>2
      <4> QED BY <4>1, <4>2
    <3> QED BY <1>2, <3>4
  <2> QED BY <2>4
<1>8. R(after)
  <2> HIDE DEF R
  <2> QED BY <1>7, Zenon
<1>9. after[N] \in I[N]
  <2> HIDE DEF after, I, step, N, s, T
  <2>1. after[0] = <<n>> /\ \A i \in 1..N : after[i] = step(after[i - 1], s[i])
    <3>1. after = [i \in 0..N |-> IF i = 0 THEN <<n>> ELSE step(after[i - 1], s[i])]
      BY <1>1, <1>2, <1>8
    <3>2. 0 \in 0..N /\ \A i \in 1..N : i \in 0..N /\ i # 0
      BY <1>1
    <3> QED BY <3>1, <3>2
  <2>2. Keeps(N, I, after)
    BY <1>1, <1>5, <1>6, <2>1 DEF Keeps
  <2> QED BY <2>2, Followed
<1>10. I[N] = {t \in T : IsWay(d, n, t, N)}
  BY <1>1
<1> HIDE DEF I, after, s, N
<1> QED BY <1>2, <1>3, <1>9, <1>10 DEF N

(* A way goes through nodes. *)
LEMMA PathTyped ==
  ASSUME NEW d, DOMAIN d.kids = Inner, Basis, NEW n \in DOMAIN type
  PROVE  ToSet(Path(d, n)) \subseteq DOMAIN type
<1>1. Path(d, n) \in Seq(DOMAIN type)
  BY PathIs
<1> HIDE DEF Path
<1> QED BY <1>1, InToSet

(* A way from a node that may have children goes up to one without a parent. *)
LEMMA PathUp ==
  ASSUME NEW d, Tidy(d.kids), Basis, NEW n \in Inner
  PROVE  /\ n \in ToSet(Path(d, n)) /\ ToSet(Path(d, n)) \subseteq Inner
         /\ \A x \in ToSet(Path(d, n)) : Parent(d, x) \in ToSet(Path(d, n)) \cup {None}
<1> DEFINE N == Cardinality(Inner)  s == Path(d, n)
<1>1. DOMAIN d.kids = Inner /\ None \notin Inner /\ n \in DOMAIN type /\ N \in Nat
  BY BasisFacts, FS_CardinalityType DEF Tidy
<1>2. s \in Seq(DOMAIN type) /\ IsWay(d, n, s, N)
  BY <1>1, PathIs
<1> HIDE DEF s, N
<1>3. DOMAIN s = 1..Len(s) /\ Len(s) \in Nat /\ Len(s) > 0 /\ s[1] = n
  BY <1>2 DEF IsWay
<1>4. ASSUME NEW j \in 1..(Len(s) - 1)
      PROVE  /\ s[j + 1] = Parent(d, s[j]) /\ s[j + 1] # None /\ s[j + 1] = Above(d, s[j])
             /\ s[j + 1] \in Inner
  <2>1. s[j + 1] = Parent(d, s[j]) /\ s[j + 1] # None
    BY <1>2, <1>4 DEF IsWay
  <2> QED BY <1>1, <2>1, ParentIs
<1>5. ASSUME NEW i \in 1..Len(s) PROVE s[i] \in Inner
  <2>1. CASE i = 1
    BY <1>3, <2>1
  <2>2. CASE i # 1
    <3>1. i - 1 \in 1..(Len(s) - 1) /\ (i - 1) + 1 = i
      BY <1>3, <2>2
    <3>2. s[(i - 1) + 1] \in Inner
      BY <1>4, <3>1
    <3> QED BY <3>1, <3>2
  <2> QED BY <2>1, <2>2
<1>6. ASSUME NEW i \in 1..Len(s), NEW j \in 1..Len(s), i < j, s[i] = s[j] PROVE FALSE
  <2> DEFINE S == {s[m] : m \in i..(j - 1)}
  <2>1. \A m \in i..(j - 1) : m \in 1..(Len(s) - 1) /\ m \in 1..Len(s)
    BY <1>3, <1>6
  <2>2. i \in i..(j - 1)
    BY <1>3, <1>6
  <2>3. S \in (SUBSET Inner) \ {{}}
    BY <1>5, <2>1, <2>2
  <2>4. PICK m \in i..(j - 1) : \A q \in S : s[m] \notin ToSet(d.kids[q])
    <3>1. PICK x \in S : \A q \in S : x \notin ToSet(d.kids[q])
      <4> HIDE DEF S
      <4> QED BY <2>3 DEF Tidy
    <3> QED BY <3>1
  <2>5. s[m + 1] \in S
    <3>1. CASE m + 1 = j
      BY <1>6, <2>2, <3>1
    <3>2. CASE m + 1 # j
      <4>1. m + 1 \in i..(j - 1)
        BY <1>3, <1>6, <2>4, <3>2
      <4> QED BY <4>1
    <3> QED BY <3>1, <3>2
  <2>6. s[m + 1] = Above(d, s[m]) /\ s[m + 1] # None
    BY <1>4, <2>1, <2>4
  <2>7. s[m] \in ToSet(d.kids[s[m + 1]])
    BY <1>1, <2>6, AboveIs
  <2> QED BY <2>4, <2>5, <2>7
<1>7. Parent(d, s[Len(s)]) = None
  <2> SUFFICES ASSUME Len(s) = N + 1 PROVE FALSE
    BY <1>2 DEF IsWay
  <2> DEFINE h == [i \in 1..Len(s) |-> s[i]]
  <2>1. h \in [1..Len(s) -> Inner]
    BY <1>5
  <2>2. IsFiniteSet(1..Len(s)) /\ Cardinality(1..Len(s)) = Len(s)
    BY <1>3, FS_Interval
  <2>3. IsFiniteSet(Inner) /\ Cardinality(Inner) < Cardinality(1..Len(s))
    BY <1>1, <2>2, BasisFacts DEF N
  <2>4. PICK i, j \in 1..Len(s) : i # j /\ h[i] = h[j]
    <3> HIDE DEF h
    <3> QED BY <2>1, <2>2, <2>3, FS_PigeonHole
  <2>5. i < j \/ j < i
    BY <1>3, <2>4
  <2> QED BY <1>6, <2>4, <2>5
<1>8. n \in ToSet(s)
  <2>1. 1 \in DOMAIN s
    BY <1>3
  <2> QED BY <1>3, <2>1, InToSet
<1>9. ToSet(s) \subseteq Inner
  BY <1>3, <1>5, InToSet
<1>10. ASSUME NEW x \in ToSet(s) PROVE Parent(d, x) \in ToSet(s) \cup {None}
  <2>1. PICK j \in DOMAIN s : s[j] = x
    BY InToSet
  <2>2. CASE j = Len(s)
    BY <1>7, <2>1, <2>2
  <2>3. CASE j # Len(s)
    <3>1. j \in 1..(Len(s) - 1) /\ j + 1 \in DOMAIN s
      BY <1>3, <2>1, <2>3
    <3>2. s[j + 1] = Parent(d, x)
      BY <1>4, <2>1, <3>1
    <3> QED BY <3>1, <3>2, InToSet
  <2> QED BY <2>2, <2>3
<1> QED BY <1>8, <1>9, <1>10 DEF s

Around(d, p) == ToSet(Path(d, p)) \cup {Doc}

(* A parent, all that it is in and the document have all that they are in themselves. *)
LEMMA AroundClosed ==
  ASSUME NEW d, Basis, Sound(d), NEW p \in Inner
  PROVE  Closed(d.kids, Around(d, p)) /\ p \in Around(d, p)
<1> DEFINE s == ToSet(Path(d, p))
<1>1. /\ p \in s /\ s \subseteq Inner
      /\ \A x \in s : Parent(d, x) \in s \cup {None}
  BY PathUp DEF Sound, Shape
<1> HIDE DEF s
<1>2. Doc \in Inner /\ None \notin Inner /\ type[Doc] \notin ChildTypes
  BY BasisFacts
<1>3. ASSUME NEW q \in Inner, NEW n \in s \cup {Doc}, n \in ToSet(d.kids[q])
      PROVE  q \in s \cup {Doc}
  <2>1. n # Doc
    BY <1>2, <1>3 DEF Sound, Shape
  <2>2. CASE n \in d.marks
    <3>1. n \in ToSet(d.kids[Doc])
      BY <2>2 DEF Sound, Shape, Behind
    <3>2. q = Doc
      BY <1>2, <1>3, <3>1 DEF Sound, Shape, Tidy
    <3> QED BY <3>2
  <2>3. CASE n \notin d.marks
    <3>1. Above(d, n) = q
      BY <1>2, <1>3, AboveOnly DEF Sound, Shape
    <3>2. Parent(d, n) = q
      BY <2>3, <3>1 DEF Parent
    <3> QED BY <1>1, <1>2, <1>3, <2>1, <3>2
  <2> QED BY <2>2, <2>3
<1> QED BY <1>1, <1>2, <1>3 DEF Closed, Around, s

-----------------------------------------------------------------------------
(* The steps that change a tree.  e is d with the children k. *)
Alike(e, d, k) ==
    /\ e \in Trees(type) /\ e.kids = k
    /\ e.marks = d.marks /\ e.texts = d.texts /\ e.blank = d.blank

(* The types of a tree's parts. *)
LEMMA TreesFacts ==
  ASSUME NEW d \in Trees(type)
  PROVE  /\ d.kids \in [Inner -> Seq(DOMAIN type)] /\ DOMAIN d.kids = Inner
         /\ d.marks \subseteq DOMAIN type /\ d.texts \subseteq Texts \cap DOMAIN type
         /\ d.blank \subseteq DOMAIN type
BY DEF Trees, Inner

(* Giving p other children leaves the rest of the tree. *)
LEMMA EditKids ==
  ASSUME NEW d \in Trees(type), NEW p \in Inner, NEW v \in Seq(DOMAIN type)
  PROVE  Alike([d EXCEPT !.kids[p] = v], d, [d.kids EXCEPT ![p] = v])
<1>1. [d.kids EXCEPT ![p] = v] \in [Inner -> Seq(DOMAIN type)]
  BY TreesFacts
<1> QED BY <1>1 DEF Alike, Trees, Inner

(* Telling of a node changes nothing that is looked at here. *)
LEMMA TellIs ==
  ASSUME NEW d \in Trees(type), Basis, NEW c \in DOMAIN type, NEW at \in DOMAIN type
  PROVE  Alike(Tell(d, c, at), d, d.kids)
<1> DEFINE t == ToSet(Path(d, at))
<1>1. t \subseteq DOMAIN type
  BY TreesFacts, PathTyped
<1>2. Tell(d, c, at) = d \/ Tell(d, c, at) = [d EXCEPT !.told = @ \cup {c} \cup t]
  BY DEF Tell
<1> HIDE DEF t
<1>3. d.told \cup {c} \cup t \in SUBSET DOMAIN type
  BY <1>1 DEF Trees
<1> QED BY <1>2, <1>3 DEF Alike, Trees

(* Unlink takes the node out of where it is. *)
LEMMA UnlinkIs ==
  ASSUME NEW d \in Trees(type), Tidy(d.kids), Basis, NEW c \in DOMAIN type
  PROVE  Alike(Unlink(d, c), d, Loose(d.kids, c))
<1> DEFINE p == Above(d, c)
<1>1. /\ d.kids \in [Inner -> Seq(DOMAIN type)] /\ DOMAIN d.kids = Inner /\ None \notin Inner
      /\ Inner \subseteq DOMAIN type
  BY TreesFacts, BasisFacts
<1>2. \A q \in Inner : c \notin ToSet(d.kids[q]) => Without(d.kids[q], {c}) = d.kids[q]
  BY DEF Without
<1>3. CASE p = None
  <2>1. \A q \in Inner : c \notin ToSet(d.kids[q])
    BY <1>1, <1>3, AboveIs
  <2>2. Loose(d.kids, c) = d.kids
    BY <1>1, <1>2, <2>1 DEF Loose
  <2>3. Unlink(d, c) = d
    BY <1>3 DEF Unlink
  <2> QED BY <2>2, <2>3 DEF Alike
<1>4. CASE p # None
  <2>1. p \in Inner /\ c \in ToSet(d.kids[p])
    BY <1>1, <1>4, AboveIs
  <2> DEFINE v == Without(d.kids[p], {c})  e == [d EXCEPT !.kids[p] = v]
  <2>2. v \in Seq(DOMAIN type)
    BY <1>1, <2>1, WithoutFacts
  <2>3. \A q \in Inner \ {p} : c \notin ToSet(d.kids[q])
    BY <2>1 DEF Tidy
  <2>4. Loose(d.kids, c) = [d.kids EXCEPT ![p] = v]
    <3>1. \A q \in Inner : Without(d.kids[q], {c}) = IF q = p THEN v ELSE d.kids[q]
      BY <1>2, <2>3
    <3>2. Loose(d.kids, c) = [q \in Inner |-> IF q = p THEN v ELSE d.kids[q]]
      <4> HIDE DEF v
      <4> QED BY <3>1 DEF Loose
    <3> HIDE DEF v
    <3> QED BY <1>1, <2>1, <3>2
  <2>5. Unlink(d, c) = Tell(e, c, p)
    BY <1>4 DEF Unlink
  <2> HIDE DEF p, v
  <2>6. Alike(e, d, Loose(d.kids, c))
    BY <2>1, <2>2, <2>4, EditKids
  <2> HIDE DEF e
  <2>7. Alike(Tell(e, c, p), e, e.kids)
    BY <1>1, <2>1, <2>6, TellIs DEF Alike
  <2> QED BY <2>5, <2>6, <2>7 DEF Alike
<1> QED BY <1>3, <1>4

(* Link takes the node out of where it is, and puts it where it belongs. *)
LEMMA LinkIs ==
  ASSUME NEW d \in Trees(type), Tidy(d.kids), Basis, NEW c \in DOMAIN type, NEW p \in Inner, NEW r
  PROVE  Alike(Link(d, c, p, r), d, Linked(d.kids, c, p, r))
<1> DEFINE u == Unlink(d, c)  l == Loose(d.kids, c)
           v == Inserted(l[p], c, r)  e == [u EXCEPT !.kids[p] = v]
<1>1. Alike(u, d, l)
  BY UnlinkIs
<1>2. Tidy(l)
  BY LooseFacts
<1>3. l = [q \in Inner |-> Without(d.kids[q], {c})]
  BY DEF Loose
<1>4. Link(d, c, p, r) = Tell(e, c, p)
  BY <1>1 DEF Link, Alike
<1>5. Linked(d.kids, c, p, r) = [l EXCEPT ![p] = v]
  <2>1. Linked(d.kids, c, p, r) = [q \in Inner |-> IF q = p THEN v ELSE l[q]]
    BY <1>3 DEF Linked
  <2> HIDE DEF l, v
  <2> QED BY <1>3, <2>1
<1> HIDE DEF u, l
<1>6. l[p] \in Seq(DOMAIN type)
  BY <1>2 DEF Tidy
<1>7. v \in Seq(DOMAIN type)
  BY <1>6, InsertedFacts
<1> HIDE DEF v
<1>8. Alike(e, u, [u.kids EXCEPT ![p] = v])
  BY <1>1, <1>7, EditKids DEF Alike
<1> HIDE DEF e
<1>9. p \in DOMAIN type
  BY BasisFacts
<1>10. Alike(Tell(e, c, p), e, e.kids)
  BY <1>8, <1>9, TellIs DEF Alike
<1> QED BY <1>1, <1>4, <1>5, <1>8, <1>10 DEF Alike

-----------------------------------------------------------------------------
(* What putting a node somewhere keeps.  e is d with the children k and the marks M. *)
Moved(e, d, k, M) ==
    /\ e \in Trees(type) /\ e.kids = k /\ e.marks = M /\ e.texts = d.texts /\ e.blank = d.blank

(* c may have no place yet. *)
BehindBut(d, c) ==
    /\ d.marks \subseteq ToSet(d.kids[Doc])
    /\ \A n \in NodesOf(type, d) \ {Doc, c} : \E p \in Inner : n \in ToSet(d.kids[p])
    /\ \A x, y \in DOMAIN type : Before(d.kids[Doc], x, y) /\ x \in d.marks => y \in d.marks

(* Before r, c is before all other marked nodes. *)
Fits(d, c, p, r) ==
    p = Doc => \A x \in d.marks \ {c} :
                  r \in ToSet(d.kids[Doc]) \ {c} /\ ~Before(d.kids[Doc], x, r)

(* The nodes are still a forest when c has been put under p, which is not in c. *)
LEMMA MovedShape ==
  ASSUME Basis, NEW d, Shape(d), NEW U, Closed(d.kids, U), NEW p \in U,
         NEW c \in NodesOf(type, d), type[c] \in ChildTypes, c \notin U, NEW r, NEW e, NEW M,
         Moved(e, d, Linked(d.kids, c, p, r), M)
  PROVE  Shape(e) /\ Closed(e.kids, U)
<1> DEFINE m == Linked(d.kids, c, p, r)
<1>1. p \in Inner /\ c \in DOMAIN type /\ Tidy(d.kids)
  BY DEF Closed, Shape, NodesOf
<1>2. IsLinked(m, d.kids, c, p, r) /\ Closed(m, U) /\ Tidy(m)
  BY <1>1, LinkedSets, LinkedTidy
<1> HIDE DEF m
<1>3. e \in Trees(type) /\ e.kids = m /\ e.blank = d.blank /\ NodesOf(type, e) = NodesOf(type, d)
  BY DEF Moved, NodesOf, m
<1>4. /\ ToSet(m[p]) = ToSet(d.kids[p]) \cup {c}
      /\ \A q \in Inner \ {p} : ToSet(m[q]) = ToSet(d.kids[q]) \ {c}
  BY <1>2 DEF IsLinked
<1>5. \A q \in Inner : ToSet(m[q]) \subseteq {n \in NodesOf(type, d) : type[n] \in ChildTypes}
  <2> SUFFICES ASSUME NEW q \in Inner, NEW n \in ToSet(m[q])
               PROVE  n \in NodesOf(type, d) /\ type[n] \in ChildTypes
    OBVIOUS
  <2>1. n = c \/ n \in ToSet(d.kids[q])
    BY <1>4
  <2> QED BY <2>1 DEF Shape
<1> QED BY <1>2, <1>3, <1>5 DEF Shape

(* XML: what is stored stays marked and behind when c loses its mark and goes before it. *)
LEMMA MovedBehind ==
  ASSUME Basis, NEW d, Shape(d), NEW c \in DOMAIN type, BehindBut(d, c), NEW p \in Inner, NEW r,
         Fits(d, c, p, r), NEW e, Moved(e, d, Linked(d.kids, c, p, r), d.marks \ {c})
  PROVE  Behind(e)
<1> DEFINE m == Linked(d.kids, c, p, r)  k == d.kids
<1>1. IsLinked(m, k, c, p, r)
  BY LinkedSets DEF Shape
<1>2. Doc \in Inner
  BY BasisFacts
<1> HIDE DEF m
<1>3. e.kids = m /\ e.marks = d.marks \ {c} /\ NodesOf(type, e) = NodesOf(type, d)
  BY DEF Moved, NodesOf, m
<1>4. /\ ToSet(m[p]) = ToSet(k[p]) \cup {c}
      /\ \A q \in Inner \ {p} : ToSet(m[q]) = ToSet(k[q]) \ {c}
  BY <1>1 DEF IsLinked
<1>5. e.marks \subseteq ToSet(m[Doc])
  BY <1>2, <1>3, <1>4 DEF BehindBut
<1>6. \A n \in NodesOf(type, e) \ {Doc} : \E q \in Inner : n \in ToSet(m[q])
  <2> SUFFICES ASSUME NEW n \in NodesOf(type, d) \ {Doc} PROVE \E q \in Inner : n \in ToSet(m[q])
    BY <1>3
  <2>1. CASE n = c
    BY <1>4, <2>1
  <2>2. CASE n # c
    <3>1. PICK q \in Inner : n \in ToSet(k[q])
      BY <2>2 DEF BehindBut
    <3> QED BY <1>4, <2>2, <3>1
  <2> QED BY <2>1, <2>2
<1>7. ASSUME NEW x \in DOMAIN type, NEW y \in DOMAIN type, Before(m[Doc], x, y), x \in e.marks
      PROVE  y \in e.marks
  <2>1. CASE p # Doc
    <3>1. Before(k[Doc], x, y)
      BY <1>1, <1>2, <1>7, <2>1 DEF IsLinked
    <3>2. y \in ToSet(m[Doc])
      BY <1>7, InToSet DEF Before
    <3>3. y # c
      BY <1>2, <1>4, <2>1, <3>2
    <3> QED BY <1>3, <1>7, <3>1, <3>3 DEF BehindBut
  <2>2. CASE p = Doc
    <3>1. \/ x # c /\ y # c /\ Before(k[p], x, y)
          \/ x # c /\ y = c /\ (r \in ToSet(k[p]) \ {c} => Before(k[p], x, r))
          \/ x = c /\ y # c /\ r \in ToSet(k[p]) \ {c} /\ (y = r \/ Before(k[p], r, y))
      BY <1>1, <1>7, <2>2 DEF IsLinked
    <3>2. x \in d.marks \ {c}
      BY <1>3, <1>7
    <3>3. r \in ToSet(k[p]) \ {c} /\ ~Before(k[p], x, r)
      BY <2>2, <3>2 DEF Fits
    <3>4. y # c /\ Before(k[Doc], x, y)
      BY <2>2, <3>1, <3>2, <3>3
    <3> QED BY <1>3, <3>2, <3>4 DEF BehindBut
  <2> QED BY <2>1, <2>2
<1> QED BY <1>3, <1>5, <1>6, <1>7 DEF Behind

(* XML: what is stored stays marked and behind when c gets a mark and goes behind all. *)
LEMMA LastBehind ==
  ASSUME Basis, NEW d, Shape(d), NEW c \in DOMAIN type, BehindBut(d, c), NEW e,
         Moved(e, d, Linked(d.kids, c, Doc, None), d.marks \cup {c})
  PROVE  Behind(e)
<1> DEFINE m == Linked(d.kids, c, Doc, None)  k == d.kids
<1>1. Doc \in Inner /\ None \notin DOMAIN type
  BY BasisFacts
<1>2. IsLinked(m, k, c, Doc, None)
  BY <1>1, LinkedSets DEF Shape
<1> HIDE DEF m
<1>3. e.kids = m /\ e.marks = d.marks \cup {c} /\ NodesOf(type, e) = NodesOf(type, d)
  BY DEF Moved, NodesOf, m
<1>4. /\ ToSet(m[Doc]) = ToSet(k[Doc]) \cup {c}
      /\ \A q \in Inner \ {Doc} : ToSet(m[q]) = ToSet(k[q]) \ {c}
  BY <1>2 DEF IsLinked
<1>5. None \notin ToSet(k[Doc])
  BY <1>1 DEF Shape, NodesOf
<1>6. \A n \in NodesOf(type, e) \ {Doc} : \E q \in Inner : n \in ToSet(m[q])
  <2> SUFFICES ASSUME NEW n \in NodesOf(type, d) \ {Doc} PROVE \E q \in Inner : n \in ToSet(m[q])
    BY <1>3
  <2>1. CASE n = c
    BY <1>1, <1>4, <2>1
  <2>2. CASE n # c
    <3>1. PICK q \in Inner : n \in ToSet(k[q])
      BY <2>2 DEF BehindBut
    <3> QED BY <1>4, <2>2, <3>1
  <2> QED BY <2>1, <2>2
<1>7. ASSUME NEW x \in DOMAIN type, NEW y \in DOMAIN type, Before(m[Doc], x, y), x \in e.marks
      PROVE  y \in e.marks
  <2>1. y = c \/ (x # c /\ Before(k[Doc], x, y))
    BY <1>2, <1>5, <1>7 DEF IsLinked
  <2> QED BY <1>3, <1>7, <2>1 DEF BehindBut
<1> QED BY <1>3, <1>4, <1>6, <1>7 DEF Behind, BehindBut
(* The steps themselves: Sync, Link, LinkAll, Attach, Detach, CreateText and Discard. *)
LEMMA AlikeSound == ASSUME NEW e, Sound(e), NEW x, Alike(x, e, e.kids) PROVE Sound(x)
<1>1. /\ x \in Trees(type) /\ x.kids = e.kids /\ x.marks = e.marks /\ x.blank = e.blank
      /\ NodesOf(type, x) = NodesOf(type, e)
  BY DEF Alike, NodesOf
<1>2. Shape(x)
  BY <1>1 DEF Shape, Sound
<1>3. Xml => Behind(x)
  BY <1>1 DEF Behind, Sound
<1> QED BY <1>1, <1>2, <1>3 DEF Sound

(* The document is in nothing. *)
LEMMA OnlyDoc == ASSUME Basis, NEW d, Shape(d) PROVE Closed(d.kids, {Doc})
BY BasisFacts DEF Closed, Shape

(* The nodes are still a forest when c has been taken out. *)
LEMMA LooseShape ==
  ASSUME Basis, NEW d, Shape(d), NEW U, Closed(d.kids, U), NEW c \in DOMAIN type, NEW e,
         Alike(e, d, Loose(d.kids, c))
  PROVE  Shape(e) /\ Closed(e.kids, U)
<1> DEFINE l == Loose(d.kids, c)
<1>1. Tidy(l) /\ \A q \in Inner : ToSet(l[q]) = ToSet(d.kids[q]) \ {c}
  BY LooseFacts DEF Shape
<1> HIDE DEF l
<1>2. e \in Trees(type) /\ e.kids = l /\ e.blank = d.blank /\ NodesOf(type, e) = NodesOf(type, d)
  BY DEF Alike, NodesOf, l
<1>3. Shape(e)
  BY <1>1, <1>2 DEF Shape
<1> QED BY <1>1, <1>2, <1>3 DEF Closed

-----------------------------------------------------------------------------
(* The children that a walk visits: those of the node, without what is stored. *)
LEMMA KidsFacts ==
  ASSUME Basis, NEW d, Sound(d), NEW p \in Inner
  PROVE  /\ Kids(d, p) \in Seq(DOMAIN type)
         /\ \A x \in ToSet(Kids(d, p)) :
               x \in ToSet(d.kids[p]) /\ x \in NodesOf(type, d) /\ type[x] \in ChildTypes
         /\ \A x : x \in ToSet(d.kids[p]) /\ x \notin d.marks => x \in ToSet(Kids(d, p))
         /\ p = Doc => ToSet(Kids(d, p)) \cap d.marks = {}
         /\ \A x : ~Before(Kids(d, p), x, x)
<1>1. d.kids[p] \in Seq(DOMAIN type) /\ \A x \in DOMAIN type : ~Before(d.kids[p], x, x)
  BY TreesFacts DEF Sound, Shape, Tidy
<1>2. ToSet(d.kids[p]) \subseteq {n \in NodesOf(type, d) : type[n] \in ChildTypes}
  BY DEF Sound, Shape
<1> DEFINE s == Kids(d, p)  k == d.kids[p]
<1>3. /\ s \in Seq(DOMAIN type) /\ ToSet(s) \subseteq ToSet(k)
      /\ p = Doc => ToSet(s) = ToSet(k) \ d.marks
      /\ p # Doc => s = k
      /\ \A x, y \in DOMAIN type : Before(s, x, y) => Before(k, x, y)
  <2>1. s = IF p = Doc THEN Without(k, d.marks) ELSE k
    BY DEF Kids
  <2> HIDE DEF s, k
  <2>2. k \in Seq(DOMAIN type)
    BY <1>1 DEF k
  <2>3. /\ Without(k, d.marks) \in Seq(DOMAIN type)
        /\ ToSet(Without(k, d.marks)) = ToSet(k) \ d.marks
        /\ \A x, y \in DOMAIN type : Before(Without(k, d.marks), x, y) => Before(k, x, y)
    BY <2>2, WithoutFacts
  <2> QED BY <2>1, <2>2, <2>3
<1>4. ASSUME NEW x, Before(s, x, x) PROVE FALSE
  <2>1. x \in ToSet(s)
    BY <1>4, InToSet DEF Before
  <2>2. x \in DOMAIN type
    BY <1>2, <1>3, <2>1 DEF NodesOf
  <2> QED BY <1>1, <1>3, <1>4, <2>2
<1> HIDE DEF s, k
<1>5. \A x : x \in ToSet(k) /\ x \notin d.marks => x \in ToSet(s)
  BY <1>3
<1> QED BY <1>2, <1>3, <1>4, <1>5 DEF s, k

-----------------------------------------------------------------------------
(* What is true of 0, and of a number when it is of the one before, is true of n. *)
LEMMA Climb ==
  ASSUME NEW n \in Nat, NEW P, 0 \in P, \A i \in 1..n : i - 1 \in P => i \in P
  PROVE  n \in P
<1> DEFINE S == [i \in 0..n |-> P]
           a == [i \in 0..n |-> i]
<1>1. \A i \in 0..n : S[i] = P /\ a[i] = i
  OBVIOUS
<1>2. \A i \in 1..n : i \in 0..n /\ i - 1 \in 0..n
  OBVIOUS
<1> HIDE DEF S, a
<1>3. Keeps(n, S, a)
  BY <1>1, <1>2 DEF Keeps
<1> QED BY <1>1, <1>3, Followed

(* A sequence grows from its beginnings, by one member at a time. *)
LEMMA Beginnings ==
  ASSUME NEW A, NEW s \in Seq(A)
  PROVE  /\ SubSeq(s, 1, 0) = <<>> /\ SubSeq(s, 1, Len(s)) = s
         /\ \A i \in 0..Len(s) : SubSeq(s, 1, i) \in Seq(A) /\ Len(SubSeq(s, 1, i)) = i
         /\ \A i \in 1..Len(s) : /\ SubSeq(s, 1, i) = Append(SubSeq(s, 1, i - 1), s[i])
                                 /\ s[i] \in A
<1>1. \A i \in 0..Len(s) : SubSeq(s, 1, i) \in Seq(A) /\ Len(SubSeq(s, 1, i)) = i
  OBVIOUS
<1>2. ASSUME NEW i \in 1..Len(s) PROVE SubSeq(s, 1, i) = Append(SubSeq(s, 1, i - 1), s[i])
  OBVIOUS
<1> QED BY <1>1, <1>2

(* The loop of Without: what is kept of each beginning. *)
Strained(s, S, a) ==
    /\ a[0] = <<>>
    /\ \A i \in 1..Len(s) : a[i] = IF s[i] \in S THEN a[i - 1] ELSE Append(a[i - 1], s[i])
    /\ Without(s, S) = a[Len(s)]

(* There are such values, and they are sequences. *)
LEMMA WithoutIs ==
  ASSUME NEW A, NEW s \in Seq(A), NEW S
  PROVE  \E a \in [0..Len(s) -> Seq(A)] : Strained(s, S, a)
<1>1. CASE ToSet(s) \cap S = {}
  <2> DEFINE a == [i \in 0..Len(s) |-> SubSeq(s, 1, i)]
  <2>1. a \in [0..Len(s) -> Seq(A)] /\ a[0] = <<>> /\ a[Len(s)] = s
    BY Beginnings
  <2>2. \A i \in 1..Len(s) : a[i] = Append(a[i - 1], s[i])
    <3>1. \A i \in 1..Len(s) : i \in 0..Len(s) /\ i - 1 \in 0..Len(s)
      OBVIOUS
    <3>2. \A i \in 1..Len(s) : a[i] = SubSeq(s, 1, i) /\ a[i - 1] = SubSeq(s, 1, i - 1)
      BY <3>1
    <3> HIDE DEF a
    <3> QED BY <3>2, Beginnings
  <2>3. \A i \in 1..Len(s) : s[i] \notin S
    <3>1. \A i \in 1..Len(s) : s[i] \in ToSet(s)
      BY InToSet
    <3> QED BY <1>1, <3>1
  <2>4. Without(s, S) = s
    BY <1>1 DEF Without
  <2> HIDE DEF a
  <2>5. Strained(s, S, a)
    BY <2>1, <2>2, <2>3, <2>4 DEF Strained
  <2> QED BY <2>1, <2>5
<1>2. CASE ToSet(s) \cap S # {}
  <2> DEFINE n == Len(s)
             step(t, x) == IF x \in S THEN t ELSE Append(t, x)
             R(a) == a = [i \in 0..n |-> IF i = 0 THEN <<>> ELSE step(a[i - 1], s[i])]
             I == [i \in 0..n |-> Seq(A)]
             f == [i \in 1..n |-> [t \in Seq(A) |-> step(t, s[i])]]
             after == CHOOSE a : R(a)
  <2>1. n \in Nat /\ I \in [0..n -> SUBSET Seq(A)] /\ \A i \in 1..n : s[i] \in A
    OBVIOUS
  <2>2. Without(s, S) = after[n]
    BY <1>2 DEF Without, Each
  <2>3. <<>> \in I[0]
    BY <2>1
  <2>4. ASSUME NEW i \in 1..n, NEW t \in I[i - 1] PROVE step(t, s[i]) \in I[i]
    <3>1. t \in Seq(A) /\ s[i] \in A /\ I[i] = Seq(A)
      BY <2>1
    <3> HIDE DEF n, I
    <3> QED BY <3>1
  <2>5. \E a : R(a) /\ a \in [0..n -> Seq(A)]
    <3>1. \A i \in 1..n : \A t \in I[i - 1] : f[i][t] = step(t, s[i])
      OBVIOUS
    <3>2. Steps(n, Seq(A), I, <<>>, f)
      <4> HIDE DEF I, f, step, n
      <4> QED BY <2>1, <2>3, <2>4, <3>1 DEF Steps
    <3>3. PICK g : Goes(n, Seq(A), I, <<>>, f, g)
      <4> HIDE DEF I, f, n
      <4> QED BY <3>2, Iterated
    <3>4. g = [i \in 0..n |-> IF i = 0 THEN <<>> ELSE step(g[i - 1], s[i])]
      <4> HIDE DEF f, I, step, n
      <4>1. \A i \in 1..n : g[i - 1] \in I[i - 1] /\ g[i] = step(g[i - 1], s[i])
        <5>1. \A i \in 1..n : i - 1 \in 0..n
          BY <2>1
        <5>2. \A i \in 1..n : g[i - 1] \in I[i - 1] /\ g[i] = f[i][g[i - 1]]
          BY <3>3, <5>1 DEF Goes
        <5> QED BY <3>1, <5>2
      <4> QED BY <2>1, <3>3, <4>1 DEF Goes
    <3>5. g \in [0..n -> Seq(A)]
      BY <3>3 DEF Goes
    <3> QED BY <3>4, <3>5
  <2>6. R(after)
    <3>1. \E a : R(a)
      BY <2>5
    <3> HIDE DEF R
    <3> QED BY <3>1, Zenon
  <2>7. after[0] = <<>> /\ \A i \in 1..n : after[i] = step(after[i - 1], s[i])
    <3> HIDE DEF after, step, n
    <3> QED BY <2>1, <2>6
  <2>8. after \in [0..n -> Seq(A)]
    <3>1. Keeps(n, I, after)
      <4> HIDE DEF after, step, n, I
      <4> QED BY <2>1, <2>3, <2>4, <2>7 DEF Keeps
    <3>2. \A m \in 0..n : after[m] \in Seq(A)
      <4> SUFFICES ASSUME NEW m \in 0..n PROVE after[m] \in Seq(A)
        OBVIOUS
      <4>1. m \in Nat /\ \A i \in 1..m : i \in 1..n
        BY <2>1
      <4>2. Keeps(m, I, after)
        <5> HIDE DEF after, I, n
        <5> QED BY <3>1, <4>1 DEF Keeps
      <4>3. after[m] \in I[m]
        <5> HIDE DEF after, I, n
        <5> QED BY <4>2, Followed
      <4>4. I[m] = Seq(A)
        OBVIOUS
      <4> HIDE DEF after, I
      <4> QED BY <4>3, <4>4
    <3>3. after = [i \in 0..n |-> after[i]]
      <4>1. DOMAIN after = 0..n /\ \E F : after = [i \in 0..n |-> F[i]]
        <5>1. after = [i \in 0..n |-> IF i = 0 THEN <<>> ELSE step(after[i - 1], s[i])]
          BY <2>6
        <5> DEFINE F == [i \in 0..n |-> IF i = 0 THEN <<>> ELSE step(after[i - 1], s[i])]
        <5>2. F = [i \in 0..n |-> F[i]]
          OBVIOUS
        <5>3. after = F
          BY <5>1
        <5> HIDE DEF F, after, n
        <5> QED BY <5>2, <5>3
      <4> HIDE DEF after, n
      <4> QED BY <4>1
    <3> HIDE DEF after, n
    <3> QED BY <3>2, <3>3
  <2>9. Strained(s, S, after)
    <3> HIDE DEF after
    <3> QED BY <2>2, <2>7 DEF Strained
  <2> HIDE DEF after
  <2> QED BY <2>8, <2>9
<1> QED BY <1>1, <1>2

(* Nothing is kept of nothing. *)
LEMMA WithoutNone == ASSUME NEW S PROVE Without(<<>>, S) = <<>>
<1>1. ToSet(<<>>) = {}
  <2>1. ASSUME NEW x \in ToSet(<<>>) PROVE FALSE
    <3>1. \E k \in DOMAIN <<>> : <<>>[k] = x
      BY <2>1, InToSet
    <3>2. DOMAIN <<>> = {}
      OBVIOUS
    <3> QED BY <3>1, <3>2
  <2> QED BY <2>1
<1> QED BY <1>1 DEF Without

(* One more member: it is kept, or it is not. *)
LEMMA WithoutAppend ==
  ASSUME NEW A, NEW s \in Seq(A), NEW x \in A, NEW S
  PROVE  /\ x \in S => Without(Append(s, x), S) = Without(s, S)
         /\ x \notin S => Without(Append(s, x), S) = Append(Without(s, S), x)
<1> DEFINE n == Len(s)
           t == Append(s, x)
<1>1. t \in Seq(A) /\ Len(t) = n + 1 /\ t[n + 1] = x /\ n \in Nat /\ \A i \in 1..n : t[i] = s[i]
  OBVIOUS
<1> HIDE DEF t
<1>2. PICK a \in [0..n -> Seq(A)] : Strained(s, S, a)
  BY WithoutIs
<1>3. PICK b \in [0..(n + 1) -> Seq(A)] : Strained(t, S, b)
  BY <1>1, WithoutIs
<1>4. b[n] = a[n]
  <2> DEFINE P == {i \in 0..n : b[i] = a[i]}
  <2>1. 0 \in P
    BY <1>1, <1>2, <1>3 DEF Strained
  <2>2. ASSUME NEW i \in 1..n, i - 1 \in P PROVE i \in P
    <3>1. i \in 1..Len(t) /\ i \in 1..Len(s) /\ i \in 0..n /\ b[i - 1] = a[i - 1] /\ t[i] = s[i]
      BY <1>1, <2>2
    <3>2. b[i] = IF t[i] \in S THEN b[i - 1] ELSE Append(b[i - 1], t[i])
      BY <1>3, <3>1 DEF Strained
    <3>3. a[i] = IF s[i] \in S THEN a[i - 1] ELSE Append(a[i - 1], s[i])
      BY <1>2, <3>1 DEF Strained
    <3> QED BY <3>1, <3>2, <3>3
  <2>3. n \in P
    <3> HIDE DEF P
    <3> QED BY <1>1, <2>1, <2>2, Climb
  <2> QED BY <2>3
<1>5. b[n + 1] = IF x \in S THEN b[n] ELSE Append(b[n], x)
  <2>1. n + 1 \in 1..Len(t) /\ (n + 1) - 1 = n
    BY <1>1
  <2> QED BY <1>1, <1>3, <2>1 DEF Strained
<1>6. Without(t, S) = b[n + 1] /\ Without(s, S) = a[n]
  BY <1>1, <1>2, <1>3 DEF Strained
<1> QED BY <1>4, <1>5, <1>6 DEF t

(* Appending to the second of two sequences. *)
LEMMA AppendBehind ==
  ASSUME NEW A, NEW u \in Seq(A), NEW v \in Seq(A), NEW x \in A
  PROVE  u \o v \in Seq(A) /\ u \o Append(v, x) = Append(u \o v, x)
OBVIOUS

(* The parts of two sequences that are kept, one behind the other. *)
LEMMA WithoutConcat ==
  ASSUME NEW A, NEW u \in Seq(A), NEW v \in Seq(A), NEW S
  PROVE  Without(u \o v, S) = Without(u, S) \o Without(v, S)
<1> DEFINE pre(i) == SubSeq(v, 1, i)
           P == {i \in 0..Len(v) : Without(u \o pre(i), S) = Without(u, S) \o Without(pre(i), S)}
<1>1. 0 \in P
  <2>1. pre(0) = <<>>
    BY Beginnings
  <2>2. Without(<<>>, S) = <<>>
    BY WithoutNone
  <2>3. Without(u, S) \in Seq(A)
    BY WithoutFacts
  <2>4. u \o <<>> = u /\ Without(u, S) \o <<>> = Without(u, S)
    BY <2>3
  <2>5. 0 \in 0..Len(v)
    OBVIOUS
  <2> QED BY <2>1, <2>2, <2>4, <2>5
<1>2. ASSUME NEW i \in 1..Len(v), i - 1 \in P PROVE i \in P
  <2> DEFINE w == pre(i - 1)
  <2>1. w \in Seq(A) /\ v[i] \in A /\ pre(i) = Append(w, v[i]) /\ i \in 0..Len(v)
    <3>1. i - 1 \in 0..Len(v) /\ i \in 0..Len(v)
      OBVIOUS
    <3> QED BY <3>1, Beginnings
  <2>2. Without(u \o w, S) = Without(u, S) \o Without(w, S)
    BY <1>2
  <2> HIDE DEF w
  <2>3. u \o w \in Seq(A) /\ u \o Append(w, v[i]) = Append(u \o w, v[i])
    BY <2>1, AppendBehind
  <2>4. Without(u, S) \in Seq(A) /\ Without(w, S) \in Seq(A)
    BY <2>1, WithoutFacts
  <2>5. CASE v[i] \in S
    <3>1. Without(Append(u \o w, v[i]), S) = Without(u \o w, S)
      BY <2>1, <2>3, <2>5, WithoutAppend
    <3>2. Without(Append(w, v[i]), S) = Without(w, S)
      BY <2>1, <2>5, WithoutAppend
    <3> QED BY <2>1, <2>2, <2>3, <3>1, <3>2
  <2>6. CASE v[i] \notin S
    <3>1. Without(Append(u \o w, v[i]), S) = Append(Without(u \o w, S), v[i])
      <4> DEFINE z == u \o w
      <4>1. z \in Seq(A)
        BY <2>3
      <4> HIDE DEF z
      <4>2. Without(Append(z, v[i]), S) = Append(Without(z, S), v[i])
        BY <2>1, <2>6, <4>1, WithoutAppend
      <4> QED BY <4>2 DEF z
    <3>2. Without(Append(w, v[i]), S) = Append(Without(w, S), v[i])
      BY <2>1, <2>6, WithoutAppend
    <3>3. Without(u, S) \o Append(Without(w, S), v[i])
            = Append(Without(u, S) \o Without(w, S), v[i])
      BY <2>1, <2>4, AppendBehind
    <3> QED BY <2>1, <2>2, <2>3, <3>1, <3>2, <3>3
  <2> QED BY <2>5, <2>6
<1>3. Len(v) \in P
  <2>1. Len(v) \in Nat
    OBVIOUS
  <2> HIDE DEF P
  <2> QED BY <1>1, <1>2, <2>1, Climb
<1> QED BY <1>3, Beginnings

(* What is not there need not be left out. *)
LEMMA WithoutMore ==
  ASSUME NEW A, NEW s \in Seq(A), NEW S, NEW T, S \cap A = T \cap A
  PROVE  Without(s, S) = Without(s, T)
<1> DEFINE P == {i \in 0..Len(s) : Without(SubSeq(s, 1, i), S) = Without(SubSeq(s, 1, i), T)}
<1>1. 0 \in P
  <2>1. SubSeq(s, 1, 0) = <<>> /\ 0 \in 0..Len(s)
    BY Beginnings
  <2>2. Without(<<>>, S) = <<>> /\ Without(<<>>, T) = <<>>
    BY WithoutNone
  <2> QED BY <2>1, <2>2
<1>2. ASSUME NEW i \in 1..Len(s), i - 1 \in P PROVE i \in P
  <2> DEFINE w == SubSeq(s, 1, i - 1)
  <2>1. w \in Seq(A) /\ s[i] \in A /\ SubSeq(s, 1, i) = Append(w, s[i]) /\ i \in 0..Len(s)
    <3>1. i - 1 \in 0..Len(s) /\ i \in 0..Len(s)
      OBVIOUS
    <3> QED BY <3>1, Beginnings
  <2>2. Without(w, S) = Without(w, T)
    BY <1>2
  <2> HIDE DEF w
  <2>3. s[i] \in S <=> s[i] \in T
    BY <2>1
  <2>4. CASE s[i] \in S
    <3>1. Without(Append(w, s[i]), S) = Without(w, S)
      BY <2>1, <2>4, WithoutAppend
    <3>2. Without(Append(w, s[i]), T) = Without(w, T)
      BY <2>1, <2>3, <2>4, WithoutAppend
    <3> QED BY <2>1, <2>2, <3>1, <3>2
  <2>5. CASE s[i] \notin S
    <3>1. Without(Append(w, s[i]), S) = Append(Without(w, S), s[i])
      BY <2>1, <2>5, WithoutAppend
    <3>2. Without(Append(w, s[i]), T) = Append(Without(w, T), s[i])
      BY <2>1, <2>3, <2>5, WithoutAppend
    <3> QED BY <2>1, <2>2, <3>1, <3>2
  <2> QED BY <2>4, <2>5
<1>3. Len(s) \in P
  <2>1. Len(s) \in Nat
    OBVIOUS
  <2> HIDE DEF P
  <2> QED BY <1>1, <1>2, <2>1, Climb
<1> QED BY <1>3, Beginnings

(* Leaving out what would be left out anyway. *)
LEMMA WithoutTwice ==
  ASSUME NEW A, NEW s \in Seq(A), NEW S, NEW T
  PROVE  Without(Without(s, S), T) = Without(s, S \cup T)
<1> DEFINE P == {i \in 0..Len(s) :
                    Without(Without(SubSeq(s, 1, i), S), T) = Without(SubSeq(s, 1, i), S \cup T)}
<1>1. 0 \in P
  <2>1. SubSeq(s, 1, 0) = <<>> /\ 0 \in 0..Len(s)
    BY Beginnings
  <2>2. Without(<<>>, S) = <<>> /\ Without(<<>>, T) = <<>> /\ Without(<<>>, S \cup T) = <<>>
    BY WithoutNone
  <2> QED BY <2>1, <2>2
<1>2. ASSUME NEW i \in 1..Len(s), i - 1 \in P PROVE i \in P
  <2> DEFINE w == SubSeq(s, 1, i - 1)
  <2>1. w \in Seq(A) /\ s[i] \in A /\ SubSeq(s, 1, i) = Append(w, s[i]) /\ i \in 0..Len(s)
    <3>1. i - 1 \in 0..Len(s) /\ i \in 0..Len(s)
      OBVIOUS
    <3> QED BY <3>1, Beginnings
  <2>2. Without(Without(w, S), T) = Without(w, S \cup T)
    BY <1>2
  <2> HIDE DEF w
  <2>3. Without(w, S) \in Seq(A)
    BY <2>1, WithoutFacts
  <2>4. CASE s[i] \in S
    <3>1. Without(Append(w, s[i]), S) = Without(w, S)
      BY <2>1, <2>4, WithoutAppend
    <3>2. Without(Append(w, s[i]), S \cup T) = Without(w, S \cup T)
      BY <2>1, <2>4, WithoutAppend
    <3> QED BY <2>1, <2>2, <3>1, <3>2
  <2>5. CASE s[i] \notin S
    <3>1. Without(Append(w, s[i]), S) = Append(Without(w, S), s[i])
      BY <2>1, <2>5, WithoutAppend
    <3>2. CASE s[i] \in T
      <4>1. Without(Append(Without(w, S), s[i]), T) = Without(Without(w, S), T)
        BY <2>1, <2>3, <3>2, WithoutAppend
      <4>2. Without(Append(w, s[i]), S \cup T) = Without(w, S \cup T)
        BY <2>1, <3>2, WithoutAppend
      <4> QED BY <2>1, <2>2, <3>1, <4>1, <4>2
    <3>3. CASE s[i] \notin T
      <4>1. Without(Append(Without(w, S), s[i]), T) = Append(Without(Without(w, S), T), s[i])
        BY <2>1, <2>3, <3>3, WithoutAppend
      <4>2. Without(Append(w, s[i]), S \cup T) = Append(Without(w, S \cup T), s[i])
        <5> DEFINE Z == S \cup T
        <5>1. s[i] \notin Z
          BY <2>5, <3>3
        <5> HIDE DEF Z
        <5>2. Without(Append(w, s[i]), Z) = Append(Without(w, Z), s[i])
          BY <2>1, <5>1, WithoutAppend
        <5> QED BY <5>2 DEF Z
      <4> QED BY <2>1, <2>2, <3>1, <4>1, <4>2
    <3> QED BY <3>2, <3>3
  <2> QED BY <2>4, <2>5
<1>3. Len(s) \in P
  <2>1. Len(s) \in Nat
    OBVIOUS
  <2> HIDE DEF P
  <2> QED BY <1>1, <1>2, <2>1, Climb
<1> QED BY <1>3, Beginnings

(* A member that is left out may have been put anywhere. *)
LEMMA WithoutInserted ==
  ASSUME NEW A, NEW s \in Seq(A), NEW x \in A, NEW r, NEW S, x \in S
  PROVE  Without(Inserted(s, x, r), S) = Without(s, S)
<1>1. CASE r \notin ToSet(s)
  <2>1. Inserted(s, x, r) = Append(s, x)
    BY <1>1 DEF Inserted
  <2> QED BY <2>1, WithoutAppend
<1>2. CASE r \in ToSet(s)
  <2> DEFINE i == Index(s, r)
             u == SubSeq(s, 1, i - 1)
             v == SubSeq(s, i, Len(s))
  <2>1. i \in 1..Len(s)
    BY <1>2, IndexIs
  <2> HIDE DEF i
  <2>2. u \in Seq(A) /\ v \in Seq(A) /\ s = u \o v
    BY <2>1
  <2>3. Inserted(s, x, r) = (u \o <<x>>) \o v
    BY <1>2 DEF Inserted, i
  <2> HIDE DEF u, v
  <2>4. u \o <<x>> = Append(u, x) /\ Append(u, x) \in Seq(A)
    BY <2>2
  <2>5. Without((u \o <<x>>) \o v, S) = Without(Append(u, x), S) \o Without(v, S)
    <3>1. Without(Append(u, x) \o v, S) = Without(Append(u, x), S) \o Without(v, S)
      <4> DEFINE z == Append(u, x)
      <4>1. z \in Seq(A)
        BY <2>4
      <4> HIDE DEF z
      <4>2. Without(z \o v, S) = Without(z, S) \o Without(v, S)
        BY <2>2, <4>1, WithoutConcat
      <4> QED BY <4>2 DEF z
    <3>2. u \o <<x>> = Append(u, x)
      BY <2>4
    <3> QED BY <3>1, <3>2, Zenon
  <2>6. Without(Append(u, x), S) = Without(u, S)
    BY <2>2, WithoutAppend
  <2>7. Without(u \o v, S) = Without(u, S) \o Without(v, S)
    BY <2>2, WithoutConcat
  <2> QED BY <2>2, <2>3, <2>5, <2>6, <2>7
<1> QED BY <1>1, <1>2

(* The loop of Joined: what the sequences up to each make. *)
Chained(ss, a) ==
    /\ a[0] = <<>> /\ \A i \in 1..Len(ss) : a[i] = a[i - 1] \o ss[i]
    /\ Joined(ss) = a[Len(ss)]

(* There are such values, and they are sequences. *)
LEMMA JoinedLoop ==
  ASSUME NEW A, NEW ss \in Seq(Seq(A))
  PROVE  \E a \in [0..Len(ss) -> Seq(A)] : Chained(ss, a)
<1> DEFINE n == Len(ss)
           step(t, x) == t \o x
           R(a) == a = [i \in 0..n |-> IF i = 0 THEN <<>> ELSE step(a[i - 1], ss[i])]
           I == [i \in 0..n |-> Seq(A)]
           f == [i \in 1..n |-> [t \in Seq(A) |-> step(t, ss[i])]]
           after == CHOOSE a : R(a)
<1>1. n \in Nat /\ I \in [0..n -> SUBSET Seq(A)] /\ \A i \in 1..n : ss[i] \in Seq(A)
  OBVIOUS
<1>2. Joined(ss) = after[n]
  BY DEF Joined, Each
<1>3. <<>> \in I[0]
  BY <1>1
<1>4. ASSUME NEW i \in 1..n, NEW t \in I[i - 1] PROVE step(t, ss[i]) \in I[i]
  <2>1. t \in Seq(A) /\ ss[i] \in Seq(A) /\ I[i] = Seq(A)
    BY <1>1
  <2> HIDE DEF n, I
  <2>2. step(t, ss[i]) \in Seq(A)
    BY <2>1
  <2> QED BY <2>1, <2>2
<1>5. \E a : R(a)
  <2>1. \A i \in 1..n : \A t \in I[i - 1] : f[i][t] = step(t, ss[i])
    <3>1. \A i \in 1..n : i - 1 \in 0..n /\ I[i - 1] = Seq(A)
      BY <1>1
    <3> HIDE DEF I, n, step
    <3> QED BY <3>1
  <2>2. Steps(n, Seq(A), I, <<>>, f)
    <3> HIDE DEF I, f, step, n
    <3> QED BY <1>1, <1>3, <1>4, <2>1 DEF Steps
  <2>3. PICK g : Goes(n, Seq(A), I, <<>>, f, g)
    <3> HIDE DEF I, f, n
    <3> QED BY <2>2, Iterated
  <2>4. g = [i \in 0..n |-> IF i = 0 THEN <<>> ELSE step(g[i - 1], ss[i])]
    <3> HIDE DEF f, I, step, n
    <3>1. \A i \in 1..n : g[i - 1] \in I[i - 1] /\ g[i] = step(g[i - 1], ss[i])
      <4>1. \A i \in 1..n : i - 1 \in 0..n
        BY <1>1
      <4>2. \A i \in 1..n : g[i - 1] \in I[i - 1] /\ g[i] = f[i][g[i - 1]]
        BY <2>3, <4>1 DEF Goes
      <4> QED BY <2>1, <4>2
    <3> QED BY <1>1, <2>3, <3>1 DEF Goes
  <2> QED BY <2>4
<1>6. R(after)
  <2> HIDE DEF R
  <2> QED BY <1>5, Zenon
<1>7. after[0] = <<>> /\ \A i \in 1..n : after[i] = step(after[i - 1], ss[i])
  <2> HIDE DEF after, step, n
  <2> QED BY <1>1, <1>6
<1>8. after \in [0..n -> Seq(A)]
  <2>1. \A m \in 0..n : after[m] \in Seq(A)
    <3> SUFFICES ASSUME NEW m \in 0..n PROVE after[m] \in Seq(A)
      OBVIOUS
    <3>1. m \in Nat /\ \A i \in 1..m : i \in 1..n
      BY <1>1
    <3>2. Keeps(m, I, after)
      <4> HIDE DEF after, step, n, I
      <4> QED BY <1>3, <1>4, <1>7, <3>1 DEF Keeps
    <3>3. after[m] \in I[m]
      <4> HIDE DEF after, I, n
      <4> QED BY <3>2, Followed
    <3>4. I[m] = Seq(A)
      OBVIOUS
    <3> HIDE DEF after, I
    <3> QED BY <3>3, <3>4
  <2>2. DOMAIN after = 0..n /\ after = [i \in 0..n |-> after[i]]
    <3> DEFINE F == [i \in 0..n |-> IF i = 0 THEN <<>> ELSE step(after[i - 1], ss[i])]
    <3>1. DOMAIN F = 0..n /\ F = [i \in 0..n |-> F[i]]
      OBVIOUS
    <3>2. after = F
      BY <1>6
    <3> HIDE DEF F, after, n
    <3> QED BY <3>1, <3>2
  <2> HIDE DEF after, n
  <2> QED BY <2>1, <2>2
<1>9. Chained(ss, after)
  <2> HIDE DEF after
  <2> QED BY <1>2, <1>7 DEF Chained
<1> HIDE DEF after
<1> QED BY <1>8, <1>9

(* One more sequence is put behind the others. *)
LEMMA JoinedAppend ==
  ASSUME NEW A, NEW ss \in Seq(Seq(A)), NEW x \in Seq(A)
  PROVE  Joined(Append(ss, x)) = Joined(ss) \o x /\ Joined(ss) \in Seq(A)
<1> DEFINE n == Len(ss)
           t == Append(ss, x)
<1>1. t \in Seq(Seq(A)) /\ Len(t) = n + 1 /\ t[n + 1] = x /\ n \in Nat
      /\ \A i \in 1..n : t[i] = ss[i]
  OBVIOUS
<1> HIDE DEF t
<1>2. PICK a \in [0..n -> Seq(A)] : Chained(ss, a)
  BY JoinedLoop
<1>3. PICK b \in [0..(n + 1) -> Seq(A)] : Chained(t, b)
  BY <1>1, JoinedLoop
<1>4. b[n] = a[n]
  <2> DEFINE P == {i \in 0..n : b[i] = a[i]}
  <2>1. 0 \in P
    BY <1>1, <1>2, <1>3 DEF Chained
  <2>2. ASSUME NEW i \in 1..n, i - 1 \in P PROVE i \in P
    <3>1. i \in 1..Len(t) /\ i \in 1..Len(ss) /\ i \in 0..n /\ b[i - 1] = a[i - 1] /\ t[i] = ss[i]
      BY <1>1, <2>2
    <3>2. b[i] = b[i - 1] \o t[i]
      BY <1>3, <3>1 DEF Chained
    <3>3. a[i] = a[i - 1] \o ss[i]
      BY <1>2, <3>1 DEF Chained
    <3> QED BY <3>1, <3>2, <3>3
  <2>3. n \in P
    <3> HIDE DEF P
    <3> QED BY <1>1, <2>1, <2>2, Climb
  <2> QED BY <2>3
<1>5. b[n + 1] = b[n] \o x
  <2>1. n + 1 \in 1..Len(t) /\ (n + 1) - 1 = n
    BY <1>1
  <2>2. b[n + 1] = b[(n + 1) - 1] \o t[n + 1]
    BY <1>3, <2>1 DEF Chained
  <2> QED BY <1>1, <2>1, <2>2
<1>6. Joined(t) = b[n + 1] /\ Joined(ss) = a[n]
  BY <1>1, <1>2, <1>3 DEF Chained
<1>7. n \in 0..n
  BY <1>1
<1> QED BY <1>2, <1>4, <1>5, <1>6, <1>7 DEF t

(* Sequences put one behind the other. *)
LEMMA JoinedIs ==
  ASSUME NEW A, NEW ss \in Seq(Seq(A))
  PROVE  Joined(ss) \in Seq(A)
<1>1. PICK a \in [0..Len(ss) -> Seq(A)] : Chained(ss, a)
  BY JoinedLoop
<1>2. Len(ss) \in 0..Len(ss)
  OBVIOUS
<1> QED BY <1>1, <1>2 DEF Chained

(* What g gives for each member of s, one behind the other. *)
Gather(s, g) == Joined([j \in DOMAIN s |-> g[s[j]]])

(* What is gathered is a sequence. *)
LEMMA GatherIs ==
  ASSUME NEW A, NEW B, NEW s \in Seq(A), NEW g \in [A -> Seq(B)]
  PROVE  Gather(s, g) \in Seq(B) /\ [j \in DOMAIN s |-> g[s[j]]] \in Seq(Seq(B))
<1> DEFINE v == [j \in DOMAIN s |-> g[s[j]]]
<1>1. v \in Seq(Seq(B))
  <2>1. Len(s) \in Nat /\ DOMAIN s = 1..Len(s) /\ \A j \in 1..Len(s) : s[j] \in A
    OBVIOUS
  <2>2. v \in [1..Len(s) -> Seq(B)]
    BY <2>1
  <2> DEFINE C == Seq(B)
             n == Len(s)
  <2>3. v \in [1..n -> C] /\ n \in Nat
    BY <2>1, <2>2
  <2> HIDE DEF v, C, n
  <2>4. v \in Seq(C)
    BY <2>3
  <2> QED BY <2>4 DEF C
<1> HIDE DEF v
<1>2. Joined(v) \in Seq(B)
  BY <1>1, JoinedIs
<1> QED BY <1>1, <1>2 DEF v, Gather

(* Nothing is gathered from nothing. *)
LEMMA GatherNone == ASSUME NEW g PROVE Gather(<<>>, g) = <<>>
<1> DEFINE v == [j \in DOMAIN <<>> |-> g[<<>>[j]]]
<1>1. v = <<>>
  OBVIOUS
<1>2. <<>> \in Seq(Seq({})) /\ Len(<<>>) = 0
  OBVIOUS
<1>3. PICK a \in [0..Len(<<>>) -> Seq({})] : Chained(<<>>, a)
  BY <1>2, JoinedLoop
<1>4. Joined(<<>>) = <<>>
  BY <1>2, <1>3 DEF Chained
<1> HIDE DEF v
<1> QED BY <1>1, <1>4 DEF Gather, v

(* One more member gives what it has at the end. *)
LEMMA GatherAppend ==
  ASSUME NEW A, NEW B, NEW s \in Seq(A), NEW g \in [A -> Seq(B)], NEW x \in A
  PROVE  Gather(Append(s, x), g) = Gather(s, g) \o g[x]
<1> DEFINE v == [j \in DOMAIN s |-> g[s[j]]]
           w == [j \in DOMAIN Append(s, x) |-> g[Append(s, x)[j]]]
<1>1. v \in Seq(Seq(B)) /\ g[x] \in Seq(B)
  BY GatherIs
<1>2. w = Append(v, g[x])
  <2>1. Len(s) \in Nat /\ DOMAIN s = 1..Len(s) /\ DOMAIN Append(s, x) = 1..(Len(s) + 1)
    OBVIOUS
  <2>2. Append(s, x)[Len(s) + 1] = x /\ \A j \in 1..Len(s) : Append(s, x)[j] = s[j]
    OBVIOUS
  <2>3. DOMAIN v = 1..Len(s) /\ Len(v) = Len(s)
    BY <2>1
  <2>4. Append(v, g[x]) = [j \in 1..(Len(s) + 1) |-> IF j = Len(s) + 1 THEN g[x] ELSE v[j]]
    <3> HIDE DEF v
    <3> QED BY <1>1, <2>3
  <2>5. \A j \in 1..(Len(s) + 1) : g[Append(s, x)[j]] = IF j = Len(s) + 1 THEN g[x] ELSE v[j]
    <3>1. \A j \in 1..(Len(s) + 1) : j = Len(s) + 1 \/ j \in 1..Len(s)
      BY <2>1
    <3> QED BY <2>1, <2>2, <3>1
  <2>6. w = [j \in 1..(Len(s) + 1) |-> g[Append(s, x)[j]]]
    BY <2>1
  <2> HIDE DEF v, w
  <2> QED BY <2>4, <2>5, <2>6
<1> HIDE DEF v, w
<1>3. Joined(Append(v, g[x])) = Joined(v) \o g[x]
  BY <1>1, JoinedAppend
<1> QED BY <1>2, <1>3 DEF Gather, v, w

(* Members that give nothing to keep need not be gathered from: h keeps what is not in S of   *)
(* what g gives, which is nothing for the members of T.                                       *)
Keeping(h, g, A, S, T) ==
    h = [x \in A |-> Without(g[x], S)] /\ \A x \in A \cap T : h[x] = <<>>

(* What is kept of all that is gathered is gathered from what is kept. *)
LEMMA GatherKept ==
  ASSUME NEW A, NEW B, NEW s \in Seq(A), NEW g \in [A -> Seq(B)], NEW S, NEW T,
         NEW h, Keeping(h, g, A, S, T)
  PROVE  Without(Gather(s, g), S) = Gather(Without(s, T), h)
<1> DEFINE pre(i) == SubSeq(s, 1, i)
           P == {i \in 0..Len(s) : Without(Gather(pre(i), g), S) = Gather(Without(pre(i), T), h)}
<1>0. h \in [A -> Seq(B)] /\ \A x \in A : h[x] = Without(g[x], S) /\ g[x] \in Seq(B)
  <2>1. \A x \in A : g[x] \in Seq(B)
    OBVIOUS
  <2>2. \A x \in A : Without(g[x], S) \in Seq(B)
    BY <2>1, WithoutFacts
  <2> QED BY <2>1, <2>2 DEF Keeping
<1>1. 0 \in P
  <2>1. pre(0) = <<>> /\ 0 \in 0..Len(s)
    BY Beginnings
  <2>2. Gather(<<>>, g) = <<>> /\ Gather(<<>>, h) = <<>> /\ Without(<<>>, S) = <<>>
        /\ Without(<<>>, T) = <<>>
    BY GatherNone, WithoutNone
  <2> QED BY <2>1, <2>2
<1>2. ASSUME NEW i \in 1..Len(s), i - 1 \in P PROVE i \in P
  <2> DEFINE w == pre(i - 1)
             x == s[i]
  <2>1. w \in Seq(A) /\ x \in A /\ pre(i) = Append(w, x) /\ i \in 0..Len(s)
    <3>1. i - 1 \in 0..Len(s) /\ i \in 0..Len(s)
      OBVIOUS
    <3> QED BY <3>1, Beginnings
  <2>2. Without(Gather(w, g), S) = Gather(Without(w, T), h)
    BY <1>2
  <2> HIDE DEF w, x
  <2>3. Gather(Append(w, x), g) = Gather(w, g) \o g[x]
    BY <2>1, GatherAppend
  <2>4. Gather(w, g) \in Seq(B) /\ g[x] \in Seq(B) /\ h[x] = Without(g[x], S) /\ h[x] \in Seq(B)
    BY <1>0, <2>1, GatherIs
  <2>5. Without(Gather(w, g) \o g[x], S) = Without(Gather(w, g), S) \o h[x]
    <3> DEFINE u == Gather(w, g)
               v == g[x]
    <3>1. u \in Seq(B) /\ v \in Seq(B)
      BY <2>4
    <3> HIDE DEF u, v
    <3>2. Without(u \o v, S) = Without(u, S) \o Without(v, S)
      BY <3>1, WithoutConcat
    <3> QED BY <2>4, <3>2 DEF u, v
  <2>6. Without(w, T) \in Seq(A)
    BY <2>1, WithoutFacts
  <2>7. CASE x \in T
    <3>1. Without(Append(w, x), T) = Without(w, T)
      BY <2>1, <2>7, WithoutAppend
    <3>2. h[x] = <<>>
      BY <2>1, <2>7 DEF Keeping
    <3>3. Gather(Without(w, T), h) \in Seq(B)
      BY <1>0, <2>6, GatherIs
    <3>4. Gather(Without(w, T), h) \o <<>> = Gather(Without(w, T), h)
      BY <3>3
    <3> QED BY <2>1, <2>2, <2>3, <2>5, <3>1, <3>2, <3>4
  <2>8. CASE x \notin T
    <3>1. Without(Append(w, x), T) = Append(Without(w, T), x)
      BY <2>1, <2>8, WithoutAppend
    <3>2. Gather(Append(Without(w, T), x), h) = Gather(Without(w, T), h) \o h[x]
      <4> DEFINE z == Without(w, T)
      <4>1. z \in Seq(A) /\ x \in A /\ h \in [A -> Seq(B)]
        BY <1>0, <2>1, <2>6
      <4> HIDE DEF z
      <4>2. Gather(Append(z, x), h) = Gather(z, h) \o h[x]
        BY <4>1, GatherAppend
      <4> QED BY <4>2 DEF z
    <3> QED BY <2>1, <2>2, <2>3, <2>5, <3>1, <3>2
  <2> QED BY <2>7, <2>8
<1>3. Len(s) \in P
  <2>1. Len(s) \in Nat
    OBVIOUS
  <2> HIDE DEF P
  <2> QED BY <1>1, <1>2, <2>1, Climb
<1> QED BY <1>3, Beginnings

(* Gathering asks only for the members. *)
LEMMA GatherSame ==
  ASSUME NEW s, NEW g, NEW h, \A x \in ToSet(s) : g[x] = h[x]
  PROVE  Gather(s, g) = Gather(s, h)
<1>1. \A j \in DOMAIN s : g[s[j]] = h[s[j]]
  BY InToSet
<1>2. [j \in DOMAIN s |-> g[s[j]]] = [j \in DOMAIN s |-> h[s[j]]]
  BY <1>1
<1> QED BY <1>2 DEF Gather

(* The loop of Beneath: what is beneath each node, as far as so many levels. *)
Deep(d, b) ==
    LET m == Cardinality(Inner)
    IN /\ b[0] = [n \in DOMAIN type |-> <<n>>]
       /\ \A i \in 1..m : \A n \in DOMAIN type :
            b[i][n] = <<n>> \o Gather(IF n \in Inner THEN Kids(d, n) ELSE <<>>, b[i - 1])
       /\ Beneath(d) = b[m]

(* There are such values. *)
LEMMA BeneathLoop ==
  ASSUME Basis, NEW d, Sound(d)
  PROVE  \E b \in [0..Cardinality(Inner) -> [DOMAIN type -> Seq(DOMAIN type)]] : Deep(d, b)
<1> DEFINE b0 == [n \in DOMAIN type |-> <<n>>]
           t == Counted(Cardinality(Inner))
<1>0. Len(t) \in Nat /\ Len(t) = Cardinality(Inner)
  <2>1. Cardinality(Inner) \in Nat
    BY BasisFacts, FS_CardinalityType
  <2> QED BY <2>1 DEF Counted
<1> HIDE DEF t
<1> DEFINE n0 == Len(t)
           T == [DOMAIN type -> Seq(DOMAIN type)]
           step(e, x) == [n \in DOMAIN type |->
              LET u == IF n \in Inner THEN Kids(d, n) ELSE <<>>
              IN <<n>> \o Joined([j \in DOMAIN u |-> e[u[j]]])]
           R(a) == a = [i \in 0..n0 |-> IF i = 0 THEN b0 ELSE step(a[i - 1], t[i])]
           I == [i \in 0..n0 |-> T]
           f == [i \in 1..n0 |-> [e \in T |-> step(e, t[i])]]
           after == CHOOSE a : R(a)
<1>1. n0 \in Nat /\ I \in [0..n0 -> SUBSET T] /\ \A i \in 0..n0 : I[i] = T
  BY <1>0
<1>2. Beneath(d) = after[n0]
  BY DEF Beneath, Each, t
<1>3. b0 \in I[0]
  BY <1>1
<1>4. ASSUME NEW e \in T PROVE \A x : step(e, x) \in T
  <2>2. ASSUME NEW n \in DOMAIN type, NEW u, u = IF n \in Inner THEN Kids(d, n) ELSE <<>>
        PROVE  <<n>> \o Joined([j \in DOMAIN u |-> e[u[j]]]) \in Seq(DOMAIN type)
    <3>1. u \in Seq(DOMAIN type)
      <4>1. n \in Inner => Kids(d, n) \in Seq(DOMAIN type)
        BY KidsFacts
      <4>2. <<>> \in Seq(DOMAIN type)
        OBVIOUS
      <4>3. (u = Kids(d, n) /\ n \in Inner) \/ u = <<>>
        BY <2>2
      <4> QED BY <4>1, <4>2, <4>3
    <3>2. Gather(u, e) \in Seq(DOMAIN type)
      BY <1>4, <3>1, GatherIs
    <3> DEFINE v == Gather(u, e)
    <3>3. v \in Seq(DOMAIN type) /\ v = Joined([j \in DOMAIN u |-> e[u[j]]])
      BY <3>2 DEF Gather
    <3> HIDE DEF v
    <3>4. <<n>> \o v \in Seq(DOMAIN type)
      BY <3>3
    <3> QED BY <3>3, <3>4
  <2> QED BY <2>2
<1>5. \E a : R(a)
  <2>1. \A i \in 1..n0 : \A e \in I[i - 1] : f[i][e] = step(e, t[i]) /\ step(e, t[i]) \in I[i]
    <3>1. \A i \in 1..n0 : i - 1 \in 0..n0 /\ I[i - 1] = T /\ I[i] = T
      BY <1>1
    <3> HIDE DEF I, n0, step, T
    <3> QED BY <1>4, <3>1
  <2>2. Steps(n0, T, I, b0, f)
    <3> HIDE DEF I, f, step, n0, T, b0
    <3> QED BY <1>1, <1>3, <2>1 DEF Steps
  <2>3. PICK g : Goes(n0, T, I, b0, f, g)
    <3> HIDE DEF I, f, n0, T, b0
    <3> QED BY <2>2, Iterated
  <2>4. g = [i \in 0..n0 |-> IF i = 0 THEN b0 ELSE step(g[i - 1], t[i])]
    <3> HIDE DEF f, I, step, n0, b0, T
    <3>1. \A i \in 1..n0 : g[i] = step(g[i - 1], t[i])
      <4>1. \A i \in 1..n0 : i - 1 \in 0..n0
        BY <1>1
      <4>2. \A i \in 1..n0 : g[i - 1] \in I[i - 1] /\ g[i] = f[i][g[i - 1]]
        BY <2>3, <4>1 DEF Goes
      <4> QED BY <2>1, <4>2
    <3> QED BY <1>1, <2>3, <3>1 DEF Goes
  <2> QED BY <2>4
<1>6. R(after)
  <2> HIDE DEF R
  <2> QED BY <1>5, Zenon
<1>7. after[0] = b0 /\ \A i \in 1..n0 : after[i] = step(after[i - 1], t[i])
  <2> HIDE DEF after, step, n0, b0
  <2> QED BY <1>1, <1>6
<1>8. after \in [0..n0 -> T]
  <2>1. \A m \in 0..n0 : after[m] \in T
    <3> SUFFICES ASSUME NEW m \in 0..n0 PROVE after[m] \in T
      OBVIOUS
    <3>1. m \in Nat /\ \A i \in 1..m : i \in 1..n0 /\ i - 1 \in 0..n0
      BY <1>1
    <3>2. Keeps(m, I, after)
      <4> HIDE DEF after, step, n0, I, T, b0
      <4> QED BY <1>1, <1>3, <1>4, <1>7, <3>1 DEF Keeps
    <3>3. after[m] \in I[m]
      <4> HIDE DEF after, I, n0
      <4> QED BY <3>2, Followed
    <3>4. I[m] = T
      OBVIOUS
    <3> HIDE DEF after, I
    <3> QED BY <3>3, <3>4
  <2>2. DOMAIN after = 0..n0 /\ after = [i \in 0..n0 |-> after[i]]
    <3> DEFINE F == [i \in 0..n0 |-> IF i = 0 THEN b0 ELSE step(after[i - 1], t[i])]
    <3>1. DOMAIN F = 0..n0 /\ F = [i \in 0..n0 |-> F[i]]
      OBVIOUS
    <3>2. after = F
      BY <1>6
    <3> HIDE DEF F, after, n0
    <3> QED BY <3>1, <3>2
  <2> HIDE DEF after, n0, T
  <2> QED BY <2>1, <2>2
<1>9. \A i \in 1..n0 : \A n \in DOMAIN type :
        after[i][n] = <<n>> \o Gather(IF n \in Inner THEN Kids(d, n) ELSE <<>>, after[i - 1])
  <2> HIDE DEF after, n0
  <2> QED BY <1>7 DEF Gather
<1>10. Deep(d, after)
  <2> HIDE DEF after, step
  <2> QED BY <1>0, <1>2, <1>7, <1>9 DEF Deep
<1> HIDE DEF after
<1> QED BY <1>0, <1>8, <1>10

(* A walk of the tree visits nodes. *)
LEMMA BeneathIs ==
  ASSUME Basis, NEW d, Sound(d)
  PROVE  Beneath(d) \in [DOMAIN type -> Seq(DOMAIN type)]
<1> DEFINE m == Cardinality(Inner)
<1>1. PICK b \in [0..m -> [DOMAIN type -> Seq(DOMAIN type)]] : Deep(d, b)
  BY BeneathLoop
<1>2. m \in 0..m
  BY BasisFacts, FS_CardinalityType
<1> QED BY <1>1, <1>2 DEF Deep

(* What Only leaves, as what Without leaves. *)
LEMMA OnlyIs ==
  ASSUME NEW A, NEW s \in Seq(A), NEW K
  PROVE  Only(s, K) = Without(s, A \ K)
<1>1. s \in Seq(ToSet(s))
  <2>1. Len(s) \in Nat /\ s \in [1..Len(s) -> A] /\ DOMAIN s = 1..Len(s)
    OBVIOUS
  <2>2. \A i \in 1..Len(s) : s[i] \in ToSet(s)
    BY <2>1, InToSet
  <2> DEFINE X == ToSet(s)
             m == Len(s)
  <2>3. s \in [1..m -> X] /\ m \in Nat
    BY <2>1, <2>2
  <2> HIDE DEF X, m
  <2>4. s \in Seq(X)
    BY <2>3
  <2> QED BY <2>4 DEF X
<1>2. ToSet(s) \subseteq A
  <2>1. ASSUME NEW x \in ToSet(s) PROVE x \in A
    <3>1. PICK k \in DOMAIN s : s[k] = x
      BY <2>1, InToSet
    <3> QED BY <3>1
  <2> QED BY <2>1
<1> DEFINE B == ToSet(s)
           S == B \ K
           T == A \ K
<1>3. S \cap B = T \cap B /\ s \in Seq(B)
  BY <1>1, <1>2
<1> HIDE DEF B, S, T
<1>4. Without(s, S) = Without(s, T)
  BY <1>3, WithoutMore
<1> QED BY <1>4 DEF Only, B, S, T

(* The children that may have children. *)
Stems(d, n) == Without(Kids(d, n), DOMAIN type \ Inner)

(* What is in K beneath n. *)
Query(d, n, K) == Only(Tail(Below(d, n)), K)

(* Nothing is beneath a node that may have no children. *)
LEMMA LeafIs ==
  ASSUME Basis, NEW d, NEW b, Deep(d, b), NEW i \in 0..Cardinality(Inner),
         NEW x \in DOMAIN type \ Inner
  PROVE  b[i][x] = <<x>>
<1>0. Cardinality(Inner) \in Nat
  BY BasisFacts, FS_CardinalityType
<1>1. CASE i = 0
  <2>1. b[0] = [n \in DOMAIN type |-> <<n>>]
    BY DEF Deep
  <2> QED BY <1>1, <2>1
<1>2. CASE i # 0
  <2>1. i \in 1..Cardinality(Inner)
    BY <1>0, <1>2
  <2>2. b[i][x] = <<x>> \o Gather(<<>>, b[i - 1])
    BY <2>1 DEF Deep
  <2>3. Gather(<<>>, b[i - 1]) = <<>>
    BY GatherNone
  <2>4. <<x>> \o <<>> = <<x>>
    OBVIOUS
  <2> QED BY <2>2, <2>3, <2>4
<1> QED BY <1>1, <1>2

(* What b gives for each node, as far as it is in K. *)
Sieved(b, K) == [x \in DOMAIN type |-> Without(b[x], DOMAIN type \ K)]

Sieving(d, K, b) ==
    /\ K \subseteq Inner /\ Deep(d, b)
    /\ b \in [0..Cardinality(Inner) -> [DOMAIN type -> Seq(DOMAIN type)]]

Level(d, K, b, i, n) ==
    /\ b[i][n] = <<n>> \o Gather(Kids(d, n), b[i - 1])
    /\ Gather(Kids(d, n), b[i - 1]) \in Seq(DOMAIN type)
    /\ Without(Gather(Kids(d, n), b[i - 1]), DOMAIN type \ K)
         = Gather(Stems(d, n), Sieved(b[i - 1], K))

(* What is in K beneath a node is what is in K at and beneath its children. *)
LEMMA LevelIs ==
  ASSUME Basis, NEW d, Sound(d), NEW K, NEW b, Sieving(d, K, b),
         NEW i \in 1..Cardinality(Inner), NEW n \in Inner
  PROVE  Level(d, K, b, i, n)
<1> DEFINE N == DOMAIN type
           g == b[i - 1]
           h == Sieved(g, K)
           s == Kids(d, n)
<1>10. /\ K \subseteq Inner /\ Deep(d, b)
       /\ b \in [0..Cardinality(Inner) -> [DOMAIN type -> Seq(DOMAIN type)]]
  BY DEF Sieving
<1>0. Cardinality(Inner) \in Nat /\ i - 1 \in 0..Cardinality(Inner) /\ Inner \subseteq N
  BY BasisFacts, FS_CardinalityType
<1>1. g \in [N -> Seq(N)] /\ s \in Seq(N)
  BY <1>0, <1>10, KidsFacts
<1>2. b[i][n] = <<n>> \o Gather(s, g)
  BY <1>0, <1>10 DEF Deep
<1>3. \A x \in N \cap (N \ Inner) : h[x] = <<>>
  <2> SUFFICES ASSUME NEW x \in N \ Inner PROVE h[x] = <<>>
    OBVIOUS
  <2>1. g[x] = <<x>>
    BY <1>0, <1>10, LeafIs
  <2>2. h[x] = Without(<<x>>, N \ K)
    BY <2>1 DEF Sieved
  <2>3. <<x>> = Append(<<>>, x) /\ <<>> \in Seq(N)
    OBVIOUS
  <2> DEFINE Z == N \ K
  <2>4. x \in Z
    BY <1>10
  <2> HIDE DEF Z, h
  <2>5. Without(Append(<<>>, x), Z) = Without(<<>>, Z)
    BY <2>3, <2>4, WithoutAppend
  <2> QED BY <2>2, <2>3, <2>5, WithoutNone DEF Z
<1>4. Keeping(h, g, N, N \ K, N \ Inner)
  BY <1>3 DEF Keeping, Sieved
<1> HIDE DEF N, g, h, s
<1>5. Without(Gather(s, g), N \ K) = Gather(Without(s, N \ Inner), h)
  <2> DEFINE S == N \ K
             T == N \ Inner
  <2>1. Keeping(h, g, N, S, T)
    BY <1>4
  <2> HIDE DEF S, T
  <2>2. Without(Gather(s, g), S) = Gather(Without(s, T), h)
    BY <1>1, <2>1, GatherKept
  <2> QED BY <2>2 DEF S, T
<1>6. Gather(s, g) \in Seq(N)
  BY <1>1, GatherIs
<1> QED BY <1>2, <1>5, <1>6 DEF N, g, h, s, Stems, Level

Leveled(d, K, b) ==
    \A i \in 1..Cardinality(Inner), n \in Inner : Level(d, K, b, i, n)

(* That is so at every level. *)
LEMMA LevelsAre ==
  ASSUME Basis, NEW d, Sound(d), NEW K, NEW b, Sieving(d, K, b)
  PROVE  Leveled(d, K, b)
<1> SUFFICES ASSUME NEW i \in 1..Cardinality(Inner), NEW n \in Inner
             PROVE  Level(d, K, b, i, n)
  BY DEF Leveled
<1> QED BY LevelIs

(* A query sees nothing but the stems at and beneath the node, and which of them are in K. *)
Covers(d, C) == C \subseteq Inner /\ \A n \in C : ToSet(Stems(d, n)) \subseteq C

(* Trees with the same stems in C have the same in K beneath each node of C. *)
LEMMA QuerySame ==
  ASSUME Basis, NEW d, Sound(d), NEW e, Sound(e), NEW C, Covers(d, C), NEW root \in C,
         \A n \in C : Stems(d, n) = Stems(e, n),
         NEW K, NEW L, K \subseteq Inner, L \subseteq Inner, K \cap C = L \cap C
  PROVE  Query(d, root, K) = Query(e, root, L)
<1> DEFINE m == Cardinality(Inner)
           N == DOMAIN type
<1>0. m \in Nat /\ C \subseteq Inner /\ Inner \subseteq N
  BY BasisFacts, FS_CardinalityType DEF Covers
<1>1. PICK b \in [0..m -> [N -> Seq(N)]] : Deep(d, b)
  BY BeneathLoop
<1>2. PICK c \in [0..m -> [N -> Seq(N)]] : Deep(e, c)
  BY BeneathLoop
<1>20. Leveled(d, K, b) /\ Leveled(e, L, c)
  BY <1>1, <1>2, LevelsAre DEF Sieving, m, N
<1> HIDE DEF m, N
<1>3. ASSUME NEW i \in 1..m,
             \A n \in C : Sieved(b[i - 1], K)[n] = Sieved(c[i - 1], L)[n],
             NEW n \in C
      PROVE  /\ b[i][n] = <<n>> \o Gather(Kids(d, n), b[i - 1])
             /\ c[i][n] = <<n>> \o Gather(Kids(e, n), c[i - 1])
             /\ Gather(Kids(d, n), b[i - 1]) \in Seq(N) /\ Gather(Kids(e, n), c[i - 1]) \in Seq(N)
             /\ Without(Gather(Kids(d, n), b[i - 1]), N \ K)
                  = Without(Gather(Kids(e, n), c[i - 1]), N \ L)
  <2>1. n \in Inner /\ Stems(d, n) = Stems(e, n) /\ ToSet(Stems(d, n)) \subseteq C
    BY <1>0 DEF Covers
  <2>2. /\ b[i][n] = <<n>> \o Gather(Kids(d, n), b[i - 1])
        /\ Gather(Kids(d, n), b[i - 1]) \in Seq(N)
        /\ Without(Gather(Kids(d, n), b[i - 1]), N \ K) = Gather(Stems(d, n), Sieved(b[i - 1], K))
    BY <1>20, <2>1 DEF Leveled, Level, m, N
  <2>3. /\ c[i][n] = <<n>> \o Gather(Kids(e, n), c[i - 1])
        /\ Gather(Kids(e, n), c[i - 1]) \in Seq(N)
        /\ Without(Gather(Kids(e, n), c[i - 1]), N \ L) = Gather(Stems(e, n), Sieved(c[i - 1], L))
    BY <1>20, <2>1 DEF Leveled, Level, m, N
  <2>4. Gather(Stems(d, n), Sieved(b[i - 1], K)) = Gather(Stems(d, n), Sieved(c[i - 1], L))
    <3>1. \A x \in ToSet(Stems(d, n)) : Sieved(b[i - 1], K)[x] = Sieved(c[i - 1], L)[x]
      BY <1>3, <2>1
    <3> QED BY <3>1, GatherSame
  <2> QED BY <2>1, <2>2, <2>3, <2>4
<1>4. ASSUME NEW n \in C, NEW u \in Seq(N), NEW v \in Seq(N), Without(u, N \ K) = Without(v, N \ L)
      PROVE  Without(<<n>> \o u, N \ K) = Without(<<n>> \o v, N \ L)
  <2> DEFINE S == N \ K
             T == N \ L
             w == <<n>>
  <2>1. w \in Seq(N) /\ w \in Seq({n}) /\ S \cap {n} = T \cap {n}
    BY <1>0
  <2>2. Without(u, S) = Without(v, T)
    BY <1>4
  <2> HIDE DEF S, T, w
  <2>3. Without(w, S) = Without(w, T)
    BY <2>1, WithoutMore
  <2>4. Without(w \o u, S) = Without(w, S) \o Without(u, S)
    BY <2>1, WithoutConcat
  <2>5. Without(w \o v, T) = Without(w, T) \o Without(v, T)
    BY <2>1, WithoutConcat
  <2>6. Without(w \o u, S) = Without(w \o v, T)
    BY <2>2, <2>3, <2>4, <2>5
  <2> QED BY <2>6 DEF S, T, w
<1> DEFINE P == {i \in 0..m : \A n \in C : Sieved(b[i], K)[n] = Sieved(c[i], L)[n]}
<1>5. 0 \in P
  <2> SUFFICES ASSUME NEW n \in C PROVE Sieved(b[0], K)[n] = Sieved(c[0], L)[n]
    BY <1>0
  <2>1. b[0][n] = <<n>> /\ c[0][n] = <<n>> /\ n \in N
    BY <1>0, <1>1, <1>2 DEF Deep, N
  <2>2. <<>> \in Seq(N) /\ <<n>> \o <<>> = <<n>> /\ Without(<<>>, N \ K) = Without(<<>>, N \ L)
    BY WithoutNone
  <2>3. Without(<<n>>, N \ K) = Without(<<n>>, N \ L)
    BY <1>4, <2>2
  <2> QED BY <2>1, <2>3 DEF Sieved, N
<1>6. ASSUME NEW i \in 1..m, i - 1 \in P PROVE i \in P
  <2> SUFFICES ASSUME NEW n \in C PROVE Sieved(b[i], K)[n] = Sieved(c[i], L)[n]
    BY <1>0
  <2>1. \A x \in C : Sieved(b[i - 1], K)[x] = Sieved(c[i - 1], L)[x]
    BY <1>6
  <2>2. /\ b[i][n] = <<n>> \o Gather(Kids(d, n), b[i - 1])
        /\ c[i][n] = <<n>> \o Gather(Kids(e, n), c[i - 1])
        /\ Gather(Kids(d, n), b[i - 1]) \in Seq(N) /\ Gather(Kids(e, n), c[i - 1]) \in Seq(N)
        /\ Without(Gather(Kids(d, n), b[i - 1]), N \ K)
             = Without(Gather(Kids(e, n), c[i - 1]), N \ L)
    BY <1>3, <2>1
  <2>3. Without(b[i][n], N \ K) = Without(c[i][n], N \ L)
    <3> DEFINE u == Gather(Kids(d, n), b[i - 1])
               v == Gather(Kids(e, n), c[i - 1])
    <3>1. u \in Seq(N) /\ v \in Seq(N) /\ Without(u, N \ K) = Without(v, N \ L)
          /\ b[i][n] = <<n>> \o u /\ c[i][n] = <<n>> \o v
      BY <2>2
    <3> HIDE DEF u, v
    <3>2. Without(<<n>> \o u, N \ K) = Without(<<n>> \o v, N \ L)
      BY <1>4, <3>1
    <3> QED BY <3>1, <3>2
  <2> QED BY <1>0, <2>3 DEF Sieved, N
<1>7. root \in Inner /\ m # 0
  <2>1. root \in Inner /\ IsFiniteSet(Inner)
    BY <1>0, BasisFacts
  <2> QED BY <2>1, FS_EmptySet DEF m
<1>8. m \in 1..m /\ m - 1 \in P
  <2>1. m \in 1..m /\ m - 1 \in Nat
    BY <1>0, <1>7
  <2>2. \A i \in 1..(m - 1) : i \in 1..m
    BY <1>0
  <2>3. \A i \in 1..(m - 1) : i - 1 \in P => i \in P
    BY <1>6, <2>2
  <2> HIDE DEF P
  <2>4. m - 1 \in P
    <3> DEFINE k == m - 1
    <3>1. k \in Nat /\ \A i \in 1..k : i - 1 \in P => i \in P
      BY <2>1, <2>3
    <3> HIDE DEF k
    <3>2. k \in P
      BY <1>5, <3>1, Climb
    <3> QED BY <3>2 DEF k
  <2> QED BY <2>1, <2>4
<1>9. /\ b[m][root] = <<root>> \o Gather(Kids(d, root), b[m - 1])
      /\ c[m][root] = <<root>> \o Gather(Kids(e, root), c[m - 1])
      /\ Gather(Kids(d, root), b[m - 1]) \in Seq(N) /\ Gather(Kids(e, root), c[m - 1]) \in Seq(N)
      /\ Without(Gather(Kids(d, root), b[m - 1]), N \ K)
           = Without(Gather(Kids(e, root), c[m - 1]), N \ L)
  <2>1. \A x \in C : Sieved(b[m - 1], K)[x] = Sieved(c[m - 1], L)[x]
    BY <1>8
  <2> QED BY <1>3, <1>8, <2>1
<1>10. Below(d, root) = b[m][root] /\ Below(e, root) = c[m][root]
  BY <1>1, <1>2 DEF Below, Deep, m
<1>11. ASSUME NEW u \in Seq(N) PROVE Tail(<<root>> \o u) = u
  OBVIOUS
<1>12. ASSUME NEW x, NEW u \in Seq(N), NEW M, Below(x, root) = <<root>> \o u
       PROVE  Query(x, root, M) = Without(u, N \ M)
  <2>1. Tail(Below(x, root)) = u
    BY <1>11, <1>12
  <2>2. Only(u, M) = Without(u, N \ M)
    BY OnlyIs
  <2> QED BY <2>1, <2>2 DEF Query
<1> DEFINE u == Gather(Kids(d, root), b[m - 1])
           v == Gather(Kids(e, root), c[m - 1])
<1>13. /\ u \in Seq(N) /\ v \in Seq(N) /\ Without(u, N \ K) = Without(v, N \ L)
       /\ Below(d, root) = <<root>> \o u /\ Below(e, root) = <<root>> \o v
  BY <1>9, <1>10
<1> HIDE DEF u, v
<1>14. Query(d, root, K) = Without(u, N \ K)
  BY <1>12, <1>13
<1>15. Query(e, root, L) = Without(v, N \ L)
  BY <1>12, <1>13
<1> QED BY <1>13, <1>14, <1>15

(* What collections look for, and what is of no account to them. *)
Shown == classed \cap Inner
Leaves == DOMAIN type \ Inner

(* From d to e, all that a collection may find otherwise has been told. *)
Heard(e, d) ==
    /\ d.told \subseteq e.told
    /\ \A n \in Inner \ e.told : Query(e, n, Shown) = Query(d, n, Shown)

(* An HTML tree's children are all to be seen. *)
LEMMA HtmlKids ==
  ASSUME ~Xml, NEW d, d.marks = {}, NEW q
  PROVE  Kids(d, q) = d.kids[q] /\ Parent(d, q) = Above(d, q)
<1>1. Without(d.kids[q], {}) = d.kids[q]
  BY DEF Without
<1> QED BY <1>1 DEF Kids, Parent

(* What changes only nodes without children, no collection sees. *)
LEMMA HeardSame ==
  ASSUME Basis, ~Xml, NEW d, Sound(d), NEW e, Sound(e), d.told \subseteq e.told,
         \A q \in Inner : Without(d.kids[q], Leaves) = Without(e.kids[q], Leaves)
  PROVE  Heard(e, d)
<1>1. d.marks = {} /\ e.marks = {}
  BY DEF Sound
<1>2. \A q \in Inner : Stems(d, q) = Stems(e, q)
  BY <1>1, HtmlKids DEF Stems, Leaves
<1>3. Covers(d, Inner)
  <2>1. ASSUME NEW q \in Inner, NEW x \in ToSet(Stems(d, q)) PROVE x \in Inner
    <3> DEFINE s == Kids(d, q)  T == DOMAIN type \ Inner
    <3>1. s \in Seq(DOMAIN type)
      BY KidsFacts
    <3>2. x \in ToSet(Without(s, T))
      BY <2>1 DEF Stems
    <3> HIDE DEF s, T
    <3>3. Without(s, T) \in Seq(DOMAIN type) /\ ToSet(Without(s, T)) = ToSet(s) \ T
      BY <3>1, WithoutFacts
    <3>4. x \in DOMAIN type
      BY <3>2, <3>3, InToSet
    <3> QED BY <3>2, <3>3, <3>4 DEF T
  <2> QED BY <2>1 DEF Covers
<1>4. ASSUME NEW n \in Inner PROVE Query(e, n, Shown) = Query(d, n, Shown)
  <2> DEFINE K == Shown
  <2>1. K \subseteq Inner
    BY DEF Shown
  <2> HIDE DEF K
  <2>2. Query(d, n, K) = Query(e, n, K)
    BY <1>2, <1>3, <2>1, QuerySame
  <2> QED BY <2>2 DEF K
<1> QED BY <1>4 DEF Heard

(* What is not among p and what p is in has children of no other kind: none leads there. *)
LEMMA OutsideCovers ==
  ASSUME Basis, ~Xml, NEW e, Sound(e), NEW p \in Inner, NEW v, v.kids = e.kids, v.marks = {}
  PROVE  Covers(e, Inner \ ToSet(Path(v, p))) /\ p \in ToSet(Path(v, p))
<1> DEFINE P == ToSet(Path(v, p))
           C == Inner \ P
           T == DOMAIN type \ Inner
<1>1. e.marks = {} /\ Tidy(v.kids)
  BY DEF Sound, Shape
<1>2. /\ p \in P /\ P \subseteq Inner
      /\ \A x \in P : Parent(v, x) \in P \cup {None}
  BY <1>1, PathUp
<1> HIDE DEF P
<1>3. ASSUME NEW q \in C, NEW x \in ToSet(Stems(e, q)) PROVE x \in C
  <2> DEFINE s == e.kids[q]
  <2>1. s \in Seq(DOMAIN type) /\ s = Kids(e, q)
    BY <1>1, HtmlKids, TreesFacts DEF Sound, Shape
  <2>2. x \in ToSet(Without(s, T))
    BY <1>3, <2>1 DEF Stems
  <2> HIDE DEF s, T
  <2>3. Without(s, T) \in Seq(DOMAIN type) /\ ToSet(Without(s, T)) = ToSet(s) \ T
    BY <2>1, WithoutFacts
  <2>4. x \in DOMAIN type
    BY <2>2, <2>3, InToSet
  <2>5. x \in Inner /\ x \in ToSet(v.kids[q])
    BY <1>1, <2>2, <2>3, <2>4 DEF T, s
  <2>6. None \notin Inner
    BY BasisFacts
  <2>7. Above(v, x) = q
    BY <1>1, <2>5, <2>6, AboveOnly
  <2>8. Parent(v, x) = q
    BY <1>1, <2>7, HtmlKids
  <2>9. x \notin P
    BY <1>2, <2>6, <2>8
  <2> QED BY <2>5, <2>9
<1> QED BY <1>2, <1>3 DEF Covers, P

(* What changes beneath p only, and is told to p and what p is in. *)
LEMMA HeardChange ==
  ASSUME Basis, ~Xml, NEW d, Sound(d), NEW e, Sound(e), NEW p \in Inner,
         \A q \in Inner : q # p => e.kids[q] = d.kids[q],
         NEW v, v.kids = e.kids, v.marks = {},
         d.told \cup ToSet(Path(v, p)) \subseteq e.told
  PROVE  Heard(e, d)
<1> DEFINE P == ToSet(Path(v, p))
           C == Inner \ P
<1>1. d.marks = {} /\ e.marks = {}
  BY DEF Sound
<1>2. Covers(e, C) /\ p \in P
  BY OutsideCovers
<1> HIDE DEF P
<1>3. \A n \in C : Stems(e, n) = Stems(d, n)
  BY <1>1, <1>2, HtmlKids DEF Stems
<1>5. ASSUME NEW n \in Inner \ e.told PROVE Query(e, n, Shown) = Query(d, n, Shown)
  <2> DEFINE K == Shown
  <2>1. K \subseteq Inner
    BY DEF Shown
  <2>2. n \in C
    BY <1>5 DEF P
  <2> HIDE DEF K, C
  <2>3. Query(e, n, K) = Query(d, n, K)
    BY <1>2, <1>3, <2>1, <2>2, QuerySame
  <2> QED BY <2>3 DEF K
<1> QED BY <1>5 DEF Heard

(* What is told on the way from d to e and from e to x is told on the way from d to x. *)
LEMMA HeardOn ==
  ASSUME NEW d, NEW e, NEW x, Heard(e, d), Heard(x, e)
  PROVE  Heard(x, d)
BY DEF Heard

(* One node is told of, and that is all that Tell does. *)
LEMMA TellHeard ==
  ASSUME Basis, ~Xml, NEW d, Sound(d), NEW v, Sound(v), NEW p \in Inner, v.told = d.told,
         \A q \in Inner : q # p => v.kids[q] = d.kids[q],
         NEW c \in DOMAIN type, type[c] \in ChildTypes,
         type[c] # Element => Without(v.kids[p], Leaves) = Without(d.kids[p], Leaves)
  PROVE  /\ Heard(Tell(v, c, p), d) /\ Sound(Tell(v, c, p)) /\ Tell(v, c, p).kids = v.kids
         /\ Tell(v, c, p).top = v.top
<1> DEFINE e == Tell(v, c, p)  P == ToSet(Path(v, p))
<1>1. v \in Trees(type) /\ v.marks = {} /\ p \in DOMAIN type
  BY BasisFacts DEF Sound, Shape
<1>2. Alike(e, v, v.kids)
  BY <1>1, TellIs
<1>3. Sound(e) /\ e.kids = v.kids
  BY <1>2, AlikeSound DEF Alike
<1>6. e.top = v.top
  BY <1>1 DEF Tell, Trees
<1>4. CASE type[c] # Element
  <2>1. e = v
    BY <1>4 DEF Tell
  <2>2. \A q \in Inner : Without(d.kids[q], Leaves) = Without(v.kids[q], Leaves)
    BY <1>4
  <2> HIDE DEF e
  <2>3. d.told \subseteq e.told
    BY <2>1
  <2>4. Heard(e, d)
    BY <1>3, <2>1, <2>2, <2>3, HeardSame
  <2> QED BY <1>3, <1>6, <2>4 DEF e
<1>5. CASE type[c] = Element
  <2>1. e.told = v.told \cup {c} \cup P
    BY <1>1, <1>5 DEF Tell, Trees
  <2> HIDE DEF e
  <2>2. d.told \cup P \subseteq e.told
    BY <2>1
  <2>3. \A q \in Inner : q # p => e.kids[q] = d.kids[q]
    BY <1>3
  <2>4. Heard(e, d)
    BY <1>1, <1>3, <2>2, <2>3, HeardChange DEF P
  <2> QED BY <1>3, <1>6, <2>4 DEF e
<1> QED BY <1>3, <1>4, <1>5

(* Taking a node out is told to all that it was in. *)
LEMMA UnlinkHeard ==
  ASSUME Basis, ~Xml, NEW d, Sound(d), NEW c \in DOMAIN type, type[c] \in ChildTypes
  PROVE  /\ Heard(Unlink(d, c), d) /\ Sound(Unlink(d, c))
         /\ Alike(Unlink(d, c), d, Loose(d.kids, c)) /\ Unlink(d, c).top = d.top
<1> DEFINE u == Unlink(d, c)  p == Above(d, c)
<1>1. d \in Trees(type) /\ Shape(d) /\ Tidy(d.kids) /\ d.marks = {}
  BY DEF Sound, Shape
<1>2. Alike(u, d, Loose(d.kids, c))
  BY <1>1, UnlinkIs
<1>3. DOMAIN d.kids = Inner /\ None \notin Inner /\ d.kids \in [Inner -> Seq(DOMAIN type)]
  BY <1>1, TreesFacts, BasisFacts
<1>4. CASE p = None
  <2>1. u = d
    BY <1>4 DEF Unlink
  <2> HIDE DEF u
  <2> QED BY <1>2, <2>1 DEF Heard, u
<1>5. CASE p # None
  <2> DEFINE w == Without(d.kids[p], {c})  v == [d EXCEPT !.kids[p] = w]
  <2>1. p \in Inner /\ u = Tell(v, c, p)
    BY <1>3, <1>5, AboveIs DEF Unlink
  <2>2. w \in Seq(DOMAIN type) /\ d.kids[p] \in Seq(DOMAIN type)
    BY <1>3, <2>1, WithoutFacts
  <2>3. type[c] # Element => Without(w, Leaves) = Without(d.kids[p], Leaves)
    <3> SUFFICES ASSUME type[c] # Element PROVE Without(w, Leaves) = Without(d.kids[p], Leaves)
      OBVIOUS
    <3> DEFINE s == d.kids[p]  T == Leaves  S == {c}
    <3>1. c \in T
      BY DEF Leaves, Inner, Branches, ChildTypes, Element, Document, Fragment, Text, Comment,
             Doctype
    <3>2. S \cup T = T /\ s \in Seq(DOMAIN type)
      BY <2>2, <3>1
    <3> HIDE DEF s, T, S
    <3>3. Without(Without(s, S), T) = Without(s, T)
      BY <3>2, WithoutTwice
    <3> QED BY <3>3 DEF s, T, S
  <2> HIDE DEF p, w
  <2>4. Alike(v, d, [d.kids EXCEPT ![p] = w]) /\ v.told = d.told /\ v.top = d.top
    BY <1>1, <2>1, <2>2, EditKids DEF Trees
  <2> HIDE DEF v
  <2>5. v \in Trees(type) /\ p \in DOMAIN type
    BY <2>1, <2>4, BasisFacts DEF Alike
  <2>6. Alike(u, v, v.kids)
    BY <2>1, <2>5, TellIs
  <2>7. Alike(v, d, Loose(d.kids, c))
    BY <1>2, <2>4, <2>6 DEF Alike
  <2>8. Closed(d.kids, {Doc})
    BY <1>1, OnlyDoc
  <2>9. Shape(v)
    BY <1>1, <2>7, <2>8, LooseShape
  <2>10. Sound(v)
    BY <1>1, <2>4, <2>9 DEF Sound, Alike
  <2>11. /\ v.kids[p] = w
         /\ \A q \in Inner : q # p => v.kids[q] = d.kids[q]
    BY <1>3, <2>1, <2>4 DEF Alike
  <2>12. type[c] # Element => Without(v.kids[p], Leaves) = Without(d.kids[p], Leaves)
    BY <2>3, <2>11
  <2>13. Heard(Tell(v, c, p), d) /\ Sound(Tell(v, c, p)) /\ Tell(v, c, p).top = v.top
    BY <2>1, <2>4, <2>10, <2>11, <2>12, TellHeard
  <2> HIDE DEF u
  <2> QED BY <1>2, <2>1, <2>4, <2>13 DEF u
<1> QED BY <1>4, <1>5

(* Putting a node in is told to all that it was in and is in. *)
LEMMA LinkHeard ==
  ASSUME Basis, ~Xml, NEW d, Sound(d), NEW c \in DOMAIN type, type[c] \in ChildTypes,
         NEW p \in Inner, NEW r, Sound(Link(d, c, p, r))
  PROVE  Heard(Link(d, c, p, r), d) /\ Link(d, c, p, r).top = d.top
<1> DEFINE u == Unlink(d, c)  s == u.kids[p]  w == Inserted(s, c, r)  v == [u EXCEPT !.kids[p] = w]
           e == Link(d, c, p, r)
<1>1. Heard(u, d) /\ Sound(u) /\ u.top = d.top
  BY UnlinkHeard
<1>2. e = Tell(v, c, p)
  BY DEF Link
<1> HIDE DEF u, e
<1>3. u \in Trees(type) /\ Shape(u) /\ u.marks = {} /\ u.kids \in [Inner -> Seq(DOMAIN type)]
  BY <1>1, TreesFacts DEF Sound, Shape
<1>4. s \in Seq(DOMAIN type)
  BY <1>3
<1>5. w \in Seq(DOMAIN type)
  <2> HIDE DEF s
  <2> QED BY <1>4, InsertedFacts
<1>6. type[c] # Element => Without(w, Leaves) = Without(s, Leaves)
  <2> SUFFICES ASSUME type[c] # Element PROVE Without(w, Leaves) = Without(s, Leaves)
    OBVIOUS
  <2> DEFINE T == Leaves
  <2>1. c \in T
    BY DEF Leaves, Inner, Branches, ChildTypes, Element, Document, Fragment, Text, Comment,
           Doctype
  <2> HIDE DEF s, T
  <2> QED BY <1>4, <2>1, WithoutInserted DEF T
<1> HIDE DEF w
<1>7. Alike(v, u, [u.kids EXCEPT ![p] = w]) /\ v.told = u.told /\ v.top = u.top
  BY <1>3, <1>5, EditKids DEF Trees
<1> HIDE DEF v
<1>8. v \in Trees(type) /\ p \in DOMAIN type
  BY <1>7, BasisFacts DEF Alike
<1>9. Alike(e, v, v.kids)
  BY <1>2, <1>8, TellIs
<1>10. Alike(v, e, e.kids)
  BY <1>8, <1>9 DEF Alike
<1>11. Sound(v)
  BY <1>10, AlikeSound DEF e
<1>12. v.kids[p] = w /\ \A q \in Inner : q # p => v.kids[q] = u.kids[q]
  BY <1>3, <1>7 DEF Alike
<1>13. type[c] # Element => Without(v.kids[p], Leaves) = Without(u.kids[p], Leaves)
  BY <1>6, <1>12
<1>14. Heard(Tell(v, c, p), u) /\ Tell(v, c, p).top = v.top
  BY <1>1, <1>7, <1>11, <1>12, <1>13, TellHeard
<1> QED BY <1>1, <1>2, <1>7, <1>14, HeardOn DEF e

(* The nodes that e's parents have more than d's: those of S, and only p has them. *)
Spreads(e, d, p, S) ==
    \A q \in Inner : ToSet(e.kids[q]) \subseteq ToSet(d.kids[q]) \cup (IF q = p THEN S ELSE {})

(* One element at most, and the one that the document remembers. *)
Lone(S) == \A x, y \in S : type[x] = Element /\ type[y] = Element => x = y
Topped(d) == \A x \in ToSet(d.kids[Doc]) : type[x] = Element => x = d.top

Hears(e, d, p, S) == ~Xml => Heard(e, d) /\ Spreads(e, d, p, S) /\ e.top = d.top

(* HTML: what comes from d to e by moves of the nodes of S to p, and of others away. *)
Brings(e, d, p, S) ==
    ~Xml => /\ Heard(e, d) /\ Spreads(e, d, p, S)
            /\ Topped(d) /\ Lone(ToSet(d.kids[Doc]) \cup (IF p = Doc THEN S ELSE {})) => Topped(e)

(* Nothing has changed, and nobody need be told. *)
LEMMA HearsSelf ==
  ASSUME NEW d, NEW p, NEW S
  PROVE  Hears(d, d, p, S) /\ Brings(d, d, p, S)
BY DEF Hears, Brings, Heard, Spreads

(* One change after the other. *)
LEMMA HearsOn ==
  ASSUME NEW d, NEW e, NEW x, NEW p, NEW S, NEW R, R \subseteq S,
         Hears(e, d, p, S), Hears(x, e, p, R)
  PROVE  Hears(x, d, p, S)
<1>1. ~Xml => Heard(x, d)
  BY HeardOn DEF Hears
<1>2. ~Xml => Spreads(x, d, p, S)
  BY DEF Hears, Spreads
<1>3. ~Xml => x.top = d.top
  BY DEF Hears
<1> QED BY <1>1, <1>2, <1>3 DEF Hears

(* One move after the other. *)
LEMMA BringsOn ==
  ASSUME Basis, NEW d, NEW e, NEW x, NEW p, NEW S, NEW R, R \subseteq S,
         Brings(e, d, p, S), Brings(x, e, p, R)
  PROVE  Brings(x, d, p, S)
<1> SUFFICES ASSUME ~Xml PROVE Brings(x, d, p, S)
  BY DEF Brings
<1>1. Heard(x, d)
  BY HeardOn DEF Brings
<1>2. Spreads(x, d, p, S)
  BY DEF Brings, Spreads
<1>3. ASSUME Topped(d), Lone(ToSet(d.kids[Doc]) \cup (IF p = Doc THEN S ELSE {}))
      PROVE  Topped(x)
  <2>1. Topped(e) /\ Doc \in Inner
    BY <1>3, BasisFacts DEF Brings
  <2>2. ToSet(e.kids[Doc]) \cup (IF p = Doc THEN R ELSE {})
          \subseteq ToSet(d.kids[Doc]) \cup (IF p = Doc THEN S ELSE {})
    BY <2>1 DEF Brings, Spreads
  <2>3. Lone(ToSet(e.kids[Doc]) \cup (IF p = Doc THEN R ELSE {}))
    BY <1>3, <2>2 DEF Lone
  <2> QED BY <2>1, <2>3 DEF Brings
<1> QED BY <1>1, <1>2, <1>3 DEF Brings

(* What moves nodes away only, is so for any place. *)
LEMMA BringsLess ==
  ASSUME Basis, NEW d, NEW e, Brings(e, d, None, {}), NEW p, NEW S
  PROVE  Brings(e, d, p, S)
<1> SUFFICES ASSUME ~Xml PROVE Brings(e, d, p, S)
  BY DEF Brings
<1>1. Heard(e, d) /\ Spreads(e, d, p, S)
  BY DEF Brings, Spreads
<1>2. Topped(d) => Lone(ToSet(d.kids[Doc]) \cup (IF None = Doc THEN {} ELSE {}))
  BY DEF Topped, Lone
<1> QED BY <1>1, <1>2 DEF Brings

(* A tree with the same children, and the same of which collections are told, is as good. *)
LEMMA HeardLike ==
  ASSUME Basis, ~Xml, NEW d, Sound(d), NEW e, Sound(e), e.kids = d.kids, d.told \subseteq e.told
  PROVE  Heard(e, d)
BY HeardSame

(* Looking up the document's element: the only one, if there is one. *)
LEMMA SyncTops ==
  ASSUME Basis, NEW e, Sound(e), NEW p, Sound(Sync(e, p))
  PROVE  /\ Sync(e, p).kids = e.kids /\ (~Xml => Heard(Sync(e, p), e))
         /\ ~Xml /\ p = Doc /\ Lone(ToSet(e.kids[Doc])) => Topped(Sync(e, p))
         /\ p # Doc => Sync(e, p) = e
<1> DEFINE S == {n \in Inner : type[n] = Element}  s == e.kids[Doc]  t == FirstFrom(s, 1, S)
           x == Sync(e, p)
<1>1. x = IF Xml \/ p # Doc THEN e ELSE [e EXCEPT !.top = t]
  BY DEF Sync
<1>2. e \in Trees(type)
  BY DEF Sound, Shape
<1>3. s \in Seq(DOMAIN type) /\ None \notin DOMAIN type
  BY <1>2, TreesFacts, BasisFacts
<1>4. S \subseteq DOMAIN type
  BY BasisFacts
<1>7. \A y \in DOMAIN type : type[y] = Element => y \in S
  BY DEF Inner, Branches
<1>8. \A y \in S : type[y] = Element
  OBVIOUS
<1> HIDE DEF x, t, S, s
<1>5. x.kids = e.kids /\ x.told = e.told /\ Sound(x)
  BY <1>1, <1>2 DEF Trees, x
<1>6. ~Xml => Heard(x, e)
  BY <1>5, HeardLike
<1>9. ASSUME ~Xml, p = Doc, Lone(ToSet(s)) PROVE Topped(x)
  <2>1. x.top = t
    BY <1>1, <1>2, <1>9 DEF Trees
  <2>2. ASSUME NEW y \in ToSet(s), type[y] = Element PROVE y = t
    <3>1. PICK k \in DOMAIN s : s[k] = y
      BY <2>2, InToSet
    <3>2. k >= 1 /\ s[k] \in S
      BY <1>3, <1>7, <2>2, <3>1
    <3>3. t # None
      <4>1. FirstFrom(s, 1, S) = None => s[k] \notin S
        BY <1>3, <3>2, NoFirst
      <4> QED BY <3>2, <4>1 DEF t
    <3>4. t \in S \cap ToSet(s)
      BY <1>3, <3>3, FirstFacts DEF t
    <3> QED BY <1>8, <1>9, <2>2, <3>4 DEF Lone
  <2> QED BY <1>5, <2>1, <2>2 DEF Topped, s
<1> QED BY <1>1, <1>5, <1>6, <1>9 DEF x, s

(* The node that the next one may come before: in XML, not one that is stored. *)
Spot(d, p, r) == Xml /\ p = Doc /\ r # None => r \in ToSet(d.kids[Doc]) \ d.marks

(* e is d, changed; what is in U still has all that it is in. *)
Fine(e, d, U) == Sound(e) /\ Closed(e.kids, U) /\ e.texts = d.texts

(* XML: what goes before the first stored node, or before one that is not stored, fits. *)
LEMMA StorageFits ==
  ASSUME Basis, NEW d, Sound(d), Xml, NEW c, NEW p, NEW r, r # c, Spot(d, p, r)
  PROVE  Fits(d, c, p, IF r = None /\ p = Doc THEN Storage(d, c) ELSE r)
<1> DEFINE s == d.kids[Doc]
<1>1. SUFFICES ASSUME p = Doc, NEW x \in d.marks \ {c},
                      NEW ref, ref = IF r = None THEN Storage(d, c) ELSE r
               PROVE  ref \in ToSet(s) \ {c} /\ ~Before(s, x, ref)
  BY Zenon DEF Fits
<1>2. Behind(d) /\ Tidy(d.kids) /\ d \in Trees(type)
  BY DEF Sound, Shape
<1>3. s \in Seq(DOMAIN type) /\ Doc \in Inner /\ None \notin DOMAIN type
  BY <1>2, BasisFacts, TreesFacts
<1>4. x \in ToSet(s) /\ x \in DOMAIN type
  BY <1>2, TreesFacts DEF Behind
<1>5. CASE r # None
  <2>1. ref \in ToSet(s) \ d.marks /\ ref # c
    BY <1>1, <1>5 DEF Spot
  <2>2. ref \in DOMAIN type
    BY <1>3, <2>1, InToSet
  <2> QED BY <1>2, <1>4, <2>1, <2>2 DEF Behind
<1>6. CASE r = None
  <2> HIDE DEF s
  <2>1. ref = FirstFrom(s, 1, d.marks \ {c})
    BY <1>1, <1>6 DEF Storage, s
  <2>2. PICK k \in DOMAIN s : s[k] = x
    BY <1>4, InToSet
  <2>3. k >= 1
    BY <1>3
  <2>4. ref # None
    BY <1>3, <2>1, <2>2, <2>3, NoFirst
  <2>5. /\ ref \in (d.marks \ {c}) \cap ToSet(s)
        /\ \E j \in DOMAIN s : j >= 1 /\ s[j] = ref
              /\ \A l \in DOMAIN s : l >= 1 /\ s[l] \in d.marks \ {c} => j <= l
    <3> DEFINE S == d.marks \ {c}
    <3>1. FirstFrom(s, 1, S) # None /\ ref = FirstFrom(s, 1, S)
      BY <2>1, <2>4
    <3> HIDE DEF S
    <3>2. /\ FirstFrom(s, 1, S) \in S \cap ToSet(s)
          /\ \E j \in DOMAIN s : j >= 1 /\ s[j] = FirstFrom(s, 1, S)
                /\ \A l \in DOMAIN s : l >= 1 /\ s[l] \in S => j <= l
      BY <1>3, <3>1, FirstFacts
    <3> QED BY <3>1, <3>2 DEF S
  <2>6. ASSUME Before(s, x, ref) PROVE FALSE
    <3>1. PICK i, j \in DOMAIN s : i < j /\ s[i] = x /\ s[j] = ref
      BY <2>6 DEF Before
    <3>2. PICK f \in DOMAIN s : s[f] = ref
              /\ \A l \in DOMAIN s : l >= 1 /\ s[l] \in d.marks \ {c} => f <= l
      BY <2>5
    <3>3. f < j
      BY <1>3, <3>1, <3>2
    <3>4. Before(s, ref, ref)
      BY <3>1, <3>2, <3>3 DEF Before
    <3>5. ref \in DOMAIN type
      BY <1>3, <3>1
    <3> QED BY <1>2, <1>3, <3>4, <3>5 DEF Tidy, s
  <2> QED BY <2>5, <2>6
<1> QED BY <1>5, <1>6

-----------------------------------------------------------------------------
(* Looking up the document's element changes no node. *)
LEMMA SyncFine ==
  ASSUME Basis, NEW d, NEW U, NEW p, NEW e, Fine(e, d, U)
  PROVE  Fine(Sync(e, p), d, U)
<1> DEFINE t == FirstFrom(e.kids[Doc], 1, {n \in Inner : type[n] = Element})
           x == Sync(e, p)
<1>1. e \in Trees(type) /\ Sound(e) /\ Closed(e.kids, U) /\ e.texts = d.texts
  BY DEF Fine, Sound, Shape
<1>2. t \in DOMAIN type \cup {None}
  <2>1. e.kids[Doc] \in Seq(DOMAIN type) /\ Inner \subseteq DOMAIN type
    BY <1>1, TreesFacts, BasisFacts
  <2> SUFFICES ASSUME t # None PROVE t \in DOMAIN type
    OBVIOUS
  <2> DEFINE S == {n \in Inner : type[n] = Element}  s == e.kids[Doc]
  <2>2. S \subseteq DOMAIN type /\ s \in Seq(DOMAIN type) /\ 1 \in Int
    BY <2>1
  <2> HIDE DEF S, s
  <2>3. FirstFrom(s, 1, S) # None => FirstFrom(s, 1, S) \in S \cap ToSet(s)
    BY <2>2, FirstFacts
  <2> QED BY <2>2, <2>3 DEF S, s
<1>3. x = e \/ x = [e EXCEPT !.top = t]
  BY DEF Sync
<1> HIDE DEF t, x
<1>4. Alike(x, e, e.kids)
  BY <1>1, <1>2, <1>3 DEF Alike, Trees
<1>5. Sound(x)
  BY <1>1, <1>4, AlikeSound
<1> QED BY <1>1, <1>4, <1>5 DEF Fine, Alike, x

(* What may be put under p: it is there, and none of what p is in. *)
Movable(d, c, U) == c \in NodesOf(type, d) \ U /\ type[c] \in ChildTypes \cup {Fragment}

(* HTML: one node goes under p. *)
LEMMA LinkFine ==
  ASSUME Basis, ~Xml, NEW d, NEW U, NEW e, Fine(e, d, U), NEW p \in U, NEW c, Movable(d, c, U),
         type[c] \in ChildTypes, NEW r
  PROVE  Fine(Link(e, c, p, r), d, U) /\ Hears(Link(e, c, p, r), e, p, {c})
<1> DEFINE x == Link(e, c, p, r)  m == Linked(e.kids, c, p, r)
<1>1. /\ e \in Trees(type) /\ Shape(e) /\ Closed(e.kids, U) /\ e.texts = d.texts /\ e.marks = {}
      /\ Tidy(e.kids)
  BY DEF Fine, Sound, Shape
<1>2. p \in Inner /\ c \in NodesOf(type, e) /\ c \notin U /\ c \in DOMAIN type
  BY <1>1 DEF Movable, NodesOf, Closed
<1>3. Alike(x, e, m)
  BY <1>1, <1>2, LinkIs
<1> HIDE DEF x
<1>4. Moved(x, e, m, {})
  BY <1>1, <1>3 DEF Alike, Moved
<1>5. Shape(x) /\ Closed(x.kids, U)
  BY <1>1, <1>2, <1>4, MovedShape
<1>6. Sound(x) /\ Fine(x, d, U)
  BY <1>1, <1>4, <1>5 DEF Fine, Sound, Moved
<1>7. Sound(e)
  BY DEF Fine
<1>8. Heard(x, e) /\ x.top = e.top
  BY <1>2, <1>6, <1>7, LinkHeard DEF x
<1>9. Spreads(x, e, p, {c})
  <2>1. IsLinked(m, e.kids, c, p, r) /\ x.kids = m
    BY <1>1, <1>2, <1>3, LinkedSets DEF Alike
  <2> HIDE DEF m
  <2> QED BY <2>1 DEF Spreads, IsLinked
<1> QED BY <1>6, <1>8, <1>9 DEF Hears, x

(* HTML: what a fragment has goes under p. *)
LEMMA LinkEach ==
  ASSUME Basis, ~Xml, NEW d, NEW U, NEW b, Fine(b, d, U), NEW p \in U, NEW c, Movable(d, c, U),
         type[c] = Fragment, NEW r
  PROVE  Fine(LinkAll(b, c, p, r), d, U) /\ Hears(LinkAll(b, c, p, r), b, p, ToSet(b.kids[c]))
<1> DEFINE t == b.kids[c]
<1>0. t \in Seq(DOMAIN type) /\ \A x \in ToSet(t) : Movable(d, x, U) /\ type[x] \in ChildTypes
  <2>1. b \in Trees(type) /\ Shape(b) /\ Closed(b.kids, U) /\ NodesOf(type, b) = NodesOf(type, d)
    BY DEF Fine, Sound, Shape, NodesOf
  <2>2. c \in Inner /\ c \notin U
    BY DEF Movable, NodesOf, Inner, Branches
  <2>3. \A x \in ToSet(b.kids[c]) : Movable(d, x, U) /\ type[x] \in ChildTypes
    BY <2>1, <2>2 DEF Movable, Shape, Closed
  <2> QED BY <2>1, <2>2, <2>3, TreesFacts
<1> HIDE DEF t
<1> DEFINE s == t
           N == Len(s)
           T == Trees(type)
           step(e, x) == Link(e, x, p, r)
           R(a) == a = [i \in 0..Len(s) |-> IF i = 0 THEN b ELSE step(a[i - 1], s[i])]
           I == [i \in 0..N |-> {e \in T : Fine(e, d, U) /\ Hears(e, b, p, ToSet(t))}]
           f == [i \in 1..N |-> [e \in T |-> step(e, s[i])]]
           after == CHOOSE a : R(a)
<1>1. N \in Nat /\ N = Len(s)
  BY <1>0
<1>2. I \in [0..N -> SUBSET T]
  OBVIOUS
<1>3. b \in I[0]
  BY <1>1, HearsSelf DEF Fine, Sound, Shape
<1>4. ASSUME NEW i \in 1..N, NEW e \in I[i - 1] PROVE step(e, s[i]) \in I[i]
  <2>1. Fine(e, d, U) /\ Hears(e, b, p, ToSet(t))
    BY <1>1
  <2>5. s[i] \in ToSet(t)
    BY InToSet
  <2>2. Movable(d, s[i], U) /\ type[s[i]] \in ChildTypes
    BY <1>0, <2>5
  <2>6. I[i] = {y \in T : Fine(y, d, U) /\ Hears(y, b, p, ToSet(t))} /\ T = Trees(type)
    OBVIOUS
  <2> DEFINE x == s[i]  S == ToSet(t)
  <2> HIDE DEF s, I, x, S, T
  <2>3. Fine(step(e, x), d, U) /\ Hears(step(e, x), e, p, {x})
    BY <2>1, <2>2, LinkFine DEF x
  <2>4. {x} \subseteq S
    BY <2>5 DEF x, S
  <2> DEFINE y == step(e, x)
  <2>7. Fine(y, d, U) /\ Hears(y, e, p, {x})
    BY <2>3
  <2> HIDE DEF step, y
  <2>8. Hears(y, b, p, S)
    BY <2>1, <2>4, <2>7, HearsOn DEF S
  <2> QED BY <2>6, <2>7, <2>8 DEF Fine, Sound, Shape, x, y, S
<1>5. \E a : R(a)
  <2>1. \A i \in 1..N : \A e \in I[i - 1] : f[i][e] = step(e, s[i])
    <3>1. \A i \in 1..N : I[i - 1] \subseteq T
      <4> HIDE DEF I, N, T
      <4>1. \A i \in 1..N : i - 1 \in 0..N
        BY <1>1
      <4> QED BY <1>2, <4>1
    <3> HIDE DEF I, N, T, step
    <3> QED BY <3>1
  <2>2. Steps(N, T, I, b, f)
    <3> HIDE DEF I, f, step, N, T, s
    <3> QED BY <1>1, <1>2, <1>3, <1>4, <2>1 DEF Steps
  <2>3. PICK g : Goes(N, T, I, b, f, g)
    <3> HIDE DEF I, f, N, T
    <3> QED BY <2>2, Iterated
  <2> HIDE DEF f, I, step, N, s, T
  <2>4. \A i \in 1..N : i - 1 \in 0..N /\ i # 0
    BY <1>1
  <2>5. \A i \in 1..N : g[i - 1] \in I[i - 1] /\ g[i] = f[i][g[i - 1]]
    BY <2>3, <2>4 DEF Goes
  <2>6. \A i \in 1..N : g[i] = step(g[i - 1], s[i])
    BY <2>1, <2>5
  <2>7. DOMAIN g = 0..N /\ g = [i \in 0..N |-> g[i]] /\ g[0] = b
    BY <2>3 DEF Goes
  <2>8. \A i \in 0..N : g[i] = IF i = 0 THEN b ELSE step(g[i - 1], s[i])
    <3>1. \A i \in 0..N : i # 0 => i \in 1..N
      BY <1>1
    <3> QED BY <2>4, <2>6, <2>7, <3>1
  <2>9. g = [i \in 0..N |-> IF i = 0 THEN b ELSE step(g[i - 1], s[i])]
    BY <2>7, <2>8
  <2> QED BY <1>1, <2>9
<1>6. R(after)
  <2> HIDE DEF R
  <2> QED BY <1>5, Zenon
<1>7. after[N] \in I[N]
  <2> HIDE DEF after, I, step, N, s, T
  <2>1. after[0] = b /\ \A i \in 1..N : after[i] = step(after[i - 1], s[i])
    <3>1. after = [i \in 0..N |-> IF i = 0 THEN b ELSE step(after[i - 1], s[i])]
      BY <1>1, <1>6
    <3>2. 0 \in 0..N /\ \A i \in 1..N : i \in 0..N /\ i # 0
      BY <1>1
    <3> QED BY <3>1, <3>2
  <2>2. Keeps(N, I, after)
    BY <1>1, <1>3, <1>4, <2>1 DEF Keeps
  <2> QED BY <2>2, Followed
<1>8. Fine(after[N], d, U) /\ Hears(after[N], b, p, ToSet(t))
  <2>1. I[N] = {e \in T : Fine(e, d, U) /\ Hears(e, b, p, ToSet(t))}
    BY <1>1
  <2> HIDE DEF I, after, N
  <2> QED BY <1>7, <2>1
<1>9. LinkAll(b, c, p, r) = after[N]
  BY DEF LinkAll, Each, t
<1> QED BY <1>8, <1>9 DEF t

(* A fragment gives its children, one after the other. *)
Gives(d, c) == IF type[c] = Fragment THEN ToSet(d.kids[c]) ELSE {c}

(* HTML: what c stands for goes under p (lxb_dom_node_append_child). *)
LEMMA LinkAllFine ==
  ASSUME Basis, ~Xml, NEW d, NEW U, NEW b, Fine(b, d, U), NEW p \in U, NEW c, Movable(d, c, U),
         NEW r
  PROVE  Fine(LinkAll(b, c, p, r), d, U) /\ Hears(LinkAll(b, c, p, r), b, p, Gives(b, c))
<1>2. CASE type[c] # Fragment
  <2>1. type[c] \in ChildTypes
    BY <1>2 DEF Movable
  <2> QED BY <1>2, <2>1, LinkFine DEF LinkAll, Gives
<1>3. CASE type[c] = Fragment
  BY <1>3, LinkEach DEF Gives
<1> QED BY <1>2, <1>3

(* HTML: what has been moved to p, and the document's element looked up again if p is it. *)
LEMMA SyncBrings ==
  ASSUME Basis, ~Xml, NEW b, NEW p, NEW S, NEW x, Sound(x), Hears(x, b, p, S), Sound(Sync(x, p))
  PROVE  Brings(Sync(x, p), b, p, S)
<1> DEFINE y == Sync(x, p)
<1>1. /\ y.kids = x.kids /\ Heard(y, x) /\ (p # Doc => y = x)
      /\ p = Doc /\ Lone(ToSet(x.kids[Doc])) => Topped(y)
  BY SyncTops
<1> HIDE DEF y
<1>2. Heard(x, b) /\ Spreads(x, b, p, S) /\ x.top = b.top /\ Doc \in Inner
  BY BasisFacts DEF Hears
<1>3. Heard(y, b)
  BY <1>1, <1>2, HeardOn
<1>4. Spreads(y, b, p, S)
  BY <1>1, <1>2 DEF Spreads
<1>5. ASSUME Topped(b), Lone(ToSet(b.kids[Doc]) \cup (IF p = Doc THEN S ELSE {}))
      PROVE  Topped(y)
  <2>1. ToSet(x.kids[Doc]) \subseteq ToSet(b.kids[Doc]) \cup (IF p = Doc THEN S ELSE {})
    BY <1>2 DEF Spreads
  <2>2. CASE p = Doc
    BY <1>1, <1>5, <2>1, <2>2 DEF Lone
  <2>3. CASE p # Doc
    BY <1>1, <1>2, <1>5, <2>1, <2>3 DEF Topped
  <2> QED BY <2>2, <2>3
<1> QED BY <1>3, <1>4, <1>5 DEF Brings, y

(* One argument goes under p, and the node it goes before stays. *)
LEMMA AttachFine ==
  ASSUME Basis, NEW d, NEW U, NEW b, Fine(b, d, U), NEW p \in U, NEW c, Movable(d, c, U), NEW r,
         Spot(b, p, r)
  PROVE  /\ Fine(Attach(b, c, p, r), d, U) /\ Spot(Attach(b, c, p, r), p, r)
         /\ Brings(Attach(b, c, p, r), b, p, Gives(b, c))
<1>1. /\ b \in Trees(type) /\ Shape(b) /\ Closed(b.kids, U) /\ b.texts = d.texts /\ Tidy(b.kids)
      /\ Sound(b) /\ NodesOf(type, b) = NodesOf(type, d)
  BY DEF Fine, Sound, Shape, NodesOf
<1>2. p \in Inner /\ c \in NodesOf(type, b) /\ c \notin U /\ c \in DOMAIN type /\ Doc \in Inner
  BY <1>1, BasisFacts DEF Movable, NodesOf, Closed
<1>3. CASE ~Xml
  <2> DEFINE x == LinkAll(b, c, p, IF c = r THEN NextOf(b, c) ELSE r)
  <2>1. Fine(x, d, U) /\ Hears(x, b, p, Gives(b, c))
    BY <1>3, LinkAllFine
  <2>2. Attach(b, c, p, r) = Sync(x, p)
    BY <1>3 DEF Attach
  <2> HIDE DEF x
  <2>3. Fine(Sync(x, p), d, U)
    BY <2>1, SyncFine
  <2>4. Brings(Sync(x, p), b, p, Gives(b, c))
    BY <1>3, <2>1, <2>3, SyncBrings DEF Fine
  <2> QED BY <1>3, <2>2, <2>3, <2>4 DEF Spot
<1>4. CASE Xml /\ c = r
  BY <1>4 DEF Attach, Brings
<1>5. CASE Xml /\ c # r
  <2> DEFINE ref == IF r = None /\ p = Doc THEN Storage(b, c) ELSE r
             l == Link(b, c, p, ref)  x == [l EXCEPT !.marks = @ \ {c}]
             m == Linked(b.kids, c, p, ref)
  <2>1. Attach(b, c, p, r) = x
    BY <1>5 DEF Attach
  <2>2. Fits(b, c, p, ref)
    BY <1>1, <1>5, StorageFits
  <2> HIDE DEF ref
  <2>3. Alike(l, b, m)
    BY <1>1, <1>2, LinkIs
  <2>9. IsLinked(m, b.kids, c, p, ref)
    BY <1>1, <1>2, LinkedSets
  <2> HIDE DEF l
  <2>4. Moved(x, b, m, b.marks \ {c})
    BY <2>3 DEF Alike, Moved, Trees
  <2> HIDE DEF x
  <2>5. type[c] \in ChildTypes
    BY <1>2, <1>5, BasisFacts DEF Movable
  <2>6. Shape(x) /\ Closed(x.kids, U)
    BY <1>1, <1>2, <2>4, <2>5, MovedShape
  <2>7. BehindBut(b, c)
    BY <1>1, <1>5 DEF Sound, Behind, BehindBut
  <2>8. Behind(x)
    BY <1>1, <1>2, <2>2, <2>4, <2>7, MovedBehind
  <2>10. Spot(x, p, r)
    <3> HIDE DEF m
    <3>1. x.kids = m /\ x.marks = b.marks \ {c} /\ ToSet(m[p]) = ToSet(b.kids[p]) \cup {c}
      BY <2>4, <2>9 DEF Moved, IsLinked
    <3> QED BY <3>1 DEF Spot
  <2> QED BY <1>1, <1>5, <2>1, <2>4, <2>6, <2>8, <2>10 DEF Fine, Sound, Moved, Brings
<1> QED BY <1>3, <1>4, <1>5

(* HTML: x is nowhere. *)
Out(e, x) == ~Xml => \A q \in Inner : x \notin ToSet(e.kids[q])

(* A node is removed, and a node that others go before stays. *)
LEMMA DetachFine ==
  ASSUME Basis, NEW d, NEW U, NEW b, Fine(b, d, U), NEW c \in NodesOf(type, d),
         type[c] \in ChildTypes, NEW p, NEW r, Spot(b, p, r), r # c
  PROVE  /\ Fine(Detach(b, c), d, U) /\ Spot(Detach(b, c), p, r)
         /\ Brings(Detach(b, c), b, None, {}) /\ Out(Detach(b, c), c)
<1>1. /\ b \in Trees(type) /\ Shape(b) /\ Closed(b.kids, U) /\ b.texts = d.texts /\ Tidy(b.kids)
      /\ Sound(b) /\ NodesOf(type, b) = NodesOf(type, d)
  BY DEF Fine, Sound, Shape, NodesOf
<1>2. c \in NodesOf(type, b) /\ c \in DOMAIN type /\ Doc \in Inner /\ c # Doc /\ Doc \in U
  BY <1>1, BasisFacts DEF NodesOf, Closed
<1>3. CASE ~Xml
  <2> DEFINE x == Unlink(b, c)  k == Loose(b.kids, c)  a == Above(b, c)
  <2>1. Alike(x, b, Loose(b.kids, c)) /\ Heard(x, b) /\ x.top = b.top
    BY <1>1, <1>2, <1>3, UnlinkHeard
  <2>2. Detach(b, c) = Sync(x, Above(b, c))
    BY <1>3 DEF Detach
  <2> HIDE DEF x
  <2>3. Shape(x) /\ Closed(x.kids, U)
    BY <1>1, <1>2, <2>1, LooseShape
  <2>4. Fine(x, d, U)
    BY <1>1, <1>3, <2>1, <2>3 DEF Fine, Sound, Alike
  <2>5. Fine(Sync(x, Above(b, c)), d, U)
    BY <2>4, SyncFine
  <2>6. x.kids = k /\ \A q \in Inner : ToSet(k[q]) = ToSet(b.kids[q]) \ {c}
    BY <1>1, <2>1, LooseFacts DEF Alike
  <2>7. Fine(Sync(x, a), d, U) /\ Sound(x)
    BY <2>4, <2>5 DEF Fine
  <2> HIDE DEF k, a
  <2>8. Hears(x, b, a, {})
    BY <2>1, <2>6 DEF Hears, Spreads
  <2>9. Brings(Sync(x, a), b, a, {})
    BY <1>3, <2>7, <2>8, SyncBrings DEF Fine
  <2>10. Brings(Sync(x, a), b, None, {})
    <3>1. Lone(ToSet(b.kids[Doc])) => Lone(ToSet(b.kids[Doc]) \cup (IF a = Doc THEN {} ELSE {}))
      BY DEF Lone
    <3>2. Topped(b) => Lone(ToSet(b.kids[Doc]))
      BY DEF Topped, Lone
    <3> QED BY <2>9, <3>1, <3>2 DEF Brings, Spreads
  <2>11. Sync(x, a).kids = x.kids
    BY <2>7, SyncTops DEF Fine
  <2>12. Out(Sync(x, a), c)
    BY <2>6, <2>11 DEF Out
  <2> QED BY <1>3, <2>2, <2>7, <2>10, <2>12 DEF Spot, a
<1>4. CASE Xml
  <2> DEFINE l == Link(b, c, Doc, None)  x == [l EXCEPT !.marks = @ \cup {c}]
             m == Linked(b.kids, c, Doc, None)
  <2>1. Detach(b, c) = x
    BY <1>4 DEF Detach
  <2>2. Alike(l, b, m)
    BY <1>1, <1>2, LinkIs
  <2>3. IsLinked(m, b.kids, c, Doc, None) /\ Closed(m, U)
    BY <1>1, <1>2, LinkedSets, LinkedTidy
  <2> HIDE DEF l
  <2>4. Moved(x, b, m, b.marks \cup {c})
    <3>1. b.marks \cup {c} \in SUBSET DOMAIN type
      BY <1>1, <1>2, TreesFacts
    <3> QED BY <2>2, <3>1 DEF Alike, Moved, Trees
  <2> HIDE DEF x
  <2>5. Closed(b.kids, {Doc})
    BY <1>1, OnlyDoc
  <2>6. Shape(x)
    BY <1>1, <1>2, <2>4, <2>5, MovedShape
  <2>7. BehindBut(b, c)
    BY <1>1, <1>4 DEF Sound, Behind, BehindBut
  <2>8. Behind(x)
    BY <1>1, <1>2, <2>4, <2>7, LastBehind
  <2> HIDE DEF m
  <2>9. Spot(x, p, r)
    <3>1. x.kids = m /\ x.marks = b.marks \cup {c} /\ ToSet(m[Doc]) = ToSet(b.kids[Doc]) \cup {c}
      BY <2>3, <2>4 DEF Moved, IsLinked
    <3> QED BY <3>1 DEF Spot
  <2> QED BY <1>1, <1>4, <2>1, <2>3, <2>4, <2>6, <2>8, <2>9 DEF Fine, Sound, Moved, Brings, Out
<1> QED BY <1>3, <1>4

(* A new text, t: e is d with it, before it has a place. *)
Grows(e, d, t) ==
    /\ e \in Trees(type) /\ e.kids = d.kids /\ e.marks = d.marks
    /\ e.texts = d.texts \cup {t} /\ e.blank = d.blank \ {t}

(* A new text has no place, and fits behind the children of any node. *)
LEMMA GrowsFacts ==
  ASSUME Basis, NEW d, Shape(d), NEW U, Closed(d.kids, U), NEW t \in Pool \ d.texts, NEW e,
         Grows(e, d, t)
  PROVE  /\ Shape(e) /\ Closed(e.kids, U) /\ t \in NodesOf(type, e) /\ type[t] \in ChildTypes
         /\ t \notin U /\ t \in DOMAIN type /\ NodesOf(type, e) = NodesOf(type, d) \cup {t}
         /\ t \notin NodesOf(type, d) /\ \A q \in Inner : t \notin ToSet(e.kids[q])
         /\ \A p \in Inner : Linked(e.kids, t, p, None) = [e.kids EXCEPT ![p] = Append(@, t)]
<1>1. /\ t \in Texts /\ t \in DOMAIN type /\ t \notin d.texts /\ t \notin Inner
      /\ type[t] \in ChildTypes
  BY BasisFacts DEF Pool
<1>2. /\ e \in Trees(type) /\ e.kids = d.kids /\ e.blank = d.blank \ {t}
      /\ NodesOf(type, e) = NodesOf(type, d) \cup {t} /\ t \notin NodesOf(type, d)
  BY <1>1 DEF Grows, NodesOf
<1>3. Shape(e) /\ Closed(e.kids, U) /\ t \notin U
  BY <1>1, <1>2 DEF Shape, Closed
<1>4. \A q \in Inner : t \notin ToSet(e.kids[q])
  BY <1>2 DEF Shape
<1>5. None \notin DOMAIN type
  BY BasisFacts
<1>6. ASSUME NEW p \in Inner
      PROVE  Linked(e.kids, t, p, None) = [e.kids EXCEPT ![p] = Append(@, t)]
  <2>1. \A q \in Inner : Without(e.kids[q], {t}) = e.kids[q]
    BY <1>4 DEF Without
  <2>2. None \notin ToSet(e.kids[p])
    BY <1>5, <1>2 DEF Shape, NodesOf
  <2>3. Inserted(e.kids[p], t, None) = Append(e.kids[p], t)
    BY <2>2 DEF Inserted
  <2>4. e.kids = [q \in Inner |-> e.kids[q]]
    BY <1>2, TreesFacts
  <2> QED BY <2>1, <2>3, <2>4 DEF Linked
<1> QED BY <1>1, <1>2, <1>3, <1>4, <1>6

(* There is a new text when there is room for one. *)
LEMMA FreshIs == ASSUME NEW d, Pool \ d.texts # {} PROVE Fresh(d) \in Pool \ d.texts
<1>1. \E s \in Pool : s \notin d.texts
  OBVIOUS
<1> QED BY <1>1 DEF Fresh

Created(e, d, t, U) ==
    /\ Sound(e) /\ Closed(e.kids, U) /\ e.texts = d.texts \cup {t} /\ Movable(e, t, U)
    /\ t \in Pool \ d.texts

(* A string becomes a text: XML stores it, HTML gives it no place yet. *)
LEMMA CreateTextFine ==
  ASSUME Basis, NEW d, NEW U, Sound(d), Closed(d.kids, U), Pool \ d.texts # {}, NEW p, NEW r,
         Spot(d, p, r)
  PROVE  /\ Created(CreateText(d), d, Fresh(d), U) /\ Spot(CreateText(d), p, r)
         /\ Brings(CreateText(d), d, None, {})
<1> DEFINE t == Fresh(d)  e == [d EXCEPT !.texts = @ \cup {t}, !.blank = @ \ {t}]
           x == [e EXCEPT !.kids[Doc] = Append(@, t), !.marks = @ \cup {t}]
<1>1. t \in Pool \ d.texts
  BY FreshIs
<1>2. CreateText(d) = IF Xml THEN x ELSE e
  BY DEF CreateText
<1> HIDE DEF t
<1>3. Shape(d) /\ d \in Trees(type) /\ t \in Texts \cap DOMAIN type
  BY <1>1 DEF Sound, Shape, Pool
<1>4. Grows(e, d, t)
  BY <1>3 DEF Grows, Trees
<1>5. x = [e EXCEPT !.kids = [e.kids EXCEPT ![Doc] = Append(@, t)], !.marks = e.marks \cup {t}]
  BY <1>3 DEF Trees
<1> HIDE DEF e
<1>6. /\ Shape(e) /\ Closed(e.kids, U) /\ t \in NodesOf(type, e) /\ type[t] \in ChildTypes
      /\ t \notin U /\ t \in DOMAIN type /\ NodesOf(type, e) = NodesOf(type, d) \cup {t}
      /\ t \notin NodesOf(type, d) /\ \A q \in Inner : t \notin ToSet(e.kids[q])
      /\ \A q \in Inner : Linked(e.kids, t, q, None) = [e.kids EXCEPT ![q] = Append(@, t)]
  BY <1>1, <1>3, <1>4, GrowsFacts
<1>9. e.kids = d.kids /\ e.told = d.told /\ e.top = d.top
  BY <1>3 DEF Trees, e
<1>7. CASE ~Xml
  <2>1. Created(e, d, t, U) /\ Spot(e, p, r)
    BY <1>1, <1>4, <1>6, <1>7 DEF Created, Movable, Sound, Grows, Spot
  <2>2. Heard(e, d)
    BY <1>7, <1>9, <2>1, HeardLike DEF Created
  <2>3. Brings(e, d, None, {})
    BY <1>9, <2>2 DEF Brings, Spreads, Topped
  <2> QED BY <1>2, <1>7, <2>1, <2>3 DEF t
<1>8. CASE Xml
  <2> DEFINE m == Linked(e.kids, t, Doc, None)
  <2>1. Doc \in Inner /\ Doc \in U
    BY BasisFacts DEF Closed
  <2>2. IsLinked(m, e.kids, t, Doc, None) /\ m = [e.kids EXCEPT ![Doc] = Append(@, t)]
    BY <1>6, <2>1, LinkedSets DEF Shape
  <2> HIDE DEF m
  <2>3. x = [e EXCEPT !.kids = m, !.marks = e.marks \cup {t}]
    BY <1>5, <2>2
  <2> HIDE DEF x
  <2>4. Moved(x, e, m, e.marks \cup {t})
    <3>1. /\ m \in [Inner -> Seq(DOMAIN type)] /\ e \in Trees(type)
          /\ e.marks \cup {t} \in SUBSET DOMAIN type
      BY <1>4, <1>6, <2>2, TreesFacts DEF IsLinked, Shape
    <3> QED BY <2>3, <3>1 DEF Moved, Trees, Inner
  <2>5. Shape(x) /\ Closed(x.kids, U)
    BY <1>6, <2>1, <2>4, MovedShape DEF m
  <2>6. BehindBut(e, t)
    BY <1>4, <1>6, <1>8 DEF Sound, Behind, BehindBut, Grows
  <2>7. Behind(x)
    BY <1>6, <2>4, <2>6, LastBehind DEF m
  <2>8. x.kids = m /\ x.marks = d.marks \cup {t} /\ ToSet(m[Doc]) = ToSet(d.kids[Doc]) \cup {t}
        /\ x.texts = d.texts \cup {t} /\ NodesOf(type, x) = NodesOf(type, e)
    BY <1>4, <2>2, <2>4 DEF Moved, IsLinked, Grows, NodesOf
  <2>9. t \notin ToSet(d.kids[Doc])
    BY <1>4, <1>6, <2>1 DEF Grows
  <2>10. Spot(x, p, r)
    BY <2>8, <2>9 DEF Spot
  <2> QED BY <1>1, <1>2, <1>6, <1>8, <2>5, <2>7, <2>8, <2>10 DEF Created, Movable, Sound, Brings, t
<1> QED BY <1>7, <1>8

(* What no script can hold any more is freed. *)
LEMMA DiscardSound ==
  ASSUME Basis, NEW d, Sound(d), NEW c \in DOMAIN type, type[c] \in ChildTypes,
         c \in held \/ c \in Texts
  PROVE  /\ Sound(Discard(d, c))
         /\ Discard(d, c).texts = IF c \in held THEN d.texts ELSE d.texts \ {c}
         /\ Brings(Discard(d, c), d, None, {})
<1>1. Shape(d) /\ d \in Trees(type) /\ Closed(d.kids, {Doc}) /\ Tidy(d.kids)
  BY OnlyDoc DEF Sound, Shape
<1>2. CASE c \in held
  <2>1. Fine(d, d, {Doc}) /\ Spot(d, None, None) /\ c \in NodesOf(type, d) /\ None # c
    BY <1>1, <1>2, BasisFacts DEF Fine, Spot, Sound, Shape
  <2>2. Fine(Detach(d, c), d, {Doc}) /\ Brings(Detach(d, c), d, None, {})
    BY <2>1, DetachFine
  <2> QED BY <1>2, <2>2 DEF Discard, Fine
<1>3. CASE c \notin held
  <2> DEFINE u == Unlink(d, c)  l == Loose(d.kids, c)
             x == [u EXCEPT !.texts = @ \ {c}, !.blank = @ \ {c}, !.marks = @ \ {c}]
  <2>1. Discard(d, c) = x
    BY <1>3 DEF Discard
  <2>2. Alike(u, d, l)
    BY <1>1, UnlinkIs
  <2>3. /\ Tidy(l) /\ \A q \in Inner : ToSet(l[q]) = ToSet(d.kids[q]) \ {c}
        /\ \A q \in Inner : \A y, z \in DOMAIN type : Before(l[q], y, z) => Before(d.kids[q], y, z)
    BY <1>1, LooseFacts
  <2>9. ~Xml => Heard(u, d) /\ Sound(u) /\ u.top = d.top
    BY UnlinkHeard
  <2> HIDE DEF u, l
  <2>10. x.kids = u.kids /\ x.told = u.told /\ x.top = u.top
    BY <2>2 DEF Alike, Trees
  <2>4. /\ x \in Trees(type) /\ x.kids = l /\ x.marks = d.marks \ {c} /\ x.blank = d.blank \ {c}
        /\ x.texts = d.texts \ {c}
    BY <2>2 DEF Alike, Trees
  <2> HIDE DEF x
  <2>5. NodesOf(type, x) = NodesOf(type, d) \ {c}
    BY <1>3, <2>4 DEF NodesOf
  <2>6. Shape(x)
    BY <1>1, <1>3, <2>3, <2>4, <2>5 DEF Shape
  <2>7. Xml => Behind(x)
    <3>1. SUFFICES ASSUME Xml PROVE Behind(x)
      OBVIOUS
    <3>2. Behind(d) /\ Doc \in Inner
      BY <3>1, BasisFacts DEF Sound
    <3>3. x.marks \subseteq ToSet(l[Doc])
      BY <2>3, <2>4, <3>2 DEF Behind
    <3>4. \A n \in NodesOf(type, x) \ {Doc} : \E q \in Inner : n \in ToSet(l[q])
      BY <2>3, <2>5, <3>2 DEF Behind
    <3>5. ASSUME NEW y \in DOMAIN type, NEW z \in DOMAIN type, Before(l[Doc], y, z), y \in x.marks
          PROVE  z \in x.marks
      <4>1. z \in ToSet(l[Doc])
        BY <3>5, InToSet DEF Before
      <4>2. z # c /\ Before(d.kids[Doc], y, z)
        BY <2>3, <3>2, <3>5, <4>1
      <4> QED BY <2>4, <3>2, <3>5, <4>2 DEF Behind
    <3> QED BY <2>4, <3>3, <3>4, <3>5 DEF Behind
  <2>8. ~Xml => x.marks = {}
    BY <2>4 DEF Sound
  <2>11. Sound(x)
    BY <2>6, <2>7, <2>8 DEF Sound
  <2>12. Brings(x, d, None, {})
    <3> SUFFICES ASSUME ~Xml PROVE Brings(x, d, None, {})
      BY DEF Brings
    <3>1. Heard(x, u)
      BY <2>9, <2>10, <2>11, HeardLike
    <3>2. Heard(x, d) /\ x.top = d.top
      BY <2>9, <2>10, <3>1, HeardOn
    <3>3. Doc \in Inner
      BY BasisFacts
    <3> QED BY <2>3, <2>4, <3>2, <3>3 DEF Brings, Spreads, Topped
  <2> QED BY <1>3, <2>1, <2>4, <2>11, <2>12
<1> QED BY <1>2, <1>3

-----------------------------------------------------------------------------
(* The loops over arguments: taking them out, and putting them in. *)
Takable(d, t, r) ==
    /\ t \in Seq(DOMAIN type \cup {Word})
    /\ \A x \in ToSet(t) \ {Word} :
          x \in NodesOf(type, d) /\ type[x] \in ChildTypes \cup {Fragment} /\ x # r

(* What has been taken out of everything stays out when others are. *)
Cleared(e, t, i) == \A k \in 1..i : t[k] # Word /\ TypeOf(t[k]) # Fragment => Out(e, t[k])

(* What has been taken out stays out when others are. *)
LEMMA OutOn ==
  ASSUME NEW e, NEW y, Brings(y, e, None, {}), NEW n, Out(e, n), None \notin Inner
  PROVE  Out(y, n)
BY DEF Out, Brings, Spreads

(* A node that has a parent is removed. *)
LEMMA RemoveFine ==
  ASSUME Basis, NEW d, NEW U, NEW b, Fine(b, d, U), NEW c \in NodesOf(type, d),
         type[c] \in ChildTypes, NEW p, NEW r, Spot(b, p, r), r # c
  PROVE  /\ Fine(RemoveVoid(b, c), d, U) /\ Spot(RemoveVoid(b, c), p, r)
         /\ Brings(RemoveVoid(b, c), b, None, {}) /\ Out(RemoveVoid(b, c), c)
<1>1. CASE Parent(b, c) # None
  BY <1>1, DetachFine DEF RemoveVoid
<1>2. CASE Parent(b, c) = None
  <2>1. Out(b, c)
    <3> SUFFICES ASSUME ~Xml PROVE \A q \in Inner : c \notin ToSet(b.kids[q])
      BY DEF Out
    <3>1. b \in Trees(type) /\ b.marks = {}
      BY DEF Fine, Sound, Shape
    <3>2. DOMAIN b.kids = Inner /\ None \notin Inner
      BY <3>1, TreesFacts, BasisFacts
    <3>3. Above(b, c) = None
      BY <1>2, <3>1, HtmlKids
    <3> QED BY <3>2, <3>3, AboveIs
  <2>2. RemoveVoid(b, c) = b
    BY <1>2 DEF RemoveVoid
  <2> QED BY <2>1, <2>2, HearsSelf
<1> QED BY <1>1, <1>2

(* All arguments are taken out (detach_nodes). *)
LEMMA DetachEachFine ==
  ASSUME Basis, NEW d, NEW U, NEW b, Fine(b, d, U), NEW t, NEW p, NEW r, Takable(d, t, r),
         Spot(b, p, r)
  PROVE  /\ Fine(DetachEach(b, t), d, U) /\ Spot(DetachEach(b, t), p, r)
         /\ Brings(DetachEach(b, t), b, None, {}) /\ Cleared(DetachEach(b, t), t, Len(t))
<1> DEFINE s == t
           N == Len(s)
           T == Trees(type)
           step(e, x) == IF TypeOf(x) = Fragment \/ x = Word THEN e ELSE RemoveVoid(e, x)
           R(a) == a = [i \in 0..Len(s) |-> IF i = 0 THEN b ELSE step(a[i - 1], s[i])]
           I == [i \in 0..N |-> {e \in T : /\ Fine(e, d, U) /\ Spot(e, p, r)
                                        /\ Brings(e, b, None, {}) /\ Cleared(e, t, i)}]
           f == [i \in 1..N |-> [e \in T |-> step(e, s[i])]]
           after == CHOOSE a : R(a)
<1>1. N \in Nat /\ N = Len(s)
  BY DEF Takable
<1>2. I \in [0..N -> SUBSET T]
  OBVIOUS
<1>3. b \in I[0]
  <2>1. Cleared(b, t, 0) /\ Brings(b, b, None, {})
    BY HearsSelf DEF Cleared
  <2> QED BY <1>1, <2>1 DEF Fine, Sound, Shape
<1>4. ASSUME NEW i \in 1..N, NEW e \in I[i - 1] PROVE step(e, s[i]) \in I[i]
  <2>1. Fine(e, d, U) /\ Spot(e, p, r) /\ Brings(e, b, None, {}) /\ Cleared(e, t, i - 1)
    BY <1>1
  <2>2. s[i] \in ToSet(t)
    BY <1>1, InToSet DEF Takable
  <2> DEFINE c == s[i]  y == step(e, c)
  <2>3. I[i] = {z \in T : /\ Fine(z, d, U) /\ Spot(z, p, r)
                         /\ Brings(z, b, None, {}) /\ Cleared(z, t, i)} /\ T = Trees(type)
    OBVIOUS
  <2>4. c = t[i] /\ c \in ToSet(t)
    BY <2>2
  <2>5. y = IF TypeOf(c) = Fragment \/ c = Word THEN e ELSE RemoveVoid(e, c)
    OBVIOUS
  <2> HIDE DEF s, I, T, step, y, c
  <2>6. /\ Fine(y, d, U) /\ Spot(y, p, r) /\ Brings(y, e, None, {})
        /\ c # Word /\ TypeOf(c) # Fragment => Out(y, c)
    <3>1. CASE TypeOf(c) = Fragment \/ c = Word
      BY <2>1, <2>5, <3>1, HearsSelf
    <3>2. CASE TypeOf(c) # Fragment /\ c # Word
      <4>1. c \in NodesOf(type, d) /\ type[c] \in ChildTypes /\ r # c
        BY <2>4, <3>2 DEF TypeOf, Takable
      <4> QED BY <2>1, <2>5, <3>2, <4>1, RemoveFine
    <3> QED BY <3>1, <3>2
  <2>7. Brings(y, b, None, {})
    BY <2>1, <2>6, BringsOn
  <2>8. Cleared(y, t, i)
    <3>1. \A k \in 1..i : k \in 1..(i - 1) \/ k = i
      BY <1>1
    <3>2. None \notin Inner
      BY BasisFacts
    <3>3. \A k \in 1..(i - 1) : Out(e, t[k]) => Out(y, t[k])
      BY <2>6, <3>2, OutOn
    <3> QED BY <2>1, <2>4, <2>6, <3>1, <3>3 DEF Cleared
  <2>9. y \in T
    BY <2>3, <2>6 DEF Fine, Sound, Shape
  <2>10. y \in I[i]
    BY <2>3, <2>6, <2>7, <2>8, <2>9
  <2> QED BY <2>10 DEF y, c
<1>5. \E a : R(a)
  <2>1. \A i \in 1..N : \A e \in I[i - 1] : f[i][e] = step(e, s[i])
    <3>1. \A i \in 1..N : I[i - 1] \subseteq T
      <4> HIDE DEF I, N, T
      <4>1. \A i \in 1..N : i - 1 \in 0..N
        BY <1>1
      <4> QED BY <1>2, <4>1
    <3> HIDE DEF I, N, T, step
    <3> QED BY <3>1
  <2>2. Steps(N, T, I, b, f)
    <3> HIDE DEF I, f, step, N, T, s
    <3> QED BY <1>1, <1>2, <1>3, <1>4, <2>1 DEF Steps
  <2>3. PICK g : Goes(N, T, I, b, f, g)
    <3> HIDE DEF I, f, N, T
    <3> QED BY <2>2, Iterated
  <2> HIDE DEF f, I, step, N, s, T
  <2>4. \A i \in 1..N : i - 1 \in 0..N /\ i # 0
    BY <1>1
  <2>5. \A i \in 1..N : g[i - 1] \in I[i - 1] /\ g[i] = f[i][g[i - 1]]
    BY <2>3, <2>4 DEF Goes
  <2>6. \A i \in 1..N : g[i] = step(g[i - 1], s[i])
    BY <2>1, <2>5
  <2>7. DOMAIN g = 0..N /\ g = [i \in 0..N |-> g[i]] /\ g[0] = b
    BY <2>3 DEF Goes
  <2>8. \A i \in 0..N : g[i] = IF i = 0 THEN b ELSE step(g[i - 1], s[i])
    <3>1. \A i \in 0..N : i # 0 => i \in 1..N
      BY <1>1
    <3> QED BY <2>4, <2>6, <2>7, <3>1
  <2>9. g = [i \in 0..N |-> IF i = 0 THEN b ELSE step(g[i - 1], s[i])]
    BY <2>7, <2>8
  <2> QED BY <1>1, <2>9
<1>6. R(after)
  <2> HIDE DEF R
  <2> QED BY <1>5, Zenon
<1>7. after[N] \in I[N]
  <2> HIDE DEF after, I, step, N, s, T
  <2>1. after[0] = b /\ \A i \in 1..N : after[i] = step(after[i - 1], s[i])
    <3>1. after = [i \in 0..N |-> IF i = 0 THEN b ELSE step(after[i - 1], s[i])]
      BY <1>1, <1>6
    <3>2. 0 \in 0..N /\ \A i \in 1..N : i \in 0..N /\ i # 0
      BY <1>1
    <3> QED BY <3>1, <3>2
  <2>2. Keeps(N, I, after)
    BY <1>1, <1>3, <1>4, <2>1 DEF Keeps
  <2> QED BY <2>2, Followed
<1>8. /\ Fine(after[N], d, U) /\ Spot(after[N], p, r)
      /\ Brings(after[N], b, None, {}) /\ Cleared(after[N], t, N)
  <2>1. I[N] = {e \in T : /\ Fine(e, d, U) /\ Spot(e, p, r)
                         /\ Brings(e, b, None, {}) /\ Cleared(e, t, N)}
    BY <1>1
  <2> HIDE DEF I, after, N
  <2> QED BY <1>7, <2>1
<1>9. DetachEach(b, t) = after[N]
  BY DEF DetachEach, Each
<1> QED BY <1>8, <1>9

(* The strings that are still to come, and room for them. *)
Left(t, i) == {j \in DOMAIN t : j > i /\ t[j] = Word}
Fitting(e, t, i) == Cardinality(Left(t, i)) <= Cardinality(Pool \ e.texts)

(* The room for the strings that are to come, after each argument. *)
LEMMA LeftFacts ==
  ASSUME Basis, NEW S, NEW t \in Seq(S), NEW i \in 1..Len(t), NEW e, Fitting(e, t, i - 1)
  PROVE  /\ t[i] # Word => Fitting(e, t, i)
         /\ t[i] = Word => /\ Pool \ e.texts # {}
                           /\ \A x \in Pool \ e.texts : \A y :
                                  y.texts = e.texts \cup {x} => Fitting(y, t, i)
<1>1. IsFiniteSet(Pool \ e.texts) /\ IsFiniteSet(Left(t, i)) /\ IsFiniteSet(Left(t, i - 1))
  <2>1. IsFiniteSet(1..Len(t))
    BY FS_Interval
  <2>2. Left(t, i) \subseteq 1..Len(t) /\ Left(t, i - 1) \subseteq 1..Len(t)
    BY DEF Left
  <2>3. IsFiniteSet(DOMAIN type) /\ Pool \ e.texts \subseteq DOMAIN type
    BY BasisFacts DEF Pool
  <2> QED BY <2>1, <2>2, <2>3, FS_Subset
<1>2. CASE t[i] # Word
  <2>1. Left(t, i - 1) = Left(t, i)
    BY <1>2 DEF Left
  <2> QED BY <1>2, <2>1 DEF Fitting
<1>3. CASE t[i] = Word
  <2>1. Left(t, i - 1) = Left(t, i) \cup {i} /\ i \notin Left(t, i)
    BY <1>3 DEF Left
  <2>2. Cardinality(Left(t, i - 1)) = Cardinality(Left(t, i)) + 1 /\ Cardinality(Left(t, i)) \in Nat
    <3> HIDE DEF Left
    <3> QED BY <1>1, <2>1, FS_AddElement, FS_CardinalityType
  <2>3. Cardinality(Pool \ e.texts) \in Nat
    BY <1>1, FS_CardinalityType
  <2>4. Pool \ e.texts # {}
    <3> DEFINE P == Pool \ e.texts
    <3>1. Cardinality(P) # 0 /\ IsFiniteSet(P)
      BY <1>1, <2>2, <2>3 DEF Fitting
    <3> HIDE DEF P
    <3>2. P # {}
      BY <3>1, FS_EmptySet
    <3> QED BY <3>2 DEF P
  <2>5. ASSUME NEW x \in Pool \ e.texts, NEW y, y.texts = e.texts \cup {x} PROVE Fitting(y, t, i)
    <3>1. Pool \ y.texts = (Pool \ e.texts) \ {x}
      BY <2>5
    <3>2. Cardinality(Pool \ y.texts) = Cardinality(Pool \ e.texts) - 1
      <4> DEFINE P == Pool \ e.texts
      <4>1. IsFiniteSet(P) /\ x \in P
        BY <1>1, <2>5
      <4> HIDE DEF P
      <4>2. Cardinality(P \ {x}) = Cardinality(P) - 1
        BY <4>1, FS_RemoveElement
      <4> QED BY <3>1, <4>2 DEF P
    <3> QED BY <2>2, <2>3, <3>2 DEF Fitting
  <2> QED BY <1>3, <2>4, <2>5
<1> QED BY <1>2, <1>3

Going(e, b, U, p, r) ==
    Sound(e) /\ Closed(e.kids, U) /\ Spot(e, p, r) /\ b.texts \subseteq e.texts

Placeable(b, t, U) ==
    /\ t \in Seq(DOMAIN type \cup {Word}) /\ Room(b, t)
    /\ \A x \in ToSet(t) \ {Word} : Movable(b, x, U)

(* All that the arguments stand for: nodes, what fragments have, and new texts. *)
Given(d, t) == Pool \cup UNION {Gives(d, x) : x \in ToSet(t) \ {Word}}

(* All arguments are put in, one after the other (append_validated and the like). *)
LEMMA InsertEachFine ==
  ASSUME Basis, NEW b, NEW U, NEW p \in U, NEW r, Going(b, b, U, p, r), NEW t, Placeable(b, t, U)
  PROVE  Sound(InsertEach(b, p, t, r)) /\ Brings(InsertEach(b, p, t, r), b, p, Given(b, t))
<1> DEFINE s == t
           N == Len(s)
           T == Trees(type)
           step(e, x) ==
             IF x = Word THEN Attach(CreateText(e), Fresh(e), p, r) ELSE Attach(e, x, p, r)
           R(a) == a = [i \in 0..Len(s) |-> IF i = 0 THEN b ELSE step(a[i - 1], s[i])]
           G == Given(b, t)
           I == [i \in 0..N |-> {e \in T : /\ Going(e, b, U, p, r) /\ Fitting(e, t, i)
                                        /\ Brings(e, b, p, G)}]
           f == [i \in 1..N |-> [e \in T |-> step(e, s[i])]]
           after == CHOOSE a : R(a)
<1>1. N \in Nat /\ N = Len(s) /\ t \in Seq(DOMAIN type \cup {Word})
  BY DEF Placeable
<1>2. I \in [0..N -> SUBSET T]
  OBVIOUS
<1>3. b \in I[0]
  <2>1. Left(t, 0) = {i \in DOMAIN t : t[i] = Word}
    BY <1>1 DEF Left
  <2>2. Fitting(b, t, 0)
    BY <2>1 DEF Fitting, Placeable, Room
  <2>3. Brings(b, b, p, G)
    BY HearsSelf
  <2> QED BY <1>1, <2>2, <2>3 DEF Going, Sound, Shape
<1>10. p \in Inner /\ p \notin DOMAIN type \ Inner
  BY DEF Going, Closed
<1>4. ASSUME NEW i \in 1..N, NEW e \in I[i - 1] PROVE step(e, s[i]) \in I[i]
  <2>1. Going(e, b, U, p, r) /\ Fitting(e, t, i - 1) /\ Brings(e, b, p, G)
    BY <1>1
  <2>2. s[i] \in ToSet(t) /\ i \in 1..Len(t)
    BY <1>1, InToSet
  <2>3. /\ s[i] = t[i] /\ T = Trees(type)
        /\ I[i] = {y \in T : /\ Going(y, b, U, p, r) /\ Fitting(y, t, i)
                            /\ Brings(y, b, p, G)}
    OBVIOUS
  <2> HIDE DEF s, I, T
  <2>4. CASE s[i] # Word
    <3>1. Fine(e, e, U) /\ Spot(e, p, r)
      BY <2>1 DEF Going, Fine
    <3>2. Movable(e, s[i], U)
      BY <2>1, <2>2, <2>4 DEF Placeable, Going, Movable, NodesOf
    <3> DEFINE x == Attach(e, s[i], p, r)  W == Gives(e, s[i])
    <3>3. Fine(x, e, U) /\ Spot(x, p, r) /\ Brings(x, e, p, W)
      BY <3>1, <3>2, AttachFine
    <3>4. step(e, s[i]) = x
      BY <2>4
    <3>7. W \subseteq G
      <4>1. Gives(b, s[i]) \subseteq G
        BY <2>2, <2>4 DEF Given
      <4>2. CASE type[s[i]] # Fragment
        BY <4>1, <4>2 DEF Gives
      <4>3. CASE type[s[i]] = Fragment
        <5>1. s[i] \in Inner /\ s[i] # p
          BY <3>2, <4>3 DEF Movable, NodesOf, Inner, Branches
        <5>2. ~Xml
          BY <4>3, <5>1, BasisFacts
        <5>3. ToSet(e.kids[s[i]]) \subseteq ToSet(b.kids[s[i]])
          BY <2>1, <5>1, <5>2 DEF Brings, Spreads
        <5> QED BY <4>1, <4>3, <5>3 DEF Gives
      <4> QED BY <4>2, <4>3
    <3> HIDE DEF x, step, W, G
    <3>8. Brings(x, b, p, G)
      BY <2>1, <3>3, <3>7, BringsOn
    <3>5. Fitting(x, t, i)
      <4>1. Fitting(e, t, i)
        BY <1>1, <2>1, <2>2, <2>3, <2>4, LeftFacts
      <4> QED BY <3>3, <4>1 DEF Fitting, Fine
    <3>6. Going(x, b, U, p, r) /\ x \in Trees(type)
      BY <2>1, <3>3 DEF Going, Fine, Sound, Shape
    <3> QED BY <2>3, <3>4, <3>5, <3>6, <3>8 DEF G
  <2>5. CASE s[i] = Word
    <3>1. /\ Pool \ e.texts # {}
          /\ \A x \in Pool \ e.texts : \A y : y.texts = e.texts \cup {x} => Fitting(y, t, i)
      BY <1>1, <2>1, <2>2, <2>3, <2>5, LeftFacts
    <3> DEFINE c == CreateText(e)  n == Fresh(e)  x == Attach(c, n, p, r)
    <3>2. Created(c, e, n, U) /\ Spot(c, p, r) /\ Brings(c, e, None, {})
      BY <2>1, <3>1, CreateTextFine DEF Going
    <3>3. step(e, s[i]) = x
      BY <2>5
    <3> HIDE DEF c, n, step
    <3>4. Fine(c, c, U) /\ Movable(c, n, U)
      BY <3>2 DEF Created, Fine
    <3> DEFINE W == Gives(c, n)
    <3>5. Fine(x, c, U) /\ Spot(x, p, r) /\ Brings(x, c, p, W)
      BY <3>2, <3>4, AttachFine
    <3>8. W \subseteq G
      <4>1. n \in Pool /\ n \in Texts /\ n \in DOMAIN type
        BY <3>2 DEF Created, Pool
      <4>2. type[n] # Fragment
        BY <4>1, BasisFacts
      <4> QED BY <4>1, <4>2 DEF Gives, Given
    <3> HIDE DEF x, W, G
    <3>9. Brings(c, b, p, G)
      <4>1. {} \subseteq G /\ Brings(c, e, p, {})
        BY <3>2, BringsLess
      <4> QED BY <2>1, <4>1, BringsOn
    <3>10. Brings(x, b, p, G)
      BY <3>5, <3>8, <3>9, BringsOn
    <3>6. Fitting(x, t, i)
      BY <3>1, <3>2, <3>5 DEF Created, Fine
    <3>7. Going(x, b, U, p, r) /\ x \in Trees(type)
      BY <2>1, <3>2, <3>5 DEF Going, Fine, Sound, Shape, Created
    <3> QED BY <2>3, <3>3, <3>6, <3>7, <3>10 DEF G
  <2> QED BY <2>4, <2>5
<1>5. \E a : R(a)
  <2>1. \A i \in 1..N : \A e \in I[i - 1] : f[i][e] = step(e, s[i])
    <3>1. \A i \in 1..N : I[i - 1] \subseteq T
      <4> HIDE DEF I, N, T
      <4>1. \A i \in 1..N : i - 1 \in 0..N
        BY <1>1
      <4> QED BY <1>2, <4>1
    <3> HIDE DEF I, N, T, step
    <3> QED BY <3>1
  <2>2. Steps(N, T, I, b, f)
    <3> HIDE DEF I, f, step, N, T, s
    <3> QED BY <1>1, <1>2, <1>3, <1>4, <2>1 DEF Steps
  <2>3. PICK g : Goes(N, T, I, b, f, g)
    <3> HIDE DEF I, f, N, T
    <3> QED BY <2>2, Iterated
  <2> HIDE DEF f, I, step, N, s, T
  <2>4. \A i \in 1..N : i - 1 \in 0..N /\ i # 0
    BY <1>1
  <2>5. \A i \in 1..N : g[i - 1] \in I[i - 1] /\ g[i] = f[i][g[i - 1]]
    BY <2>3, <2>4 DEF Goes
  <2>6. \A i \in 1..N : g[i] = step(g[i - 1], s[i])
    BY <2>1, <2>5
  <2>7. DOMAIN g = 0..N /\ g = [i \in 0..N |-> g[i]] /\ g[0] = b
    BY <2>3 DEF Goes
  <2>8. \A i \in 0..N : g[i] = IF i = 0 THEN b ELSE step(g[i - 1], s[i])
    <3>1. \A i \in 0..N : i # 0 => i \in 1..N
      BY <1>1
    <3> QED BY <2>4, <2>6, <2>7, <3>1
  <2>9. g = [i \in 0..N |-> IF i = 0 THEN b ELSE step(g[i - 1], s[i])]
    BY <2>7, <2>8
  <2> QED BY <1>1, <2>9
<1>6. R(after)
  <2> HIDE DEF R
  <2> QED BY <1>5, Zenon
<1>7. after[N] \in I[N]
  <2> HIDE DEF after, I, step, N, s, T
  <2>1. after[0] = b /\ \A i \in 1..N : after[i] = step(after[i - 1], s[i])
    <3>1. after = [i \in 0..N |-> IF i = 0 THEN b ELSE step(after[i - 1], s[i])]
      BY <1>1, <1>6
    <3>2. 0 \in 0..N /\ \A i \in 1..N : i \in 0..N /\ i # 0
      BY <1>1
    <3> QED BY <3>1, <3>2
  <2>2. Keeps(N, I, after)
    BY <1>1, <1>3, <1>4, <2>1 DEF Keeps
  <2> QED BY <2>2, Followed
<1>8. Sound(after[N]) /\ Brings(after[N], b, p, G)
  <2>1. I[N] \subseteq {e \in T : Sound(e) /\ Brings(e, b, p, G)}
    BY <1>1 DEF Going
  <2> HIDE DEF I, after, N
  <2> QED BY <1>7, <2>1
<1>9. InsertEach(b, p, t, r) = after[N]
  BY DEF InsertEach, Each
<1> QED BY <1>8, <1>9

(* What is in two sequences, one behind the other. *)
LEMMA ConcatSets ==
  ASSUME NEW A, NEW u \in Seq(A), NEW v \in Seq(A)
  PROVE  /\ u \o v \in Seq(A) /\ ToSet(u \o v) = ToSet(u) \cup ToSet(v)
         /\ Len(u \o v) = Len(u) + Len(v)
<1> DEFINE w == u \o v
<1>1. /\ w \in Seq(A) /\ Len(w) = Len(u) + Len(v)
      /\ \A k \in 1..Len(u) : w[k] = u[k]
      /\ \A k \in (Len(u) + 1)..(Len(u) + Len(v)) : w[k] = v[k - Len(u)]
  BY ConcatFacts
<1> HIDE DEF w
<1>2. DOMAIN u = 1..Len(u) /\ DOMAIN v = 1..Len(v) /\ DOMAIN w = 1..Len(w)
      /\ Len(u) \in Nat /\ Len(v) \in Nat
  BY <1>1
<1>3. ASSUME NEW x \in ToSet(w) PROVE x \in ToSet(u) \cup ToSet(v)
  <2>1. PICK k \in DOMAIN w : w[k] = x
    BY <1>3, InToSet
  <2>2. CASE k <= Len(u)
    BY <1>1, <1>2, <2>1, <2>2, InToSet
  <2>3. CASE k > Len(u)
    <3>1. k - Len(u) \in DOMAIN v /\ v[k - Len(u)] = x
      BY <1>1, <1>2, <2>1, <2>3
    <3> QED BY <3>1, InToSet
  <2> QED BY <1>2, <2>1, <2>2, <2>3
<1>4. ASSUME NEW x \in ToSet(u) PROVE x \in ToSet(w)
  <2>1. PICK k \in DOMAIN u : u[k] = x
    BY <1>4, InToSet
  <2>2. k \in DOMAIN w /\ w[k] = x
    BY <1>1, <1>2, <2>1
  <2> QED BY <2>2, InToSet
<1>5. ASSUME NEW x \in ToSet(v) PROVE x \in ToSet(w)
  <2>1. PICK k \in DOMAIN v : v[k] = x
    BY <1>5, InToSet
  <2>2. k + Len(u) \in DOMAIN w /\ w[k + Len(u)] = x
    BY <1>1, <1>2, <2>1
  <2> QED BY <2>2, InToSet
<1> QED BY <1>1, <1>3, <1>4, <1>5 DEF w

(* Each of the sequences that are joined is in what they make. *)
LEMMA JoinedHas ==
  ASSUME NEW A, NEW ss \in Seq(Seq(A))
  PROVE  \A i \in DOMAIN ss : ToSet(ss[i]) \subseteq ToSet(Joined(ss))
<1>1. PICK a \in [0..Len(ss) -> Seq(A)] : Chained(ss, a)
  BY JoinedLoop
<1> DEFINE n == Len(ss)
           P == {j \in 0..n : \A i \in 1..j : ToSet(ss[i]) \subseteq ToSet(a[j])}
<1>2. n \in Nat /\ DOMAIN ss = 1..n
  OBVIOUS
<1>3. 0 \in P
  BY <1>2
<1>4. ASSUME NEW j \in 1..n, j - 1 \in P PROVE j \in P
  <2>0. j - 1 \in 0..n /\ j \in DOMAIN ss /\ n = Len(ss)
    BY <1>2
  <2>6. ss[j] \in Seq(A) /\ a[j - 1] \in Seq(A)
    BY <1>1, <2>0
  <2>1. a[j - 1] \in Seq(A) /\ ss[j] \in Seq(A) /\ a[j] = a[j - 1] \o ss[j]
    BY <1>1, <2>0, <2>6 DEF Chained
  <2> DEFINE u == a[j - 1]  v == ss[j]
  <2>2. u \in Seq(A) /\ v \in Seq(A) /\ a[j] = u \o v
    BY <2>1
  <2> HIDE DEF u, v
  <2>3. ToSet(u) \subseteq ToSet(a[j]) /\ ToSet(v) \subseteq ToSet(a[j])
    BY <2>2, ConcatSets
  <2>4. \A i \in 1..j : i = j \/ i \in 1..(j - 1)
    BY <1>2
  <2>5. \A i \in 1..(j - 1) : ToSet(ss[i]) \subseteq ToSet(u)
    BY <1>4 DEF u
  <2> QED BY <1>2, <2>3, <2>4, <2>5 DEF v
<1>5. n \in P
  <2> HIDE DEF P
  <2> QED BY <1>2, <1>3, <1>4, Climb
<1>6. Joined(ss) = a[n]
  BY <1>1 DEF Chained
<1> QED BY <1>2, <1>5, <1>6

(* A sequence is its beginning and its rest. *)
LEMMA SplitAt ==
  ASSUME NEW A, NEW s \in Seq(A), NEW i \in 0..Len(s)
  PROVE  /\ SubSeq(s, 1, i) \in Seq(A) /\ SubSeq(s, i + 1, Len(s)) \in Seq(A)
         /\ SubSeq(s, 1, i) \o SubSeq(s, i + 1, Len(s)) = s
<1> DEFINE u == SubSeq(s, 1, i)  v == SubSeq(s, i + 1, Len(s))
<1>1. u \in Seq(A) /\ v \in Seq(A) /\ Len(s) \in Nat /\ i \in Nat /\ i <= Len(s)
  OBVIOUS
<1>2. Len(u) = i /\ Len(v) = Len(s) - i
  BY <1>1
<1>3. \A k \in 1..i : u[k] = s[k]
  BY <1>1
<1>4. \A k \in 1..(Len(s) - i) : v[k] = s[i + k]
  BY <1>1
<1> HIDE DEF u, v
<1>5. /\ u \o v \in Seq(A) /\ Len(u \o v) = Len(u) + Len(v)
      /\ \A k \in 1..Len(u) : (u \o v)[k] = u[k]
      /\ \A k \in (Len(u) + 1)..(Len(u) + Len(v)) : (u \o v)[k] = v[k - Len(u)]
  BY <1>1, ConcatFacts
<1> DEFINE z == u \o v
<1> HIDE DEF z
<1>6. z \in Seq(A) /\ Len(z) = Len(s)
  BY <1>1, <1>2, <1>5 DEF z
<1>7. \A k \in 1..Len(s) : z[k] = s[k]
  <2>1. ASSUME NEW k \in 1..Len(s), k > i PROVE z[k] = s[k]
    <3>1. k - i \in 1..(Len(s) - i) /\ i + (k - i) = k
      BY <1>1, <2>1
    <3>2. z[k] = v[k - i]
      BY <1>1, <1>2, <1>5, <2>1 DEF z
    <3> QED BY <1>4, <3>1, <3>2
  <2>2. ASSUME NEW k \in 1..Len(s), k <= i PROVE z[k] = s[k]
    BY <1>1, <1>2, <1>3, <1>5, <2>2 DEF z
  <2> QED BY <1>1, <2>1, <2>2
<1>8. z = s
  BY <1>6, <1>7
<1> QED BY <1>1, <1>8 DEF z, u, v

(* One argument of a plan is put where it belongs, and nothing is lost. *)
Planning(A, plan) ==
    /\ plan \in [s : Seq(A), at : Nat] /\ plan.at <= Len(plan.s)

(* Put leaves a plan that has what it had, and x. *)
LEMMA PutIs ==
  ASSUME NEW A, NEW plan, Planning(A, plan), NEW x \in A
  PROVE  Planning(A, Put(plan, x)) /\ ToSet(plan.s) \cup {x} \subseteq ToSet(Put(plan, x).s)
<1> DEFINE s == plan.s  i == plan.at  S == {x} \ {Word}
           u == SubSeq(s, 1, i)  v == SubSeq(s, i + 1, Len(s))
           b == Without(u, S)  c == Without(v, S)  w == <<x>>
<1>1. s \in Seq(A) /\ i \in Nat /\ i <= Len(s)
  BY DEF Planning
<1>2. Put(plan, x) = [s |-> b \o w \o c, at |-> Len(b) + 1]
  BY DEF Put
<1> HIDE DEF s, i, S
<1>3. u \in Seq(A) /\ v \in Seq(A) /\ u \o v = s /\ w \in Seq(A)
  <2>1. i \in 0..Len(s)
    BY <1>1
  <2>2. u \in Seq(A) /\ v \in Seq(A) /\ u \o v = s
    BY <1>1, <2>1, SplitAt
  <2>3. w \in Seq(A)
    OBVIOUS
  <2> HIDE DEF u, v, w
  <2> QED BY <2>2, <2>3
<1> HIDE DEF u, v
<1>4. /\ b \in Seq(A) /\ ToSet(b) = ToSet(u) \ S /\ c \in Seq(A) /\ ToSet(c) = ToSet(v) \ S
  BY <1>3, WithoutFacts
<1>5. ToSet(s) = ToSet(u) \cup ToSet(v)
  BY <1>3, ConcatSets
<1>6. ToSet(w) = {x} /\ Len(w) = 1
  BY DEF ToSet
<1> HIDE DEF b, c, w
<1>7. b \o w \in Seq(A) /\ ToSet(b \o w) = ToSet(b) \cup ToSet(w) /\ Len(b \o w) = Len(b) + 1
  <2>1. b \in Seq(A) /\ w \in Seq(A)
    BY <1>3, <1>4
  <2>2. /\ b \o w \in Seq(A) /\ ToSet(b \o w) = ToSet(b) \cup ToSet(w)
        /\ Len(b \o w) = Len(b) + Len(w)
    BY <2>1, ConcatSets
  <2> QED BY <1>6, <2>2
<1> DEFINE t == b \o w
<1> HIDE DEF t
<1>8. /\ t \o c \in Seq(A) /\ ToSet(t \o c) = ToSet(t) \cup ToSet(c)
      /\ Len(t \o c) = Len(t) + Len(c)
  <2>1. t \in Seq(A) /\ c \in Seq(A)
    BY <1>4, <1>7 DEF t
  <2> QED BY <2>1, ConcatSets
<1>9. S \subseteq {x}
  BY DEF S
<1>10. ToSet(s) \cup {x} \subseteq ToSet(t \o c)
  BY <1>4, <1>5, <1>6, <1>7, <1>8, <1>9 DEF t
<1>11. Put(plan, x) = [s |-> t \o c, at |-> Len(b) + 1]
  BY <1>2 DEF t
<1>12. Len(b) \in Nat /\ Len(c) \in Nat /\ Len(t) = Len(b) + 1
  BY <1>4, <1>7 DEF t
<1> QED BY <1>8, <1>10, <1>11, <1>12 DEF Planning, s

(* All arguments are put into a plan. *)
LEMMA PutEachIs ==
  ASSUME NEW A, NEW b, Planning(A, b), NEW new \in Seq(A)
  PROVE  ToSet(b.s) \cup ToSet(new) \subseteq ToSet(PutEach(b.s, b.at, new))
         /\ PutEach(b.s, b.at, new) \in Seq(A)
<1> DEFINE Has(e, i) == ToSet(b.s) \cup {new[k] : k \in 1..i} \subseteq ToSet(e.s)
<1> DEFINE s == new
           N == Len(s)
           T == [s : Seq(A), at : Nat]
           step(e, x) == Put(e, x)
           R(a) == a = [i \in 0..Len(s) |-> IF i = 0 THEN b ELSE step(a[i - 1], s[i])]
           I == [i \in 0..N |-> {e \in T : Planning(A, e) /\ Has(e, i)}]
           f == [i \in 1..N |-> [e \in T |-> step(e, s[i])]]
           after == CHOOSE a : R(a)
<1>1. N \in Nat /\ N = Len(s)
  OBVIOUS
<1>2. I \in [0..N -> SUBSET T]
  OBVIOUS
<1>3. b \in I[0]
  <2>1. {new[k] : k \in 1..0} = {}
    OBVIOUS
  <2>2. Has(b, 0)
    BY <2>1
  <2>3. I[0] = {e \in T : Planning(A, e) /\ Has(e, 0)} /\ T = [s : Seq(A), at : Nat]
    BY <1>1
  <2> HIDE DEF I, T, Has
  <2> QED BY <2>2, <2>3 DEF Planning
<1>4. ASSUME NEW i \in 1..N, NEW e \in I[i - 1] PROVE step(e, s[i]) \in I[i]
  <2>1. Planning(A, e) /\ Has(e, i - 1)
    BY <1>1
  <2> DEFINE x == s[i]  y == step(e, x)
  <2>2. I[i] = {z \in T : Planning(A, z) /\ Has(z, i)} /\ T = [s : Seq(A), at : Nat]
    BY <1>1
  <2>3. x \in A /\ x = new[i]
    BY <1>1
  <2>4. y = Put(e, x)
    OBVIOUS
  <2> HIDE DEF s, I, T, x, y
  <2>5. Planning(A, y) /\ ToSet(e.s) \cup {x} \subseteq ToSet(y.s)
    BY <2>1, <2>3, <2>4, PutIs
  <2>6. Has(y, i)
    <3>1. \A k \in 1..i : k = i \/ k \in 1..(i - 1)
      BY <1>1
    <3> QED BY <2>1, <2>3, <2>5, <3>1
  <2>7. y \in I[i]
    BY <2>2, <2>5, <2>6 DEF Planning
  <2> QED BY <2>7 DEF x, y
<1>5. \E a : R(a)
  <2>1. \A i \in 1..N : \A e \in I[i - 1] : f[i][e] = step(e, s[i])
    <3>1. \A i \in 1..N : I[i - 1] \subseteq T
      <4> HIDE DEF I, N, T
      <4>1. \A i \in 1..N : i - 1 \in 0..N
        BY <1>1
      <4> QED BY <1>2, <4>1
    <3> HIDE DEF I, N, T, step
    <3> QED BY <3>1
  <2>2. Steps(N, T, I, b, f)
    <3> HIDE DEF I, f, step, N, T, s
    <3> QED BY <1>1, <1>2, <1>3, <1>4, <2>1 DEF Steps
  <2>3. PICK g : Goes(N, T, I, b, f, g)
    <3> HIDE DEF I, f, N, T
    <3> QED BY <2>2, Iterated
  <2> HIDE DEF f, I, step, N, s, T
  <2>4. \A i \in 1..N : i - 1 \in 0..N /\ i # 0
    BY <1>1
  <2>5. \A i \in 1..N : g[i - 1] \in I[i - 1] /\ g[i] = f[i][g[i - 1]]
    BY <2>3, <2>4 DEF Goes
  <2>6. \A i \in 1..N : g[i] = step(g[i - 1], s[i])
    BY <2>1, <2>5
  <2>7. DOMAIN g = 0..N /\ g = [i \in 0..N |-> g[i]] /\ g[0] = b
    BY <2>3 DEF Goes
  <2>8. \A i \in 0..N : g[i] = IF i = 0 THEN b ELSE step(g[i - 1], s[i])
    <3>1. \A i \in 0..N : i # 0 => i \in 1..N
      BY <1>1
    <3> QED BY <2>4, <2>6, <2>7, <3>1
  <2>9. g = [i \in 0..N |-> IF i = 0 THEN b ELSE step(g[i - 1], s[i])]
    BY <2>7, <2>8
  <2> QED BY <1>1, <2>9
<1>6. R(after)
  <2> HIDE DEF R
  <2> QED BY <1>5, Zenon
<1>7. after[N] \in I[N]
  <2> HIDE DEF after, I, step, N, s, T
  <2>1. after[0] = b /\ \A i \in 1..N : after[i] = step(after[i - 1], s[i])
    BY <1>1, <1>6
  <2>2. Keeps(N, I, after)
    BY <1>1, <1>3, <1>4, <2>1 DEF Keeps
  <2> QED BY <2>2, Followed
<1>8. Planning(A, after[N]) /\ Has(after[N], N)
  <2>1. I[N] = {e \in T : Planning(A, e) /\ Has(e, N)}
    BY <1>1
  <2> HIDE DEF I, after, N, Has
  <2> QED BY <1>7, <2>1
<1>9. b = [s |-> b.s, at |-> b.at]
  BY DEF Planning
<1>10. PutEach(b.s, b.at, new) = after[N].s
  BY <1>9 DEF PutEach, Each
<1>11. ToSet(new) = {new[k] : k \in 1..N}
  BY <1>1 DEF ToSet
<1> HIDE DEF after
<1> QED BY <1>8, <1>10, <1>11 DEF Planning

(* A beginning has no more to keep. *)
LEMMA WithoutPart ==
  ASSUME NEW A, NEW s \in Seq(A), NEW i \in 0..Len(s), NEW S
  PROVE  /\ Len(Without(SubSeq(s, 1, i), S)) \in Nat
         /\ Len(Without(SubSeq(s, 1, i), S)) <= Len(Without(s, S))
<1> DEFINE u == SubSeq(s, 1, i)  v == SubSeq(s, i + 1, Len(s))
<1>1. u \in Seq(A) /\ v \in Seq(A) /\ u \o v = s
  BY SplitAt
<1> HIDE DEF u, v
<1>2. Without(u \o v, S) = Without(u, S) \o Without(v, S)
  <2>1. u \in Seq(A) /\ v \in Seq(A)
    BY <1>1
  <2> QED BY <2>1, WithoutConcat
<1>3. Without(u, S) \in Seq(A)
  BY <1>1, WithoutFacts
<1>4. Without(v, S) \in Seq(A)
  BY <1>1, WithoutFacts
<1> DEFINE x == Without(u, S)  y == Without(v, S)
<1>5. Without(s, S) = x \o y /\ x \in Seq(A) /\ y \in Seq(A)
  BY <1>1, <1>2, <1>3, <1>4
<1> HIDE DEF x, y
<1>6. Len(x \o y) = Len(x) + Len(y) /\ Len(x) \in Nat /\ Len(y) \in Nat
  BY <1>5
<1> QED BY <1>5, <1>6 DEF x, u

(* What the arguments stand for is in what they are opened to. *)
LEMMA OpenedHas ==
  ASSUME Basis, NEW d, Sound(d), NEW args \in Seq(DOMAIN type \cup {Word})
  PROVE  /\ Opened(d, args) \in Seq(DOMAIN type \cup {Word})
         /\ \A x \in ToSet(args) \ {Word} : Gives(d, x) \subseteq ToSet(Opened(d, args))
<1> DEFINE A == DOMAIN type \cup {Word}
           open(x) == IF TypeOf(x) = Fragment THEN d.kids[x] ELSE <<x>>
           ss == [i \in DOMAIN args |-> open(args[i])]
<1>1. d.kids \in [Inner -> Seq(DOMAIN type)]
  BY TreesFacts DEF Sound, Shape
<1>2. ASSUME NEW x \in A PROVE open(x) \in Seq(A)
  <2>1. CASE TypeOf(x) = Fragment
    <3>1. x \in Inner
      BY <2>1 DEF TypeOf, Inner, Branches, Text, Fragment
    <3>2. d.kids[x] \in Seq(DOMAIN type)
      BY <1>1, <3>1
    <3>3. d.kids[x] \in Seq(A)
      <4> DEFINE s == d.kids[x]
      <4> HIDE DEF s
      <4> QED BY <3>2 DEF s
    <3> QED BY <2>1, <3>3
  <2>2. CASE TypeOf(x) # Fragment
    BY <2>2
  <2> QED BY <2>1, <2>2
<1>3. Opened(d, args) = Joined(ss)
  BY DEF Opened
<1>4. DOMAIN args = 1..Len(args) /\ Len(args) \in Nat /\ \A i \in DOMAIN args : args[i] \in A
  OBVIOUS
<1> HIDE DEF open, A
<1>5. ss \in Seq(Seq(A))
  BY <1>2, <1>4
<1>6. DOMAIN ss = DOMAIN args /\ \A i \in DOMAIN args : ss[i] = open(args[i])
  OBVIOUS
<1> HIDE DEF ss
<1>7. Joined(ss) \in Seq(A) /\ \A i \in DOMAIN ss : ToSet(ss[i]) \subseteq ToSet(Joined(ss))
  BY <1>5, JoinedIs, JoinedHas
<1>8. ASSUME NEW x \in ToSet(args) \ {Word} PROVE Gives(d, x) \subseteq ToSet(Joined(ss))
  <2>1. PICK i \in DOMAIN args : args[i] = x
    BY <1>8, InToSet
  <2>2. ToSet(open(x)) \subseteq ToSet(Joined(ss))
    BY <1>6, <1>7, <2>1
  <2>3. ToSet(<<x>>) = {x}
    BY DEF ToSet
  <2>4. Gives(d, x) = ToSet(open(x))
    BY <1>8, <2>3 DEF Gives, open, TypeOf
  <2> QED BY <2>2, <2>4
<1> QED BY <1>3, <1>7, <1>8 DEF A

(* The plan has all that stays and all that comes. *)
LEMMA PlannedHas ==
  ASSUME Basis, NEW d, Sound(d), NEW p \in Inner, NEW args \in Seq(DOMAIN type \cup {Word}),
         NEW r, NEW removed
  PROVE  /\ Planned(d, p, args, r, removed) \in Seq(DOMAIN type \cup {Word})
         /\ (ToSet(Kids(d, p)) \ removed) \cup ToSet(Opened(d, args))
               \subseteq ToSet(Planned(d, p, args, r, removed)) \cup {Word}
<1> DEFINE A == DOMAIN type \cup {Word}
           k == Kids(d, p)
           new == Opened(d, args)
           gone == removed \cup (ToSet(new) \ {Word})
           base == Without(k, gone)
           start == IF r \in ToSet(k) THEN Len(Without(SubSeq(k, 1, Index(k, r) - 1), gone))
                    ELSE Len(base)
           b == [s |-> base, at |-> start]
<1>1. Planned(d, p, args, r, removed) = PutEach(b.s, b.at, new)
  BY DEF Planned
<1>2. k \in Seq(A) /\ new \in Seq(A)
  <2>1. k \in Seq(DOMAIN type)
    BY KidsFacts
  <2> HIDE DEF k, new
  <2>2. k \in Seq(A)
    BY <2>1
  <2> QED BY <2>2, OpenedHas DEF new
<1> HIDE DEF A, k, new, gone
<1>3. base \in Seq(A) /\ ToSet(base) = ToSet(k) \ gone
  BY <1>2, WithoutFacts
<1>4. start \in Nat /\ start <= Len(base)
  <2>1. CASE r \notin ToSet(k)
    <3> HIDE DEF base
    <3> QED BY <1>3, <2>1
  <2>2. CASE r \in ToSet(k)
    <3> DEFINE i == Index(k, r) - 1
    <3>1. i \in 0..Len(k)
      <4>1. Index(k, r) \in DOMAIN k /\ DOMAIN k = 1..Len(k) /\ Len(k) \in Nat
        BY <1>2, <2>2, IndexIs
      <4> QED BY <4>1
    <3>2. start = Len(Without(SubSeq(k, 1, i), gone))
      BY <2>2
    <3> HIDE DEF i, start
    <3>3. Len(Without(SubSeq(k, 1, i), gone)) \in Nat
          /\ Len(Without(SubSeq(k, 1, i), gone)) <= Len(Without(k, gone))
      BY <1>2, <3>1, WithoutPart
    <3> QED BY <3>2, <3>3
  <2> QED BY <2>1, <2>2
<1> HIDE DEF base, start
<1>5. Planning(A, b) /\ b.s = base
  BY <1>3, <1>4 DEF Planning
<1> HIDE DEF b
<1>6. /\ PutEach(b.s, b.at, new) \in Seq(A)
      /\ ToSet(b.s) \cup ToSet(new) \subseteq ToSet(PutEach(b.s, b.at, new))
  BY <1>2, <1>5, PutEachIs
<1>7. (ToSet(k) \ removed) \subseteq ToSet(base) \cup ToSet(new)
  BY <1>3 DEF gone
<1> QED BY <1>1, <1>5, <1>6, <1>7 DEF A, k, new

(* HTML: a plan that passes leaves a document with one element at most. *)
LEMMA PlanLone ==
  ASSUME Basis, ~Xml, NEW d, Sound(d), NEW args \in Seq(DOMAIN type \cup {Word}),
         NEW r, NEW removed, MutationPlan(d, Doc, args, r, removed)
  PROVE  Lone((ToSet(d.kids[Doc]) \ removed) \cup Given(d, args))
<1> DEFINE A == DOMAIN type \cup {Word}
           s == Planned(d, Doc, args, r, removed)
           types == [i \in DOMAIN s |-> TypeOf(s[i])]
           at == {i \in DOMAIN types : types[i] = Element}
           S == (ToSet(d.kids[Doc]) \ removed) \cup Given(d, args)
<1>1. Doc \in Inner /\ type[Doc] = Document /\ Word \notin DOMAIN type
  BY BasisFacts
<1>2. Holds(Doc, types)
  BY DEF MutationPlan
<1>3. s \in Seq(A) /\ (ToSet(Kids(d, Doc)) \ removed) \cup ToSet(Opened(d, args))
                         \subseteq ToSet(s) \cup {Word}
  BY <1>1, PlannedHas
<1>4. Kids(d, Doc) = d.kids[Doc]
  BY HtmlKids DEF Sound
<1>5. Cardinality(at) <= 1
  <2> HIDE DEF s
  <2> QED BY <1>1, <1>2 DEF Holds
<1>6. ASSUME NEW x \in S, type[x] = Element PROVE x \in ToSet(s) /\ x # Word
  <2>1. x \notin Pool
    BY <1>6, BasisFacts DEF Pool, ChildTypes, Basis, Kinds, Element, Text
  <2>2. ASSUME NEW y \in ToSet(args) \ {Word}, x \in Gives(d, y)
        PROVE  x \in ToSet(Opened(d, args)) /\ x \in DOMAIN type
    <3>1. x \in ToSet(Opened(d, args))
      BY <2>2, OpenedHas
    <3>2. y \in DOMAIN type
      BY InToSet
    <3>3. x \in DOMAIN type
      <4>1. CASE type[y] # Fragment
        BY <2>2, <3>2, <4>1 DEF Gives
      <4>2. CASE type[y] = Fragment
        <5>1. y \in Inner /\ x \in ToSet(d.kids[y])
          BY <2>2, <3>2, <4>2 DEF Gives, Inner, Branches
        <5> QED BY <5>1 DEF Sound, Shape, NodesOf
      <4> QED BY <4>1, <4>2
    <3> QED BY <3>1, <3>3
  <2>3. x \in ToSet(d.kids[Doc]) => x \in DOMAIN type
    BY <1>1 DEF Sound, Shape, NodesOf
  <2> HIDE DEF s
  <2>4. x \in DOMAIN type /\ x \in (ToSet(d.kids[Doc]) \ removed) \cup ToSet(Opened(d, args))
    BY <1>6, <2>1, <2>2, <2>3 DEF Given
  <2> QED BY <1>1, <1>3, <1>4, <2>4
<1>7. IsFiniteSet(at)
  <2>1. at \subseteq 1..Len(s) /\ Len(s) \in Nat
    BY <1>3
  <2> HIDE DEF at
  <2> DEFINE m == Len(s)
  <2> HIDE DEF m
  <2>2. IsFiniteSet(1..m)
    BY <2>1, FS_Interval DEF m
  <2> QED BY <2>1, <2>2, FS_Subset DEF m
<1>8. ASSUME NEW i \in at, NEW j \in at PROVE i = j
  <2> HIDE DEF at
  <2>1. Cardinality(at) \in Nat
    BY <1>7, FS_CardinalityType
  <2>2. Cardinality(at) = 0 \/ Cardinality(at) = 1
    BY <1>5, <2>1
  <2>3. Cardinality(at) # 0
    BY <1>7, <1>8, FS_EmptySet
  <2>4. PICK z : at = {z}
    BY <1>7, <2>2, <2>3, FS_Singleton
  <2> QED BY <1>8, <2>4
<1>9. ASSUME NEW x \in S, NEW y \in S, type[x] = Element, type[y] = Element PROVE x = y
  <2>1. x \in ToSet(s) /\ x # Word /\ y \in ToSet(s) /\ y # Word
    <3> HIDE DEF S, s
    <3> QED BY <1>6, <1>9
  <2> HIDE DEF S
  <2>2. PICK i \in DOMAIN s : s[i] = x
    BY <2>1, InToSet
  <2>3. PICK j \in DOMAIN s : s[j] = y
    BY <2>1, InToSet
  <2>4. i \in at /\ j \in at
    <3> HIDE DEF s
    <3> QED BY <1>9, <2>1, <2>2, <2>3 DEF TypeOf
  <2>5. i = j
    <3> HIDE DEF at
    <3> QED BY <1>8, <2>4
  <2> QED BY <2>2, <2>3, <2>5
<1> QED
  <2> HIDE DEF S, s
  <2> QED BY <1>9 DEF Lone, S

-----------------------------------------------------------------------------
(* HTML: from d to e, collections have been told, and the document remembers its element. *)
Current(e, d) == ~Xml => Heard(e, d) /\ (Topped(d) => Topped(e))

(* What is part of such a set is such a set. *)
LEMMA LoneLess == ASSUME NEW S, NEW T, S \subseteq T, Lone(T) PROVE Lone(S)
BY DEF Lone

(* One change after the other. *)
LEMMA CurrentOn ==
  ASSUME NEW d, NEW e, NEW x, Current(e, d), Current(x, e)
  PROVE  Current(x, d)
BY DEF Current, Heard

(* A tree is current with respect to itself. *)
LEMMA CurrentSelf == ASSUME NEW d PROVE Current(d, d)
BY DEF Current, Heard

(* What moves make current: of a document, at most one element must be there or come. *)
LEMMA BringsCurrent ==
  ASSUME Basis, NEW d, NEW e, NEW p, NEW S, Brings(e, d, p, S),
         ~Xml /\ p = Doc => Lone(ToSet(d.kids[Doc]) \cup S)
  PROVE  Current(e, d)
<1>1. Topped(d) => Lone(ToSet(d.kids[Doc]))
  BY DEF Topped, Lone
<1>2. ToSet(d.kids[Doc]) \cup {} = ToSet(d.kids[Doc])
  OBVIOUS
<1>3. CASE p = Doc
  BY <1>3 DEF Brings, Current
<1>4. CASE p # Doc
  BY <1>1, <1>2, <1>4 DEF Brings, Current
<1> QED BY <1>3, <1>4

(* Taking nodes away needs nothing. *)
LEMMA LessCurrent ==
  ASSUME Basis, NEW d, NEW e, Brings(e, d, None, {})
  PROVE  Current(e, d)
<1>1. None # Doc
  BY BasisFacts
<1> QED BY <1>1, BringsCurrent

(* A tree whose nodes have lost some children and got none. *)
LEMMA LessGiven ==
  ASSUME Basis, NEW d, NEW e, \A q \in Inner : ToSet(e.kids[q]) \subseteq ToSet(d.kids[q])
  PROVE  /\ \A c \in DOMAIN type : Gives(e, c) \subseteq Gives(d, c)
         /\ \A t : t \in Seq(DOMAIN type \cup {Word}) => Given(e, t) \subseteq Given(d, t)
<1>1. ASSUME NEW c \in DOMAIN type PROVE Gives(e, c) \subseteq Gives(d, c)
  <2>1. CASE type[c] = Fragment
    <3>1. c \in Inner
      BY <2>1 DEF Inner, Branches
    <3> QED BY <2>1, <3>1 DEF Gives
  <2>2. CASE type[c] # Fragment
    BY <2>2 DEF Gives
  <2> QED BY <2>1, <2>2
<1>2. ASSUME NEW t, t \in Seq(DOMAIN type \cup {Word}) PROVE Given(e, t) \subseteq Given(d, t)
  <2>1. \A c \in ToSet(t) \ {Word} : c \in DOMAIN type
    BY <1>2, InToSet
  <2> QED BY <1>1, <2>1 DEF Given
<1> QED BY <1>1, <1>2

(* What has passed the plan's checks is not in what it goes into. *)
LEMMA PlanFacts ==
  ASSUME Basis, NEW d, Sound(d), NEW p, NEW args, NEW r, NEW removed,
         MutationPlan(d, p, args, r, removed), ToSet(args) \ {Word} \subseteq held
  PROVE  /\ p \in Inner /\ p \in Around(d, p) /\ Closed(d.kids, Around(d, p))
         /\ \A x \in ToSet(args) \ {Word} : Movable(d, x, Around(d, p))
<1>1. p \in Inner
  BY DEF MutationPlan
<1>2. \A x \in ToSet(args) \ {Word} : x \notin ToSet(Path(d, p))
                                      /\ type[x] \in ChildTypes \cup {Fragment}
  BY Zenon DEF MutationPlan
<1>3. Document # Fragment
  BY DEF Document, Fragment
<1>4. type[Doc] \notin ChildTypes \cup {Fragment}
  BY <1>3, BasisFacts
<1>5. held \subseteq NodesOf(type, d)
  BY DEF Sound, Shape
<1> QED BY <1>1, <1>2, <1>4, <1>5, AroundClosed DEF Movable, Around

(* What is somebody's child may be what others go before. *)
LEMMA ChildFacts ==
  ASSUME Basis, NEW d, Sound(d), NEW p \in Inner, NEW o, IsChild(d, p, o)
  PROVE  /\ o \in ToSet(d.kids[p]) /\ o \in NodesOf(type, d) /\ type[o] \in ChildTypes
         /\ Spot(d, p, o)
<1>1. Above(d, o) = p /\ p # None /\ None \notin Inner /\ (p # Doc \/ o \notin d.marks)
  BY BasisFacts DEF IsChild
<1>2. DOMAIN d.kids = Inner
  BY TreesFacts DEF Sound, Shape
<1>3. o \in ToSet(d.kids[p])
  BY <1>1, <1>2, AboveIs
<1> QED BY <1>1, <1>3 DEF Spot, Sound, Shape

(* appendChild and insertBefore. *)
LEMMA InsertSound ==
  ASSUME Basis, NEW d, Sound(d), NEW p, NEW c \in held, NEW r, CanInsert(d, p, c, r)
  PROVE  Sound(Attach(d, c, p, r)) /\ Current(Attach(d, c, p, r), d)
<1>1. ToSet(<<c>>) = {c}
  BY DEF ToSet
<1>2. c # Word /\ c \in DOMAIN type
  BY BasisFacts DEF Sound, Shape, NodesOf
<1>3. MutationPlan(d, p, <<c>>, r, {}) /\ (r # None => IsChild(d, p, r))
  BY DEF CanInsert
<1>4. /\ p \in Inner /\ p \in Around(d, p) /\ Closed(d.kids, Around(d, p))
      /\ Movable(d, c, Around(d, p))
  <2>1. /\ p \in Inner /\ p \in Around(d, p) /\ Closed(d.kids, Around(d, p))
        /\ \A x \in ToSet(<<c>>) \ {Word} : Movable(d, x, Around(d, p))
    <3>1. ToSet(<<c>>) \ {Word} \subseteq held
      BY <1>1
    <3> HIDE DEF Around
    <3> QED BY <1>3, <3>1, PlanFacts
  <2> QED BY <1>1, <1>2, <2>1
<1>5. Spot(d, p, r)
  <2>1. CASE r = None
    BY <2>1 DEF Spot
  <2>2. CASE r # None
    BY <1>3, <1>4, <2>2, ChildFacts
  <2> QED BY <2>1, <2>2
<1>6. Fine(d, d, Around(d, p))
  BY <1>4 DEF Fine
<1>7. Fine(Attach(d, c, p, r), d, Around(d, p)) /\ Brings(Attach(d, c, p, r), d, p, Gives(d, c))
  BY <1>4, <1>5, <1>6, AttachFine
<1>8. ~Xml /\ p = Doc => Lone(ToSet(d.kids[Doc]) \cup Gives(d, c))
  <2> SUFFICES ASSUME ~Xml, p = Doc PROVE Lone(ToSet(d.kids[Doc]) \cup Gives(d, c))
    OBVIOUS
  <2>1. <<c>> \in Seq(DOMAIN type \cup {Word})
    BY <1>2
  <2>2. Lone((ToSet(d.kids[Doc]) \ {}) \cup Given(d, <<c>>))
    BY <1>3, <2>1, PlanLone
  <2>3. Gives(d, c) \subseteq Given(d, <<c>>)
    BY <1>1, <1>2 DEF Given
  <2>4. ToSet(d.kids[Doc]) \cup Gives(d, c)
          \subseteq (ToSet(d.kids[Doc]) \ {}) \cup Given(d, <<c>>)
    BY <2>3
  <2> QED BY <2>2, <2>4, LoneLess
<1>9. Current(Attach(d, c, p, r), d)
  BY <1>7, <1>8, BringsCurrent
<1> QED BY <1>7, <1>9 DEF Fine

(* replaceChild. *)
LEMMA ReplaceSound ==
  ASSUME Basis, NEW d, Sound(d), NEW p, NEW n \in held, NEW o, CanReplace(d, p, n, o)
  PROVE  Sound(Exchange(d, p, n, o)) /\ Current(Exchange(d, p, n, o), d)
<1> DEFINE U == Around(d, p)
<1>1. ToSet(<<n>>) = {n}
  BY DEF ToSet
<1>2. n # Word /\ n \in DOMAIN type
  BY BasisFacts DEF Sound, Shape, NodesOf
<1>3. MutationPlan(d, p, <<n>>, o, {o}) /\ IsChild(d, p, o)
  BY DEF CanReplace
<1>4. p \in Inner /\ p \in U /\ Closed(d.kids, U) /\ Movable(d, n, U)
  <2>1. /\ p \in Inner /\ p \in U /\ Closed(d.kids, U)
        /\ \A x \in ToSet(<<n>>) \ {Word} : Movable(d, x, U)
    <3>1. ToSet(<<n>>) \ {Word} \subseteq held
      BY <1>1
    <3> QED BY <1>3, <3>1, PlanFacts
  <2> QED BY <1>1, <1>2, <2>1
<1>5. o \in NodesOf(type, d) /\ type[o] \in ChildTypes /\ Spot(d, p, o)
  BY <1>3, <1>4, ChildFacts
<1> HIDE DEF U
<1>6. Fine(d, d, U) /\ Shape(d)
  BY <1>4 DEF Fine, Sound
<1>7. CASE n = o
  BY <1>7, CurrentSelf DEF Exchange
<1>8. CASE n # o /\ Xml
  <2> DEFINE x == Attach(d, n, p, o)
  <2>1. Fine(x, d, U)
    BY <1>4, <1>5, <1>6, AttachFine
  <2>2. Exchange(d, p, n, o) = Detach(x, o)
    BY <1>8 DEF Exchange
  <2> HIDE DEF x
  <2>3. Spot(x, None, None) /\ None # o
    BY <1>5, BasisFacts DEF Spot, NodesOf
  <2>4. Fine(Detach(x, o), d, U)
    BY <1>5, <2>1, <2>3, DetachFine
  <2> QED BY <1>8, <2>2, <2>4 DEF Fine, Current
<1>9. CASE n # o /\ ~Xml
  <2> DEFINE u == Unlink(d, o)
             r == IF n = NextOf(d, o) THEN NextOf(d, n) ELSE NextOf(d, o)
             x == LinkAll(u, n, p, r)
  <2>1. Exchange(d, p, n, o) = Sync(x, p)
    BY <1>9 DEF Exchange
  <2>2. Alike(u, d, Loose(d.kids, o))
    BY <1>5, <1>6, UnlinkIs DEF Shape, NodesOf
  <2>7. Heard(u, d) /\ u.top = d.top
    BY <1>5, <1>9, UnlinkHeard DEF NodesOf
  <2> HIDE DEF u
  <2>3. Shape(u) /\ Closed(u.kids, U)
    BY <1>4, <1>5, <1>6, <2>2, LooseShape DEF NodesOf
  <2>4. Fine(u, d, U)
    BY <1>6, <1>9, <2>2, <2>3 DEF Fine, Sound, Alike
  <2> HIDE DEF r
  <2>5. Fine(x, d, U) /\ Hears(x, u, p, Gives(u, n))
    BY <1>4, <1>9, <2>4, LinkAllFine
  <2> HIDE DEF x
  <2>6. Fine(Sync(x, p), d, U)
    BY <2>5, SyncFine
  <2>8. Brings(Sync(x, p), u, p, Gives(u, n))
    BY <1>9, <2>5, <2>6, SyncBrings DEF Fine
  <2>9. \A q \in Inner : ToSet(u.kids[q]) = ToSet(d.kids[q]) \ {o}
    BY <1>6, <2>2, LooseFacts DEF Alike, Shape
  <2>10. Doc \in Inner
    BY BasisFacts
  <2>11. Current(u, d)
    BY <2>7, <2>9, <2>10 DEF Current, Topped
  <2>12. ASSUME p = Doc PROVE Lone(ToSet(u.kids[Doc]) \cup Gives(u, n))
    <3>1. <<n>> \in Seq(DOMAIN type \cup {Word})
      BY <1>2
    <3>2. Lone((ToSet(d.kids[Doc]) \ {o}) \cup Given(d, <<n>>))
      BY <1>3, <1>9, <2>12, <3>1, PlanLone
    <3>3. Gives(u, n) \subseteq Gives(d, n)
      <4>1. \A q \in Inner : ToSet(u.kids[q]) \subseteq ToSet(d.kids[q])
        BY <2>9
      <4> QED BY <1>2, <4>1, LessGiven
    <3>4. Gives(d, n) \subseteq Given(d, <<n>>)
      BY <1>1, <1>2 DEF Given
    <3>5. ToSet(u.kids[Doc]) \cup Gives(u, n)
            \subseteq (ToSet(d.kids[Doc]) \ {o}) \cup Given(d, <<n>>)
      BY <2>9, <2>10, <3>3, <3>4
    <3> QED BY <3>2, <3>5, LoneLess
  <2>13. Current(Sync(x, p), u)
    BY <2>8, <2>12, BringsCurrent
  <2> QED BY <2>1, <2>6, <2>11, <2>13, CurrentOn DEF Fine
<1> QED BY <1>7, <1>8, <1>9

(* removeChild and remove. *)
LEMMA DetachSound ==
  ASSUME Basis, NEW d, Sound(d), NEW c \in held, type[c] \in ChildTypes
  PROVE  Sound(Detach(d, c)) /\ Current(Detach(d, c), d)
<1>1. Fine(d, d, {Doc}) /\ Spot(d, None, None) /\ c \in NodesOf(type, d) /\ None # c
  BY BasisFacts, OnlyDoc DEF Fine, Spot, Sound, Shape, NodesOf
<1>2. Fine(Detach(d, c), d, {Doc}) /\ Brings(Detach(d, c), d, None, {})
  BY <1>1, DetachFine
<1> QED BY <1>2, LessCurrent DEF Fine

(* The child that the arguments go before does not move itself. *)
LEMMA FirstIn ==
  ASSUME NEW A, NEW s \in Seq(A), NEW S, NEW i, FirstFrom(s, i, S) # None
  PROVE  FirstFrom(s, i, S) \in S \cap ToSet(s)
<1> DEFINE at == {j \in DOMAIN s : j >= i /\ s[j] \in S}
           j == CHOOSE j \in at : \A k \in at : j <= k
<1>1. at # {} /\ FirstFrom(s, i, S) = s[j]
  BY DEF FirstFrom
<1>2. j \in at
  <2>1. at \in SUBSET Nat
    OBVIOUS
  <2>2. \E m \in at : \A k \in at : m <= k
    <3> HIDE DEF at
    <3> QED BY <1>1, <2>1, Least
  <2> HIDE DEF at
  <2> QED BY <2>2
<1> HIDE DEF j
<1>3. s[j] \in ToSet(s)
  BY <1>2, InToSet
<1> QED BY <1>1, <1>2, <1>3

(* The child to go before is no argument, and in XML none that is stored (stable_reference). *)
LEMMA StableFacts ==
  ASSUME Basis, NEW d, Sound(d), NEW p \in Inner, NEW start, NEW args
  PROVE  /\ Spot(d, p, Stable(d, p, start, args))
         /\ \A x \in DOMAIN type : x \in ToSet(args) => x # Stable(d, p, start, args)
<1> DEFINE s == Kids(d, p)  r == Stable(d, p, start, args)  S == ToSet(s) \ Moving(d, args)
<1>1. /\ s \in Seq(DOMAIN type)
      /\ p = Doc => ToSet(s) \cap d.marks = {}
      /\ \A x \in ToSet(s) : x \in ToSet(d.kids[p]) /\ x \in NodesOf(type, d)
  BY KidsFacts
<1>2. None \notin DOMAIN type
  BY BasisFacts
<1>3. r # None => r = FirstFrom(s, Index(s, start), S)
  BY DEF Stable
<1>5. ToSet(args) \subseteq Moving(d, args)
  BY DEF Moving
<1> HIDE DEF s, r
<1>4. r # None => r \in S
  <2> HIDE DEF S
  <2>1. ASSUME r # None PROVE FirstFrom(s, Index(s, start), S) \in S \cap ToSet(s)
    <3>1. FirstFrom(s, Index(s, start), S) # None
      BY <1>3, <2>1
    <3> QED BY <1>1, <3>1, FirstIn
  <2> QED BY <1>3, <2>1
<1>6. Spot(d, p, r)
  <2>1. r # None => r \in ToSet(s)
    BY <1>4
  <2>2. ASSUME Xml, p = Doc, r # None PROVE r \in ToSet(d.kids[Doc]) \ d.marks
    BY <1>1, <2>1, <2>2
  <2> QED BY <2>2 DEF Spot
<1> QED BY <1>2, <1>4, <1>5, <1>6 DEF r

(* What replaceWith replaces is not what the arguments go before. *)
LEMMA NextIsNot ==
  ASSUME Basis, NEW d, Sound(d), NEW n, NEW p \in Inner, Parent(d, n) = p, NEW args
  PROVE  /\ n # Stable(d, p, NextOf(d, n), args)
         /\ n \in NodesOf(type, d) /\ type[n] \in ChildTypes
<1> DEFINE s == Kids(d, p)  next == NextOf(d, n)  r == Stable(d, p, next, args)
           S == ToSet(s) \ Moving(d, args)
<1>1. DOMAIN d.kids = Inner /\ None \notin Inner /\ None \notin DOMAIN type
  BY BasisFacts, TreesFacts DEF Sound, Shape
<1>2. n \in ToSet(d.kids[p]) /\ Above(d, n) = p /\ n \notin d.marks
  BY <1>1, ParentIs DEF Parent
<1>3. /\ s \in Seq(DOMAIN type) /\ n \in ToSet(s) /\ n \in NodesOf(type, d)
      /\ type[n] \in ChildTypes
      /\ \A x : ~Before(s, x, x)
  BY <1>2, KidsFacts
<1>4. next = IF Index(s, n) = Len(s) THEN None ELSE s[Index(s, n) + 1]
  BY <1>2 DEF NextOf
<1>5. r = IF next = None THEN None ELSE FirstFrom(s, Index(s, next), S)
  BY DEF Stable
<1>6. n # None
  BY <1>1, <1>3 DEF NodesOf
<1> HIDE DEF s, next, r, S
<1>7. Index(s, n) \in DOMAIN s /\ s[Index(s, n)] = n
  BY <1>3, IndexIs
<1>8. ASSUME n = r PROVE FALSE
  <2>1. next # None /\ Index(s, n) # Len(s) /\ next = s[Index(s, n) + 1]
    BY <1>4, <1>5, <1>6, <1>8
  <2>2. Index(s, n) + 1 \in DOMAIN s
    BY <1>3, <1>7, <2>1
  <2>3. next \in ToSet(s)
    BY <2>1, <2>2, InToSet
  <2>4. Index(s, next) \in DOMAIN s /\ s[Index(s, next)] = next
    BY <2>3, IndexIs
  <2>5. Index(s, next) = Index(s, n) + 1
    <3>1. ~(Index(s, next) < Index(s, n) + 1) /\ ~(Index(s, next) > Index(s, n) + 1)
      BY <1>3, <2>1, <2>2, <2>4 DEF Before
    <3> QED BY <1>3, <1>7, <2>4, <3>1
  <2>6. FirstFrom(s, Index(s, next), S) # None /\ FirstFrom(s, Index(s, next), S) = n
    BY <1>5, <1>6, <1>8, <2>1
  <2>7. Index(s, next) \in Int
    BY <1>3, <2>4
  <2>8. PICK j \in DOMAIN s : j >= Index(s, next) /\ s[j] = n
    BY <1>3, <2>6, <2>7, FirstFacts
  <2>9. Index(s, n) < j
    BY <1>3, <1>7, <2>5, <2>8
  <2> QED BY <1>3, <1>7, <2>8, <2>9 DEF Before
<1> QED BY <1>3, <1>8 DEF r, next

(* What a method with many arguments leaves. *)
LEMMA ResultSound ==
  ASSUME Basis, NEW d, Sound(d), NEW how \in Calls, NEW n \in DOMAIN type,
         NEW p, p = Site(d, how, n).parent, p \in Inner,
         NEW args, Placeable(d, args, Around(d, p)),
         ~Xml /\ p = Doc =>
           Lone((ToSet(d.kids[Doc]) \ Site(d, how, n).removed) \cup Given(d, args))
  PROVE  Sound(Result(d, how, n, args)) /\ Current(Result(d, how, n, args), d)
<1> DEFINE U == Around(d, p)
           before == Site(d, how, n).before
           r == Stable(d, p, before, args)
           emptied == IF how = "replaceChildren" THEN DetachEach(d, Kids(d, n)) ELSE d
           loose == DetachEach(emptied, args)
           left == IF how = "replaceWith" THEN RemoveVoid(loose, n) ELSE loose
           removed == Site(d, how, n).removed
<1>1. Result(d, how, n, args) = InsertEach(left, p, args, r)
  BY DEF Result
<1>2. Closed(d.kids, U) /\ p \in U
  BY AroundClosed
<1>3. Spot(d, p, r) /\ \A x \in DOMAIN type : x \in ToSet(args) => x # r
  BY StableFacts
<1>4. p = IF how \in OfParent THEN n ELSE ParentOf(d, n)
  BY DEF Site
<1>5. how = "replaceChildren" => p = n /\ r = None
  <2>1. how = "replaceChildren" => p = n /\ before = None
    BY <1>4 DEF Site, OfParent
  <2> HIDE DEF before
  <2> QED BY <2>1 DEF Stable
<1>6. how = "replaceWith" => n # r /\ n \in NodesOf(type, d) /\ type[n] \in ChildTypes
  <2> SUFFICES ASSUME how = "replaceWith"
               PROVE  n # r /\ n \in NodesOf(type, d) /\ type[n] \in ChildTypes
    OBVIOUS
  <2>1. p = ParentOf(d, n) /\ None \notin Inner
    BY <1>4, BasisFacts DEF OfParent
  <2>2. Parent(d, n) = p
    BY <2>1 DEF ParentOf
  <2>3. before = NextOf(d, n)
    BY <2>1, <1>4 DEF Site
  <2> HIDE DEF before
  <2> QED BY <2>2, <2>3, NextIsNot
<1>15. /\ how = "replaceWith" => removed = {n}
       /\ how = "replaceChildren" => removed = ToSet(Kids(d, n))
       /\ how \notin {"replaceWith", "replaceChildren"} => removed = {}
  BY DEF Site
<1> HIDE DEF U, before, r, removed
<1>7. Fine(d, d, U)
  BY <1>2 DEF Fine
<1>8. /\ Fine(emptied, d, U) /\ Spot(emptied, p, r) /\ Brings(emptied, d, None, {})
      /\ how = "replaceChildren" => \A x \in removed : Out(emptied, x)
  <2>1. CASE how # "replaceChildren"
    BY <1>3, <1>7, <2>1, HearsSelf
  <2>2. CASE how = "replaceChildren"
    <3> DEFINE t == Kids(d, n)
    <3>1. /\ t \in Seq(DOMAIN type)
          /\ \A x \in ToSet(t) : x \in NodesOf(type, d) /\ type[x] \in ChildTypes
      BY <1>5, <2>2, KidsFacts
    <3> HIDE DEF t
    <3>2. r = None /\ None \notin DOMAIN type
      BY <1>5, <2>2, BasisFacts
    <3>3. Takable(d, t, r)
      BY <3>1, <3>2 DEF Takable, NodesOf
    <3>4. /\ Fine(DetachEach(d, t), d, U) /\ Spot(DetachEach(d, t), p, r)
          /\ Brings(DetachEach(d, t), d, None, {}) /\ Cleared(DetachEach(d, t), t, Len(t))
      BY <1>3, <1>7, <3>3, DetachEachFine
    <3>5. ASSUME NEW x \in ToSet(t) PROVE Out(DetachEach(d, t), x)
      <4>1. PICK k \in DOMAIN t : t[k] = x
        BY <3>5, InToSet
      <4>2. k \in 1..Len(t) /\ x \in DOMAIN type
        BY <3>1, <4>1
      <4>3. t[k] # Word /\ TypeOf(t[k]) # Fragment
        BY <3>1, <3>5, <4>1, <4>2, BasisFacts DEF TypeOf
      <4> QED BY <3>4, <4>1, <4>2, <4>3 DEF Cleared
    <3>6. removed = ToSet(t)
      BY <1>15, <2>2 DEF t
    <3> QED BY <2>2, <3>4, <3>5, <3>6 DEF t
  <2> QED BY <2>1, <2>2
<1> HIDE DEF emptied
<1>9. Takable(d, args, r)
  BY <1>3 DEF Placeable, Takable, Movable, NodesOf
<1>10. Fine(loose, d, U) /\ Spot(loose, p, r) /\ Brings(loose, emptied, None, {})
  BY <1>8, <1>9, DetachEachFine
<1> HIDE DEF loose
<1>11. /\ Fine(left, d, U) /\ Spot(left, p, r) /\ Brings(left, loose, None, {})
       /\ how = "replaceWith" => Out(left, n)
  <2>1. CASE how # "replaceWith"
    BY <1>10, <2>1, HearsSelf
  <2>2. CASE how = "replaceWith"
    <3>1. /\ Fine(RemoveVoid(loose, n), d, U) /\ Spot(RemoveVoid(loose, n), p, r)
          /\ Brings(RemoveVoid(loose, n), loose, None, {}) /\ Out(RemoveVoid(loose, n), n)
      BY <1>6, <1>10, <2>2, RemoveFine
    <3> QED BY <2>2, <3>1
  <2> QED BY <2>1, <2>2
<1> HIDE DEF left
<1>12. Going(left, left, U, p, r)
  BY <1>11 DEF Going, Fine
<1>13. Placeable(left, args, U)
  BY <1>11 DEF Placeable, Room, Fine, Movable, NodesOf, U
<1>14. Sound(InsertEach(left, p, args, r))
       /\ Brings(InsertEach(left, p, args, r), left, p, Given(left, args))
  BY <1>2, <1>12, <1>13, InsertEachFine
<1>16. Brings(left, emptied, None, {}) /\ Brings(left, d, None, {})
  <2>1. Brings(left, emptied, None, {})
    BY <1>10, <1>11, BringsOn
  <2> QED BY <1>8, <2>1, BringsOn
<1>17. ASSUME ~Xml, p = Doc PROVE Lone(ToSet(left.kids[Doc]) \cup Given(left, args))
  <2>1. Doc \in Inner /\ None \notin Inner
    BY BasisFacts
  <2>2. \A q \in Inner : /\ ToSet(left.kids[q]) \subseteq ToSet(emptied.kids[q])
                         /\ ToSet(left.kids[q]) \subseteq ToSet(d.kids[q])
    BY <1>16, <1>17, <2>1 DEF Brings, Spreads
  <2>3. Given(left, args) \subseteq Given(d, args)
    BY <2>2, LessGiven DEF Placeable
  <2>4. ToSet(left.kids[Doc]) \cap removed = {}
    <3>1. CASE how = "replaceWith"
      BY <1>11, <1>15, <1>17, <2>1, <3>1 DEF Out
    <3>2. CASE how = "replaceChildren"
      BY <1>8, <1>17, <2>1, <2>2, <3>2 DEF Out
    <3>3. CASE how \notin {"replaceWith", "replaceChildren"}
      BY <1>15, <3>3
    <3> QED BY <3>1, <3>2, <3>3
  <2>5. Lone((ToSet(d.kids[Doc]) \ removed) \cup Given(d, args))
    BY <1>17 DEF removed
  <2>6. ToSet(left.kids[Doc]) \cup Given(left, args)
          \subseteq (ToSet(d.kids[Doc]) \ removed) \cup Given(d, args)
    BY <2>1, <2>2, <2>3, <2>4
  <2> QED BY <2>5, <2>6, LoneLess
<1>18. Current(left, d)
  BY <1>16, LessCurrent
<1>19. Current(InsertEach(left, p, args, r), left)
  BY <1>14, <1>17, BringsCurrent
<1> QED BY <1>1, <1>14, <1>18, <1>19, CurrentOn

-----------------------------------------------------------------------------
(* The loops that free texts: textContent and normalize. *)
LEMMA DiscardKids ==
  ASSUME Basis, NEW d, Sound(d), NEW c \in DOMAIN type, NEW q \in Inner, q # Doc
  PROVE  ToSet(Discard(d, c).kids[q]) = ToSet(d.kids[q]) \ {c}
<1>1. d \in Trees(type) /\ Tidy(d.kids) /\ Doc \in Inner
  BY BasisFacts DEF Sound, Shape
<1>2. /\ Alike(Unlink(d, c), d, Loose(d.kids, c))
      /\ ToSet(Loose(d.kids, c)[q]) = ToSet(d.kids[q]) \ {c}
  BY <1>1, UnlinkIs, LooseFacts
<1>3. /\ Alike(Link(d, c, Doc, None), d, Linked(d.kids, c, Doc, None))
      /\ ToSet(Linked(d.kids, c, Doc, None)[q]) = ToSet(d.kids[q]) \ {c}
  <2>1. IsLinked(Linked(d.kids, c, Doc, None), d.kids, c, Doc, None)
    BY <1>1, LinkedSets
  <2>2. ToSet(Linked(d.kids, c, Doc, None)[q]) = ToSet(d.kids[q]) \ {c}
    <3> DEFINE m == Linked(d.kids, c, Doc, None)
    <3> HIDE DEF m
    <3> QED BY <2>1 DEF IsLinked, m
  <2> QED BY <1>1, <2>2, LinkIs
<1> DEFINE u == Unlink(d, c)  l == Link(d, c, Doc, None)
           v == [u EXCEPT !.texts = @ \ {c}, !.blank = @ \ {c}, !.marks = @ \ {c}]
           w == [l EXCEPT !.marks = @ \cup {c}]
<1>4. Discard(d, c).kids = u.kids \/ Discard(d, c).kids = l.kids
  <2>1. Discard(d, c) = v \/ Discard(d, c) = Sync(u, Above(d, c)) \/ Discard(d, c) = w
    BY DEF Discard, Detach
  <2>2. u \in Trees(type) /\ l \in Trees(type)
    BY <1>2, <1>3 DEF Alike
  <2> HIDE DEF u, l
  <2>3. v.kids = u.kids /\ w.kids = l.kids
    BY <2>2 DEF Trees
  <2>4. Sync(u, Above(d, c)).kids = u.kids
    BY <2>2 DEF Sync, Trees
  <2> QED BY <2>1, <2>3, <2>4
<1> QED BY <1>2, <1>3, <1>4 DEF Alike

DiscardEach(d, t) == Each(Discard, d, t)

Freed(e, d, gone) ==
    /\ Sound(e) /\ Brings(e, d, None, {})
    /\ e.texts \subseteq d.texts \ (gone \ held)
    /\ \A q \in Inner \ {Doc} : ToSet(e.kids[q]) \subseteq ToSet(d.kids[q]) \ gone

(* Freeing texts in turn: those nobody holds are gone, and none is in its parent any more. *)
LEMMA DiscardEachFine ==
  ASSUME Basis, NEW d, Sound(d), NEW t \in Seq(DOMAIN type),
         \A x \in ToSet(t) : type[x] \in ChildTypes
  PROVE  Freed(DiscardEach(d, t), d, ToSet(t))
<1> DEFINE s == t
           N == Len(s)
           T == Trees(type)
           step(e, x) == Discard(e, x)
           R(a) == a = [i \in 0..Len(s) |-> IF i = 0 THEN d ELSE step(a[i - 1], s[i])]
           I == [i \in 0..N |-> {e \in T : Freed(e, d, {t[k] : k \in 1..i})}]
           f == [i \in 1..N |-> [e \in T |-> step(e, s[i])]]
           after == CHOOSE a : R(a)
<1>1. N \in Nat /\ N = Len(s)
  OBVIOUS
<1>2. I \in [0..N -> SUBSET T]
  OBVIOUS
<1>3. d \in I[0]
  <2>1. {t[k] : k \in 1..0} = {}
    OBVIOUS
  <2>2. Freed(d, d, {})
    BY HearsSelf DEF Freed
  <2>3. I[0] = {e \in T : Freed(e, d, {t[k] : k \in 1..0})}
    BY <1>1
  <2> HIDE DEF I
  <2> QED BY <2>1, <2>2, <2>3 DEF Sound, Shape
<1>4. ASSUME NEW i \in 1..N, NEW e \in I[i - 1] PROVE step(e, s[i]) \in I[i]
  <2> DEFINE c == t[i]  x == Discard(e, c)  gone == {t[k] : k \in 1..(i - 1)}
  <2>1. Freed(e, d, gone)
    BY <1>1
  <2>2. c \in ToSet(t) /\ c \in DOMAIN type
    BY <1>1, InToSet
  <2>3. {t[k] : k \in 1..i} = gone \cup {c}
    BY <1>1
  <2>4. step(e, s[i]) = x /\ I[i] = {y \in T : Freed(y, d, {t[k] : k \in 1..i})}
    OBVIOUS
  <2>5. c \in held \/ c \in Texts
    BY <2>2 DEF Basis
  <2> HIDE DEF c, gone, step, I
  <2>6. /\ Sound(x) /\ x.texts = IF c \in held THEN e.texts ELSE e.texts \ {c}
        /\ Brings(x, e, None, {})
    BY <2>1, <2>2, <2>5, DiscardSound DEF Freed
  <2>7. \A q \in Inner \ {Doc} : ToSet(x.kids[q]) = ToSet(e.kids[q]) \ {c}
    BY <2>1, <2>2, DiscardKids DEF Freed
  <2> HIDE DEF x
  <2>9. Brings(x, d, None, {})
    BY <2>1, <2>6, BringsOn DEF Freed
  <2>8. Freed(x, d, gone \cup {c})
    BY <2>1, <2>6, <2>7, <2>9 DEF Freed
  <2> QED BY <2>3, <2>4, <2>6, <2>8 DEF Sound, Shape
<1>5. \E a : R(a)
  <2>1. \A i \in 1..N : \A e \in I[i - 1] : f[i][e] = step(e, s[i])
    <3>1. \A i \in 1..N : I[i - 1] \subseteq T
      <4> HIDE DEF I, N, T
      <4>1. \A i \in 1..N : i - 1 \in 0..N
        BY <1>1
      <4> QED BY <1>2, <4>1
    <3> HIDE DEF I, N, T, step
    <3> QED BY <3>1
  <2>2. Steps(N, T, I, d, f)
    <3> HIDE DEF I, f, step, N, T, s
    <3> QED BY <1>1, <1>2, <1>3, <1>4, <2>1 DEF Steps
  <2>3. PICK g : Goes(N, T, I, d, f, g)
    <3> HIDE DEF I, f, N, T
    <3> QED BY <2>2, Iterated
  <2> HIDE DEF f, I, step, N, s, T
  <2>4. \A i \in 1..N : i - 1 \in 0..N /\ i # 0
    BY <1>1
  <2>5. \A i \in 1..N : g[i - 1] \in I[i - 1] /\ g[i] = f[i][g[i - 1]]
    BY <2>3, <2>4 DEF Goes
  <2>6. \A i \in 1..N : g[i] = step(g[i - 1], s[i])
    BY <2>1, <2>5
  <2>7. DOMAIN g = 0..N /\ g = [i \in 0..N |-> g[i]] /\ g[0] = d
    BY <2>3 DEF Goes
  <2>8. \A i \in 0..N : g[i] = IF i = 0 THEN d ELSE step(g[i - 1], s[i])
    <3>1. \A i \in 0..N : i # 0 => i \in 1..N
      BY <1>1
    <3> QED BY <2>4, <2>6, <2>7, <3>1
  <2>9. g = [i \in 0..N |-> IF i = 0 THEN d ELSE step(g[i - 1], s[i])]
    BY <2>7, <2>8
  <2> QED BY <1>1, <2>9
<1>6. R(after)
  <2> HIDE DEF R
  <2> QED BY <1>5, Zenon
<1>7. after[N] \in I[N]
  <2> HIDE DEF after, I, step, N, s, T
  <2>1. after[0] = d /\ \A i \in 1..N : after[i] = step(after[i - 1], s[i])
    <3>1. after = [i \in 0..N |-> IF i = 0 THEN d ELSE step(after[i - 1], s[i])]
      BY <1>1, <1>6
    <3>2. 0 \in 0..N /\ \A i \in 1..N : i \in 0..N /\ i # 0
      BY <1>1
    <3> QED BY <3>1, <3>2
  <2>2. Keeps(N, I, after)
    BY <1>1, <1>3, <1>4, <2>1 DEF Keeps
  <2> QED BY <2>2, Followed
<1>8. Freed(after[N], d, ToSet(t))
  <2>1. ToSet(t) = {t[k] : k \in 1..N}
    BY <1>1 DEF ToSet
  <2>2. I[N] = {e \in T : Freed(e, d, {t[k] : k \in 1..N})}
    BY <1>1
  <2> HIDE DEF I, after, N
  <2> QED BY <1>7, <2>1, <2>2
<1>9. DiscardEach(d, t) = after[N]
  BY DEF DiscardEach, Each
<1> QED BY <1>8, <1>9

(* textContent of an element or a fragment, del_text and set_text. *)
LEMMA WithTextSound ==
  ASSUME Basis, NEW d, Sound(d), NEW p \in Inner, p # Doc, NEW some,
         some => Pool \ (d.texts \ (ToSet(d.kids[p]) \ held)) # {}
  PROVE  Sound(WithText(d, p, some)) /\ Current(WithText(d, p, some), d)
<1> DEFINE e == DiscardEach(d, d.kids[p])  t == Fresh(e)
           g == [e EXCEPT !.texts = @ \cup {t}, !.blank = @ \ {t}]
           x == [e EXCEPT !.kids[p] = <<t>>, !.texts = @ \cup {t}, !.blank = @ \ {t}]
<1>1. WithText(d, p, some) = IF ~some THEN e ELSE x
  BY DEF WithText, DiscardEach
<1>2. Freed(e, d, ToSet(d.kids[p]))
  <2>1. d.kids[p] \in Seq(DOMAIN type) /\ \A y \in ToSet(d.kids[p]) : type[y] \in ChildTypes
    BY TreesFacts DEF Sound, Shape
  <2> QED BY <2>1, DiscardEachFine
<1>5. Current(e, d)
  BY <1>2, LessCurrent DEF Freed
<1>3. CASE ~some
  BY <1>1, <1>2, <1>3, <1>5 DEF Freed
<1>4. CASE some
  <2> HIDE DEF e
  <2>1. Pool \ e.texts # {}
    BY <1>2, <1>4 DEF Freed
  <2>2. t \in Pool \ e.texts
    BY <2>1, FreshIs
  <2> HIDE DEF t
  <2>3. Shape(e) /\ Sound(e) /\ e \in Trees(type) /\ Closed(e.kids, Inner) /\ Doc \in Inner
    BY <1>2, BasisFacts DEF Freed, Sound, Shape, Closed
  <2>4. Grows(g, e, t)
    BY <2>2, <2>3 DEF Grows, Trees, Pool
  <2>5. /\ Shape(g) /\ Closed(g.kids, Inner) /\ t \notin Inner /\ t \in NodesOf(type, g)
        /\ type[t] \in ChildTypes
        /\ t \in DOMAIN type /\ NodesOf(type, g) = NodesOf(type, e) \cup {t}
        /\ \A q \in Inner : t \notin ToSet(g.kids[q])
        /\ \A q \in Inner : Linked(g.kids, t, q, None) = [g.kids EXCEPT ![q] = Append(@, t)]
    <3> HIDE DEF g
    <3> QED BY <2>2, <2>3, <2>4, GrowsFacts
  <2>6. e.kids[p] = <<>>
    <3>1. ToSet(e.kids[p]) = {} /\ e.kids[p] \in Seq(DOMAIN type)
      BY <1>2, <2>3, TreesFacts DEF Freed
    <3> DEFINE s == e.kids[p]
    <3> HIDE DEF s
    <3>2. s = <<>>
      <4>1. Len(s) # 0 => s[1] \in ToSet(s)
        <5>1. s \in Seq(DOMAIN type)
          BY <3>1 DEF s
        <5>2. Len(s) # 0 => 1 \in DOMAIN s
          BY <5>1
        <5> QED BY <5>2, InToSet
      <4> QED BY <3>1, <4>1 DEF s
    <3> QED BY <3>2 DEF s
  <2> DEFINE m == Linked(g.kids, t, p, None)
  <2>7. m = [e.kids EXCEPT ![p] = <<t>>]
    <3>1. g.kids = e.kids
      BY <2>4 DEF Grows
    <3>2. Append(<<>>, t) = <<t>>
      OBVIOUS
    <3> QED BY <2>5, <2>6, <3>1, <3>2
  <2>8. IsLinked(m, g.kids, t, p, None)
    BY <2>5, LinkedSets DEF Shape
  <2> HIDE DEF m
  <2>9. x = [e EXCEPT !.kids = m, !.texts = @ \cup {t}, !.blank = @ \ {t}]
    BY <2>3, <2>7 DEF Trees
  <2>10. t \notin e.marks
    <3>1. t \notin ToSet(e.kids[Doc])
      BY <2>3, <2>4, <2>5 DEF Grows
    <3> QED BY <2>3, <3>1 DEF Sound, Behind
  <2>16. x.told = e.told /\ x.top = e.top
    BY <2>3 DEF Trees
  <2> HIDE DEF x
  <2>11. Moved(x, g, m, g.marks \ {t})
    <3>1. m \in [Inner -> Seq(DOMAIN type)] /\ t \in Texts \cap DOMAIN type
      BY <2>2, <2>8 DEF IsLinked, Pool
    <3>2. g.texts = e.texts \cup {t} /\ g.blank = e.blank \ {t} /\ g.marks = e.marks
      BY <2>4 DEF Grows
    <3> HIDE DEF g
    <3> QED BY <2>3, <2>9, <2>10, <3>1, <3>2 DEF Moved, Trees, Inner
  <2> HIDE DEF g
  <2>13. Shape(x)
    BY <2>5, <2>11, MovedShape DEF m
  <2>14. Xml => Behind(x)
    <3>1. SUFFICES ASSUME Xml PROVE Behind(x)
      OBVIOUS
    <3>2. BehindBut(g, t)
      BY <2>3, <2>4, <2>5, <3>1 DEF Sound, Behind, BehindBut, Grows
    <3>3. Fits(g, t, p, None)
      BY DEF Fits
    <3> QED BY <2>5, <2>11, <3>2, <3>3, MovedBehind DEF m
  <2>15. ~Xml => x.marks = {}
    BY <2>3, <2>4, <2>11 DEF Moved, Grows, Sound
  <2>17. Sound(x) /\ x.kids = m
    BY <2>11, <2>13, <2>14, <2>15 DEF Sound, Moved
  <2>18. ASSUME ~Xml PROVE Heard(x, e)
    <3>1. t \in Leaves
      BY <2>5 DEF Leaves
    <3>2. Without(<<t>>, Leaves) = Without(<<>>, Leaves)
      <4> DEFINE z == <<>>  T == Leaves
      <4>1. z \in Seq(DOMAIN type) /\ Append(z, t) = <<t>>
        BY <2>5
      <4>2. t \in T
        BY <3>1
      <4> HIDE DEF z, T
      <4>3. Without(Append(z, t), T) = Without(z, T)
        BY <2>5, <4>1, <4>2, WithoutAppend
      <4> QED BY <4>1, <4>3 DEF z, T
    <3>3. DOMAIN e.kids = Inner
      BY <2>3, TreesFacts
    <3>4. ASSUME NEW q \in Inner PROVE Without(e.kids[q], Leaves) = Without(x.kids[q], Leaves)
      <4>1. x.kids[q] = IF q = p THEN <<t>> ELSE e.kids[q]
        BY <2>7, <2>17, <3>3
      <4> QED BY <2>6, <3>2, <4>1
    <3> QED BY <2>3, <2>16, <2>17, <2>18, <3>4, HeardSame
  <2>19. Topped(e) => Topped(x)
    <3>1. x.kids[Doc] = e.kids[Doc]
      <4>1. DOMAIN e.kids = Inner
        BY <2>3, TreesFacts
      <4> QED BY <2>3, <2>7, <2>17, <4>1
    <3> QED BY <2>16, <3>1 DEF Topped
  <2>20. Current(x, e)
    BY <2>18, <2>19 DEF Current
  <2> QED BY <1>1, <1>4, <1>5, <2>17, <2>20, CurrentOn
<1> QED BY <1>3, <1>4

(* What is in s and in S, in the order of s. *)
LEMMA OnlyFacts ==
  ASSUME NEW A, NEW s \in Seq(A), NEW S
  PROVE  Only(s, S) \in Seq(A) /\ ToSet(Only(s, S)) = ToSet(s) \cap S
<1>1. /\ Without(s, ToSet(s) \ S) \in Seq(A)
      /\ ToSet(Without(s, ToSet(s) \ S)) = ToSet(s) \ (ToSet(s) \ S)
  BY WithoutFacts
<1> QED BY <1>1 DEF Only

(* What follows a text directly, as far as Rest goes, are texts. *)
LEMMA RestFacts ==
  ASSUME NEW s \in Seq(DOMAIN type), NEW x \in ToSet(s)
  PROVE  Rest(s, x) \in Seq(DOMAIN type) /\ \A y \in ToSet(Rest(s, x)) : type[y] = Text
<1> DEFINE S == {s[j] : j \in {j \in (Index(s, x) + 1)..Len(s) :
                                 \A k \in Index(s, x)..j : type[s[k]] = Text}}
<1>1. Index(s, x) \in Int /\ Len(s) \in Int
  BY IndexIs
<1>2. \A y \in S : type[y] = Text
  <2> SUFFICES ASSUME NEW j \in (Index(s, x) + 1)..Len(s),
                      \A k \in Index(s, x)..j : type[s[k]] = Text
               PROVE  type[s[j]] = Text
    OBVIOUS
  <2>1. j \in Index(s, x)..j
    BY <1>1
  <2> QED BY <2>1
<1>3. Rest(s, x) = Only(s, S)
  BY DEF Rest
<1> HIDE DEF S
<1> QED BY <1>2, <1>3, OnlyFacts

(* One text takes in those that follow it. *)
LEMMA MergeSound ==
  ASSUME Basis, NEW d, Sound(d), NEW s \in Seq(DOMAIN type), NEW x \in ToSet(s), type[x] = Text
  PROVE  Sound(Merge(d, s, x)) /\ Brings(Merge(d, s, x), d, None, {})
<1> DEFINE empty == ToSet(<<x>> \o Rest(s, x)) \subseteq d.blank
           e == [d EXCEPT !.blank = IF empty THEN @ ELSE @ \ {x}]
           t == Rest(s, x) \o (IF empty THEN <<x>> ELSE <<>>)
<1>1. Merge(d, s, x) = DiscardEach(e, t)
  BY DEF Merge, DiscardEach
<1>2. Rest(s, x) \in Seq(DOMAIN type) /\ \A y \in ToSet(Rest(s, x)) : type[y] = Text
  BY RestFacts
<1>3. x \in DOMAIN type /\ Text \in ChildTypes
  BY InToSet DEF ChildTypes
<1> HIDE DEF empty
<1>4. t \in Seq(DOMAIN type) /\ \A y \in ToSet(t) : type[y] \in ChildTypes
  <2> DEFINE u == Rest(s, x)
  <2>1. u \in Seq(DOMAIN type) /\ \A y \in ToSet(u) : type[y] = Text
    BY <1>2
  <2>2. t = u \/ t = Append(u, x)
    <3> HIDE DEF u
    <3>1. u \o <<x>> = Append(u, x) /\ u \o <<>> = u
      BY <1>3, <2>1
    <3> QED BY <3>1 DEF u
  <2> HIDE DEF u, t
  <2>3. Append(u, x) \in Seq(DOMAIN type) /\ ToSet(Append(u, x)) = ToSet(u) \cup {x}
    BY <1>3, <2>1, AppendFacts
  <2> QED BY <1>3, <2>1, <2>2, <2>3
<1>5. /\ e \in Trees(type) /\ e.kids = d.kids /\ e.marks = d.marks /\ e.blank \subseteq d.blank
      /\ NodesOf(type, e) = NodesOf(type, d) /\ e.told = d.told /\ e.top = d.top
  BY DEF Sound, Shape, Trees, NodesOf
<1> HIDE DEF e, t
<1>6. Sound(e)
  <2>1. Shape(e)
    BY <1>5 DEF Sound, Shape
  <2> QED BY <1>5, <2>1 DEF Sound, Behind
<1>7. Freed(DiscardEach(e, t), e, ToSet(t))
  BY <1>4, <1>6, DiscardEachFine
<1>8. Brings(e, d, None, {})
  <2> SUFFICES ASSUME ~Xml PROVE Brings(e, d, None, {})
    BY DEF Brings
  <2>1. Heard(e, d)
    BY <1>5, <1>6, HeardLike
  <2> QED BY <1>5, <2>1 DEF Brings, Spreads, Topped
<1>9. Brings(DiscardEach(e, t), d, None, {})
  BY <1>7, <1>8, BringsOn DEF Freed
<1> QED BY <1>1, <1>7, <1>9 DEF Freed

(* All texts among the children of a node do. *)
LEMMA MergeAllSound ==
  ASSUME Basis, NEW d, Sound(d), NEW p \in Inner
  PROVE  Sound(MergeAll(d, p)) /\ Brings(MergeAll(d, p), d, None, {})
<1> DEFINE k == d.kids[p]
           t == Only(k, Leads(k))
<1>0. /\ k \in Seq(DOMAIN type) /\ t \in Seq(DOMAIN type)
      /\ \A x \in ToSet(t) : x \in ToSet(k) /\ type[x] = Text
  <2>1. k \in Seq(DOMAIN type)
    BY TreesFacts DEF Sound, Shape
  <2> HIDE DEF k
  <2>2. t \in Seq(DOMAIN type) /\ ToSet(t) = ToSet(k) \cap Leads(k)
    BY <2>1, OnlyFacts
  <2>3. \A x \in Leads(k) : type[x] = Text
    BY DEF Leads
  <2> QED BY <2>1, <2>2, <2>3
<1> HIDE DEF k, t
<1> DEFINE s == t
           N == Len(s)
           T == Trees(type)
           step(e, x) == Merge(e, k, x)
           R(a) == a = [i \in 0..Len(s) |-> IF i = 0 THEN d ELSE step(a[i - 1], s[i])]
           I == [i \in 0..N |-> {e \in T : Sound(e) /\ Brings(e, d, None, {})}]
           f == [i \in 1..N |-> [e \in T |-> step(e, s[i])]]
           after == CHOOSE a : R(a)
<1>1. N \in Nat /\ N = Len(s)
  BY <1>0
<1>2. I \in [0..N -> SUBSET T]
  OBVIOUS
<1>3. d \in I[0]
  BY <1>1, HearsSelf DEF Sound, Shape
<1>4. ASSUME NEW i \in 1..N, NEW e \in I[i - 1] PROVE step(e, s[i]) \in I[i]
  <2>1. Sound(e) /\ Brings(e, d, None, {})
    BY <1>1
  <2>2. s[i] \in ToSet(t)
    BY <1>0, InToSet
  <2> HIDE DEF s
  <2> DEFINE x == step(e, s[i])
  <2>3. Sound(x) /\ Brings(x, e, None, {})
    BY <1>0, <2>1, <2>2, MergeSound
  <2> HIDE DEF x
  <2>4. Brings(x, d, None, {})
    BY <2>1, <2>3, BringsOn
  <2>5. x \in I[i]
    BY <2>3, <2>4 DEF Sound, Shape
  <2> QED BY <2>5 DEF x
<1>5. \E a : R(a)
  <2>1. \A i \in 1..N : \A e \in I[i - 1] : f[i][e] = step(e, s[i])
    <3>1. \A i \in 1..N : I[i - 1] \subseteq T
      <4> HIDE DEF I, N, T
      <4>1. \A i \in 1..N : i - 1 \in 0..N
        BY <1>1
      <4> QED BY <1>2, <4>1
    <3> HIDE DEF I, N, T, step
    <3> QED BY <3>1
  <2>2. Steps(N, T, I, d, f)
    <3> HIDE DEF I, f, step, N, T, s
    <3> QED BY <1>1, <1>2, <1>3, <1>4, <2>1 DEF Steps
  <2>3. PICK g : Goes(N, T, I, d, f, g)
    <3> HIDE DEF I, f, N, T
    <3> QED BY <2>2, Iterated
  <2> HIDE DEF f, I, step, N, s, T
  <2>4. \A i \in 1..N : i - 1 \in 0..N /\ i # 0
    BY <1>1
  <2>5. \A i \in 1..N : g[i - 1] \in I[i - 1] /\ g[i] = f[i][g[i - 1]]
    BY <2>3, <2>4 DEF Goes
  <2>6. \A i \in 1..N : g[i] = step(g[i - 1], s[i])
    BY <2>1, <2>5
  <2>7. DOMAIN g = 0..N /\ g = [i \in 0..N |-> g[i]] /\ g[0] = d
    BY <2>3 DEF Goes
  <2>8. \A i \in 0..N : g[i] = IF i = 0 THEN d ELSE step(g[i - 1], s[i])
    <3>1. \A i \in 0..N : i # 0 => i \in 1..N
      BY <1>1
    <3> QED BY <2>4, <2>6, <2>7, <3>1
  <2>9. g = [i \in 0..N |-> IF i = 0 THEN d ELSE step(g[i - 1], s[i])]
    BY <2>7, <2>8
  <2> QED BY <1>1, <2>9
<1>6. R(after)
  <2> HIDE DEF R
  <2> QED BY <1>5, Zenon
<1>7. after[N] \in I[N]
  <2> HIDE DEF after, I, step, N, s, T
  <2>1. after[0] = d /\ \A i \in 1..N : after[i] = step(after[i - 1], s[i])
    <3>1. after = [i \in 0..N |-> IF i = 0 THEN d ELSE step(after[i - 1], s[i])]
      BY <1>1, <1>6
    <3>2. 0 \in 0..N /\ \A i \in 1..N : i \in 0..N /\ i # 0
      BY <1>1
    <3> QED BY <3>1, <3>2
  <2>2. Keeps(N, I, after)
    BY <1>1, <1>3, <1>4, <2>1 DEF Keeps
  <2> QED BY <2>2, Followed
<1>8. Sound(after[N]) /\ Brings(after[N], d, None, {})
  <2>1. I[N] = {e \in T : Sound(e) /\ Brings(e, d, None, {})}
    BY <1>1
  <2> HIDE DEF I, after, N
  <2> QED BY <1>7, <2>1
<1>9. MergeAll(d, p) = after[N]
  BY DEF MergeAll, Each, k, t
<1> QED BY <1>8, <1>9

(* normalize: all nodes beneath one do. *)
LEMMA NormalSound ==
  ASSUME Basis, NEW d, Sound(d), NEW p \in Inner
  PROVE  Sound(Normal(d, p)) /\ Brings(Normal(d, p), d, None, {})
<1> DEFINE t == Only(Below(d, p), Inner)
<1>0. t \in Seq(DOMAIN type) /\ \A x \in ToSet(t) : x \in Inner
  <2>1. Below(d, p) \in Seq(DOMAIN type)
    BY BeneathIs, BasisFacts DEF Below
  <2>2. t \in Seq(DOMAIN type) /\ ToSet(t) = ToSet(Below(d, p)) \cap Inner
    <3> HIDE DEF Below
    <3> QED BY <2>1, OnlyFacts
  <2> QED BY <2>2
<1> HIDE DEF t
<1> DEFINE s == t
           N == Len(s)
           T == Trees(type)
           step(e, x) == MergeAll(e, x)
           R(a) == a = [i \in 0..Len(s) |-> IF i = 0 THEN d ELSE step(a[i - 1], s[i])]
           I == [i \in 0..N |-> {e \in T : Sound(e) /\ Brings(e, d, None, {})}]
           f == [i \in 1..N |-> [e \in T |-> step(e, s[i])]]
           after == CHOOSE a : R(a)
<1>1. N \in Nat /\ N = Len(s)
  BY <1>0
<1>2. I \in [0..N -> SUBSET T]
  OBVIOUS
<1>3. d \in I[0]
  BY <1>1, HearsSelf DEF Sound, Shape
<1>4. ASSUME NEW i \in 1..N, NEW e \in I[i - 1] PROVE step(e, s[i]) \in I[i]
  <2>1. Sound(e) /\ Brings(e, d, None, {})
    BY <1>1
  <2>2. s[i] \in ToSet(t)
    BY <1>0, InToSet
  <2> HIDE DEF s
  <2> DEFINE x == step(e, s[i])
  <2>3. Sound(x) /\ Brings(x, e, None, {})
    BY <1>0, <2>1, <2>2, MergeAllSound
  <2> HIDE DEF x
  <2>4. Brings(x, d, None, {})
    BY <2>1, <2>3, BringsOn
  <2>5. x \in I[i]
    BY <2>3, <2>4 DEF Sound, Shape
  <2> QED BY <2>5 DEF x
<1>5. \E a : R(a)
  <2>1. \A i \in 1..N : \A e \in I[i - 1] : f[i][e] = step(e, s[i])
    <3>1. \A i \in 1..N : I[i - 1] \subseteq T
      <4> HIDE DEF I, N, T
      <4>1. \A i \in 1..N : i - 1 \in 0..N
        BY <1>1
      <4> QED BY <1>2, <4>1
    <3> HIDE DEF I, N, T, step
    <3> QED BY <3>1
  <2>2. Steps(N, T, I, d, f)
    <3> HIDE DEF I, f, step, N, T, s
    <3> QED BY <1>1, <1>2, <1>3, <1>4, <2>1 DEF Steps
  <2>3. PICK g : Goes(N, T, I, d, f, g)
    <3> HIDE DEF I, f, N, T
    <3> QED BY <2>2, Iterated
  <2> HIDE DEF f, I, step, N, s, T
  <2>4. \A i \in 1..N : i - 1 \in 0..N /\ i # 0
    BY <1>1
  <2>5. \A i \in 1..N : g[i - 1] \in I[i - 1] /\ g[i] = f[i][g[i - 1]]
    BY <2>3, <2>4 DEF Goes
  <2>6. \A i \in 1..N : g[i] = step(g[i - 1], s[i])
    BY <2>1, <2>5
  <2>7. DOMAIN g = 0..N /\ g = [i \in 0..N |-> g[i]] /\ g[0] = d
    BY <2>3 DEF Goes
  <2>8. \A i \in 0..N : g[i] = IF i = 0 THEN d ELSE step(g[i - 1], s[i])
    <3>1. \A i \in 0..N : i # 0 => i \in 1..N
      BY <1>1
    <3> QED BY <2>4, <2>6, <2>7, <3>1
  <2>9. g = [i \in 0..N |-> IF i = 0 THEN d ELSE step(g[i - 1], s[i])]
    BY <2>7, <2>8
  <2> QED BY <1>1, <2>9
<1>6. R(after)
  <2> HIDE DEF R
  <2> QED BY <1>5, Zenon
<1>7. after[N] \in I[N]
  <2> HIDE DEF after, I, step, N, s, T
  <2>1. after[0] = d /\ \A i \in 1..N : after[i] = step(after[i - 1], s[i])
    <3>1. after = [i \in 0..N |-> IF i = 0 THEN d ELSE step(after[i - 1], s[i])]
      BY <1>1, <1>6
    <3>2. 0 \in 0..N /\ \A i \in 1..N : i \in 0..N /\ i # 0
      BY <1>1
    <3> QED BY <3>1, <3>2
  <2>2. Keeps(N, I, after)
    BY <1>1, <1>3, <1>4, <2>1 DEF Keeps
  <2> QED BY <2>2, Followed
<1>8. Sound(after[N]) /\ Brings(after[N], d, None, {})
  <2>1. I[N] = {e \in T : Sound(e) /\ Brings(e, d, None, {})}
    BY <1>1
  <2> HIDE DEF I, after, N
  <2> QED BY <1>7, <2>1
<1>9. Normal(d, p) = after[N]
  BY DEF Normal, Each, t
<1> QED BY <1>8, <1>9

-----------------------------------------------------------------------------
(* The calls.  Each leaves a tree that is sound, or changes what Forest is not about. *)
LEMMA LeaveForest == ASSUME Basis, NEW d, Sound(d), Leave(d) PROVE Forest'
<1> DEFINE e == [d EXCEPT !.told = {}]
<1>1. /\ e \in Trees(type) /\ e.kids = d.kids /\ e.marks = d.marks /\ e.texts = d.texts
      /\ e.blank = d.blank /\ e.told = {}
  BY DEF Sound, Shape, Trees
<1>2. be' = be /\ type' = type /\ held' = held /\ tree' = e
  BY DEF Leave
<1> HIDE DEF e
<1>3. Alike(e, d, d.kids)
  BY <1>1 DEF Alike
<1>4. Sound(e)
  BY <1>3, AlikeSound
<1>5. WellFormed(be, type, held, e)
  BY <1>4, SoundIs
<1> QED BY <1>1, <1>2, <1>5 DEF Forest

(* append, prepend, replaceChildren, after, before and replaceWith. *)
LEMMA PlaceSound ==
  ASSUME Basis, NEW d, Sound(d), NEW how \in Calls, NEW n \in Targets(how), NEW args \in Arguments,
         Accepts(d, how, n, args)
  PROVE  Sound(Result(d, how, n, args)) /\ Current(Result(d, how, n, args), d)
<1> DEFINE p == Site(d, how, n).parent
<1>1. MutationPlan(d, p, args, Site(d, how, n).before, Site(d, how, n).removed) /\ Room(d, args)
  BY DEF Accepts
<1>2. held \subseteq DOMAIN type
  BY DEF Sound, Shape, NodesOf
<1>3. PICK k \in 1..MaxArguments : args \in [1..k -> Items]
  BY DEF Arguments
<1>4. args \in Seq(Items)
  <2>1. k \in Nat
    OBVIOUS
  <2> QED BY <1>3, <2>1
<1>5. args \in Seq(DOMAIN type \cup {Word}) /\ ToSet(args) \ {Word} \subseteq held
  <2>1. \A x \in ToSet(args) : x \in Items
    BY <1>4, InToSet
  <2> QED BY <1>2, <1>4, <2>1 DEF Items
<1>6. n \in DOMAIN type
  BY <1>2 DEF Targets
<1>9. ~Xml /\ p = Doc =>
        Lone((ToSet(d.kids[Doc]) \ Site(d, how, n).removed) \cup Given(d, args))
  <2> DEFINE before == Site(d, how, n).before  removed == Site(d, how, n).removed
  <2>1. MutationPlan(d, p, args, before, removed)
    BY <1>1
  <2> HIDE DEF p, before, removed
  <2>2. ~Xml /\ p = Doc => Lone((ToSet(d.kids[Doc]) \ removed) \cup Given(d, args))
    BY <1>5, <2>1, PlanLone
  <2> QED BY <2>2 DEF removed
<1> HIDE DEF p
<1>7. /\ p \in Inner /\ p \in Around(d, p) /\ Closed(d.kids, Around(d, p))
      /\ \A x \in ToSet(args) \ {Word} : Movable(d, x, Around(d, p))
  BY <1>1, <1>5, PlanFacts
<1>8. Placeable(d, args, Around(d, p))
  BY <1>1, <1>5, <1>7 DEF Placeable
<1> QED BY <1>6, <1>7, <1>8, <1>9, ResultSound DEF p

(* replaceChildren without an argument. *)
LEMMA EmptySound ==
  ASSUME Basis, NEW d, Sound(d), NEW n \in Inner
  PROVE  /\ Sound(Result(d, "replaceChildren", n, <<>>))
         /\ Current(Result(d, "replaceChildren", n, <<>>), d)
<1>1. n = Site(d, "replaceChildren", n).parent /\ "replaceChildren" \in Calls
  BY DEF Site, Calls, OfParent
<1>2. Room(d, <<>>)
  <2>1. {i \in DOMAIN <<>> : <<>>[i] = Word} = {}
    OBVIOUS
  <2>2. IsFiniteSet(Pool \ d.texts)
    <3>1. Pool \ d.texts \subseteq DOMAIN type
      BY DEF Pool
    <3> QED BY <3>1, BasisFacts, FS_Subset
  <2>3. Cardinality(Pool \ d.texts) \in Nat /\ Cardinality({}) = 0
    BY <2>2, FS_CardinalityType, FS_EmptySet
  <2> QED BY <2>1, <2>3 DEF Room
<1>3. Placeable(d, <<>>, Around(d, n))
  <2>1. ToSet(<<>>) = {} /\ <<>> \in Seq(DOMAIN type \cup {Word})
    BY DEF ToSet
  <2> QED BY <1>2, <2>1 DEF Placeable
<1>4. n \in DOMAIN type
  BY BasisFacts
<1>5. ASSUME ~Xml, n = Doc
      PROVE  Lone((ToSet(d.kids[Doc]) \ Site(d, "replaceChildren", n).removed)
                    \cup Given(d, <<>>))
  <2>1. Site(d, "replaceChildren", n).removed = ToSet(d.kids[n])
    BY <1>5, HtmlKids DEF Site, Sound
  <2>2. ToSet(<<>>) = {}
    BY DEF ToSet
  <2>3. Given(d, <<>>) = Pool
    BY <2>2 DEF Given
  <2>4. \A x \in Pool : type[x] # Element
    BY DEF Pool, Basis, Kinds, Element, Text
  <2> QED BY <1>5, <2>1, <2>3, <2>4 DEF Lone
<1> QED BY <1>1, <1>3, <1>4, <1>5, ResultSound

(* remove of a node that may have no parent, and removeChild. *)
LEMMA TakeOutSound ==
  ASSUME Basis, NEW d, Sound(d), NEW c \in held
  PROVE  /\ Sound(RemoveVoid(d, c)) /\ Current(RemoveVoid(d, c), d)
         /\ \A p \in held : IsChild(d, p, c) => Sound(Detach(d, c)) /\ Current(Detach(d, c), d)
<1>1. DOMAIN d.kids = Inner /\ None \notin Inner /\ None \notin held
  BY BasisFacts, TreesFacts DEF Sound, Shape, NodesOf
<1>2. ASSUME NEW p \in Inner, c \in ToSet(d.kids[p])
      PROVE  Sound(Detach(d, c)) /\ Current(Detach(d, c), d)
  <2>1. type[c] \in ChildTypes
    BY <1>2 DEF Sound, Shape
  <2> QED BY <2>1, DetachSound
<1>3. ASSUME Parent(d, c) # None PROVE Sound(Detach(d, c)) /\ Current(Detach(d, c), d)
  <2>1. Parent(d, c) \in Inner /\ c \in ToSet(d.kids[Parent(d, c)])
    BY <1>1, <1>3, ParentIs
  <2> QED BY <1>2, <2>1
<1>4. ASSUME NEW p \in held, IsChild(d, p, c)
      PROVE  Sound(Detach(d, c)) /\ Current(Detach(d, c), d)
  <2>1. Above(d, c) \in Inner /\ c \in ToSet(d.kids[Above(d, c)])
    BY <1>1, <1>4, AboveIs DEF IsChild
  <2> QED BY <1>2, <2>1
<1> QED BY <1>3, <1>4, CurrentSelf DEF RemoveVoid

(* nodeValue of a text. *)
LEMMA BlankSound ==
  ASSUME Basis, NEW d, Sound(d), NEW t \in held, NEW b, b \in {d.blank \cup {t}, d.blank \ {t}}
  PROVE  Sound([d EXCEPT !.blank = b]) /\ Current([d EXCEPT !.blank = b], d)
<1> DEFINE e == [d EXCEPT !.blank = b]
<1>1. b \subseteq NodesOf(type, d) /\ b \subseteq DOMAIN type
  BY DEF Sound, Shape, NodesOf
<1>2. /\ e \in Trees(type) /\ e.kids = d.kids /\ e.marks = d.marks /\ e.blank = b
      /\ NodesOf(type, e) = NodesOf(type, d) /\ e.told = d.told /\ e.top = d.top
  BY <1>1 DEF Sound, Shape, Trees, NodesOf
<1> HIDE DEF e
<1>3. Shape(e)
  BY <1>1, <1>2 DEF Sound, Shape
<1>4. Sound(e)
  BY <1>2, <1>3 DEF Sound, Behind
<1>5. ~Xml => Heard(e, d)
  BY <1>2, <1>4, HeardLike
<1> QED BY <1>2, <1>4, <1>5 DEF Current, Topped, e

(* The nodes are a forest at the beginning: what a parser has made is one (CastsAssumption). *)
LEMMA ForestInit == Init => Forest
<1> SUFFICES ASSUME NEW c \in Casts, Cast(c) PROVE Forest
  BY DEF Init
<1>1. WellFormed(c.be, c.type, DOMAIN c.type \ Texts, Grown(c))
  BY CastsAssumption
<1>2. be = c.be /\ type = c.type /\ tree = Grown(c) /\ held = DOMAIN c.type \ Texts
  BY DEF Cast
<1>3. Grown(c).told = {}
  BY DEF Grown
<1> QED BY <1>1, <1>2, <1>3 DEF Forest

-----------------------------------------------------------------------------
(* What a step is: a call that leaves a tree which is sound and current, or one of the rest.    *)
Called == \E d : Sound(d) /\ Current(d, tree) /\ Leave(d)
Stepped == Called \/ Take \/ Select \/ Update \/ SetClass \/ UNCHANGED vars

(* Every call leaves such a tree. *)
LEMMA StepIs == ASSUME Forest, [Next]_vars PROVE Stepped
<1>1. Basis /\ Sound(tree) /\ tree.told = {}
  BY SoundIs DEF Forest
<1>2. held \subseteq NodesOf(type, tree) /\ held \subseteq DOMAIN type
  BY <1>1 DEF Sound, Shape, NodesOf
<1>3. CASE Insert
  <2>1. PICK p \in Inner \cap held, c \in held, r \in held \cup {None} :
          CanInsert(tree, p, c, r) /\ Leave(Attach(tree, c, p, r))
    BY <1>3 DEF Insert
  <2>2. Sound(Attach(tree, c, p, r)) /\ Current(Attach(tree, c, p, r), tree)
    BY <1>1, <2>1, InsertSound
  <2> QED BY <2>1, <2>2 DEF Stepped, Called
<1>4. CASE Replace
  <2>1. PICK p \in Inner \cap held, n, o \in held :
          CanReplace(tree, p, n, o) /\ Leave(Exchange(tree, p, n, o))
    BY <1>4 DEF Replace
  <2>2. Sound(Exchange(tree, p, n, o)) /\ Current(Exchange(tree, p, n, o), tree)
    BY <1>1, <2>1, ReplaceSound
  <2> QED BY <2>1, <2>2 DEF Stepped, Called
<1>5. CASE RemoveChild
  <2>1. PICK p, c \in held : IsChild(tree, p, c) /\ Leave(Detach(tree, c))
    BY <1>5 DEF RemoveChild
  <2>2. Sound(Detach(tree, c)) /\ Current(Detach(tree, c), tree)
    BY <1>1, <2>1, TakeOutSound
  <2> QED BY <2>1, <2>2 DEF Stepped, Called
<1>6. CASE TakeOut
  <2>1. PICK c \in held : Leave(RemoveVoid(tree, c))
    BY <1>6 DEF TakeOut
  <2>2. Sound(RemoveVoid(tree, c)) /\ Current(RemoveVoid(tree, c), tree)
    BY <1>1, <2>1, TakeOutSound
  <2> QED BY <2>1, <2>2 DEF Stepped, Called
<1>7. CASE Empty
  <2>1. PICK n \in held \cap Inner : Leave(Result(tree, "replaceChildren", n, <<>>))
    BY <1>7 DEF Empty
  <2>2. Sound(Result(tree, "replaceChildren", n, <<>>))
        /\ Current(Result(tree, "replaceChildren", n, <<>>), tree)
    BY <1>1, <2>1, EmptySound
  <2> QED BY <2>1, <2>2 DEF Stepped, Called
<1>8. ASSUME NEW how \in Calls, Place(how) PROVE Stepped
  <2>1. PICK n \in Targets(how), args \in Arguments :
          Accepts(tree, how, n, args) /\ Leave(Result(tree, how, n, args))
    BY <1>8 DEF Place
  <2>2. Sound(Result(tree, how, n, args)) /\ Current(Result(tree, how, n, args), tree)
    BY <1>1, <2>1, PlaceSound
  <2> QED BY <2>1, <2>2 DEF Stepped, Called
<1>9. CASE SetTextContent
  <2>1. PICK n \in held \cap Inner, some \in BOOLEAN :
          /\ type[n] # Document
          /\ some => Pool \ (tree.texts \ (ToSet(tree.kids[n]) \ held)) # {}
          /\ Leave(WithText(tree, n, some))
    BY <1>9 DEF SetTextContent
  <2>2. n # Doc
    BY <1>1, <2>1, BasisFacts
  <2>3. Sound(WithText(tree, n, some)) /\ Current(WithText(tree, n, some), tree)
    BY <1>1, <2>1, <2>2, WithTextSound
  <2> QED BY <2>1, <2>3 DEF Stepped, Called
<1>10. CASE SetNodeValue
  <2>0. PICK t \in held :
          \E b \in {tree.blank \cup {t}, tree.blank \ {t}} : Leave([tree EXCEPT !.blank = b])
    BY <1>10 DEF SetNodeValue
  <2>1. PICK b \in {tree.blank \cup {t}, tree.blank \ {t}} : Leave([tree EXCEPT !.blank = b])
    BY <2>0
  <2>2. Sound([tree EXCEPT !.blank = b]) /\ Current([tree EXCEPT !.blank = b], tree)
    BY <1>1, <2>1, BlankSound
  <2> QED BY <2>1, <2>2 DEF Stepped, Called
<1>11. CASE Normalize
  <2>1. PICK n \in held \cap Inner : Leave(Normal(tree, n))
    BY <1>11 DEF Normalize
  <2>2. Sound(Normal(tree, n)) /\ Current(Normal(tree, n), tree)
    BY <1>1, <2>1, NormalSound, LessCurrent
  <2> QED BY <2>1, <2>2 DEF Stepped, Called
<1> QED BY <1>3, <1>4, <1>5, <1>6, <1>7, <1>8, <1>9, <1>10, <1>11 DEF Next, Stepped

(* The nodes are a forest after every step. *)
LEMMA ForestStep == Forest /\ [Next]_vars => Forest'
<1> SUFFICES ASSUME Forest, [Next]_vars PROVE Forest'
  OBVIOUS
<1>1. Basis /\ Sound(tree) /\ tree.told = {}
  BY SoundIs DEF Forest
<1>2. Stepped
  BY StepIs
<1>3. CASE Called
  <2>1. PICK d : Sound(d) /\ Leave(d)
    BY <1>3 DEF Called
  <2> QED BY <1>1, <2>1, LeaveForest
<1>4. CASE Take
  <2>1. PICK t \in tree.texts \ held : held' = held \cup {t} /\ UNCHANGED <<be, type, tree>>
    BY <1>4 DEF Take
  <2>2. t \in NodesOf(type, tree)
    BY <1>1, <2>1, TreesFacts DEF Sound, Shape, NodesOf
  <2>3. WellFormed(be, type, held \cup {t}, tree)
    BY <2>2 DEF Forest, WellFormed
  <2> QED BY <1>1, <2>1, <2>3 DEF Forest
<1>5. CASE UNCHANGED <<be, type, tree, held>>
  BY <1>5 DEF Forest
<1>6. Select \/ Update \/ SetClass \/ UNCHANGED vars => UNCHANGED <<be, type, tree, held>>
  BY DEF Select, Update, SetClass, vars
<1> QED BY <1>2, <1>3, <1>4, <1>5, <1>6 DEF Stepped

(* Whatever a script calls, in whatever order, with however many nodes and arguments: a node is  *)
(* the child of one other at most, once, and never in itself; what an XML document stores stays  *)
(* marked and behind its own children; and no node that the script has an object for is lost.   *)
THEOREM ForestKept == Spec => []Forest
<1> QED BY ForestInit, ForestStep, PTL DEF Spec

-----------------------------------------------------------------------------
(* The walk and the query of a tree, for types and a class that are named: before a step and    *)
(* after it they are of the same ones.                                                          *)
Walk(t, d) ==
    Each(LAMBDA deeper, k: [n \in DOMAIN t |->
            LET s == IF n \in Branches(t) THEN Kids(d, n) ELSE <<>>
            IN <<n>> \o Joined([i \in DOMAIN s |-> deeper[s[i]]])],
         [n \in DOMAIN t |-> <<n>>], Counted(Cardinality(Branches(t))))
Found(t, d, n, K) == Only(Tail(Walk(t, d)[n]), K)

(* A query of a tree is one for the types that there are. *)
LEMMA FoundIs == ASSUME NEW d, NEW n, NEW K PROVE Query(d, n, K) = Found(type, d, n, K)
BY DEF Query, Below, Beneath, Found, Walk, Inner

(* What a collection reads is that query. *)
LEMMA AllIs == QueryAll(tree, live.root) = Found(type, tree, live.root, classed)
BY DEF QueryAll, Below, Beneath, Found, Walk, Inner

(* What a collection needs to be fresh after every step: an HTML document remembers its only    *)
(* element, and the collection's root is one of a script's nodes, and it has what a query finds. *)
Living ==
    /\ ~Xml => Topped(tree)
    /\ script.roots \cup script.styled \subseteq Inner
    /\ classed \subseteq Inner
    /\ live = [root |-> live.root, stale |-> live.stale, out |-> live.out]
    /\ live.stale \in BOOLEAN
    /\ live.root = None \/ (live.root \in Inner /\ ~Xml)
    /\ live.root # None /\ ~live.stale => live.out = Found(type, tree, live.root, classed)

(* What has been told makes no difference to a query. *)
LEMMA FoundOn ==
  ASSUME Basis, ~Xml, NEW d, Sound(d), NEW e, Sound(e), classed \subseteq Inner, Heard(e, d),
         NEW n \in Inner \ e.told
  PROVE  Found(type, e, n, classed) = Found(type, d, n, classed)
<1>1. Shown = classed
  BY DEF Shown
<1>2. Query(e, n, Shown) = Query(d, n, Shown)
  BY DEF Heard
<1> QED BY <1>1, <1>2, FoundIs

(* A call tells every collection that would find something else now. *)
LEMMA LeaveLiving ==
  ASSUME Basis, Living, Sound(tree), NEW d, Sound(d), Current(d, tree), Leave(d)
  PROVE  Living'
<1> DEFINE e == [d EXCEPT !.told = {}]
<1>1. /\ e \in Trees(type) /\ e.kids = d.kids /\ e.marks = d.marks /\ e.texts = d.texts
      /\ e.blank = d.blank /\ e.told = {} /\ e.top = d.top
  BY DEF Sound, Shape, Trees
<1>2. /\ be' = be /\ type' = type /\ script' = script /\ classed' = classed /\ tree' = e
      /\ live' = [live EXCEPT !.stale = @ \/ live.root \in d.told]
  BY DEF Leave
<1> HIDE DEF e
<1>3. Sound(e)
  <2>1. Alike(e, d, d.kids)
    BY <1>1 DEF Alike
  <2> QED BY <2>1, AlikeSound
<1>4. /\ live'.root = live.root /\ live'.out = live.out
      /\ live'.stale = (live.stale \/ live.root \in d.told)
      /\ live' = [root |-> live'.root, stale |-> live'.stale, out |-> live'.out]
  BY <1>2 DEF Living
<1>5. ~Xml => Topped(e)
  BY <1>1 DEF Living, Current, Topped
<1>6. ASSUME live.root # None, ~live.stale, live.root \notin d.told
      PROVE  live.out = Found(type, e, live.root, classed)
  <2>1. ~Xml /\ live.root \in Inner /\ classed \subseteq Inner
        /\ live.out = Found(type, tree, live.root, classed)
    BY <1>6 DEF Living
  <2> DEFINE n == live.root
  <2>2. n \in Inner \ d.told
    BY <1>6, <2>1
  <2> HIDE DEF n
  <2>3. Found(type, d, n, classed) = Found(type, tree, n, classed)
    BY <2>1, <2>2, FoundOn DEF Current
  <2>4. Heard(d, e)
    BY <1>1, <1>3, <2>1, HeardLike
  <2>5. Found(type, d, n, classed) = Found(type, e, n, classed)
    BY <1>3, <2>1, <2>2, <2>4, FoundOn
  <2> QED BY <2>1, <2>3, <2>5 DEF n
<1>7. (~Xml => Topped(tree))'
  BY <1>2, <1>5 DEF Topped, Xml
<1>8. (script.roots \cup script.styled \subseteq Inner /\ classed \subseteq Inner)'
  BY <1>2 DEF Living, Inner
<1>9. (live.root = None \/ (live.root \in Inner /\ ~Xml))'
  BY <1>2, <1>4 DEF Living, Inner, Xml
<1>10. (live.root # None /\ ~live.stale => live.out = Found(type, tree, live.root, classed))'
  BY <1>2, <1>4, <1>6 DEF Living
<1> QED BY <1>4, <1>7, <1>8, <1>9, <1>10 DEF Living

(* Setting a class tells the collections on the node and on what it is in. *)
LEMMA ClassLiving == ASSUME Basis, Living, Sound(tree), SetClass PROVE Living'
<1>1. PICK n \in script.styled :
        /\ classed' = (IF n \in classed THEN classed \ {n} ELSE classed \cup {n})
        /\ live' = [live EXCEPT !.stale = @ \/ live.root \in ToSet(Path(tree, n))]
  BY DEF SetClass
<1>2. ~Xml /\ be' = be /\ type' = type /\ script' = script /\ tree' = tree
  BY DEF SetClass
<1> DEFINE P == ToSet(Path(tree, n))  K == classed  L == classed'  m == live.root
<1>3. n \in Inner /\ K \subseteq Inner /\ L \subseteq Inner /\ K \ {n} = L \ {n}
  BY <1>1 DEF Living
<1>4. /\ live'.root = live.root /\ live'.out = live.out
      /\ live'.stale = (live.stale \/ live.root \in P)
      /\ live' = [root |-> live'.root, stale |-> live'.stale, out |-> live'.out]
  BY <1>1 DEF Living
<1>5. Covers(tree, Inner \ P) /\ n \in P
  BY <1>2, <1>3, OutsideCovers DEF Sound
<1> HIDE DEF P, K, L
<1>6. ASSUME m # None, ~live.stale, m \notin P
      PROVE  live.out = Found(type, tree, m, L)
  <2>1. m \in Inner /\ live.out = Found(type, tree, m, K)
    BY <1>6 DEF Living, K
  <2> HIDE DEF m
  <2> DEFINE C == Inner \ P
  <2>2. m \in C /\ K \cap C = L \cap C
    BY <1>3, <1>5, <1>6, <2>1
  <2>3. Covers(tree, C)
    BY <1>5
  <2> HIDE DEF C
  <2>4. Query(tree, m, K) = Query(tree, m, L)
    BY <1>3, <2>2, <2>3, QuerySame
  <2> QED BY <2>1, <2>4, FoundIs
<1>7. (~Xml => Topped(tree))'
  BY <1>2 DEF Living, Topped, Xml
<1>8. (script.roots \cup script.styled \subseteq Inner /\ classed \subseteq Inner)'
  BY <1>2, <1>3 DEF Living, Inner, L
<1>9. (live.root = None \/ (live.root \in Inner /\ ~Xml))'
  BY <1>2, <1>4 DEF Living, Inner, Xml
<1>10. (live.root # None /\ ~live.stale => live.out = Found(type, tree, live.root, classed))'
  BY <1>2, <1>4, <1>6 DEF Living, L
<1> QED BY <1>4, <1>7, <1>8, <1>9, <1>10 DEF Living

(* The first query, and the one after a change. *)
LEMMA ReadLiving == ASSUME Living, Select \/ Update PROVE Living'
<1>1. /\ be' = be /\ type' = type /\ script' = script /\ tree' = tree /\ classed' = classed
  BY DEF Select, Update
<1>2. (~Xml => Topped(tree))'
  BY <1>1 DEF Living, Topped, Xml
<1>3. (script.roots \cup script.styled \subseteq Inner /\ classed \subseteq Inner)'
  BY <1>1 DEF Living, Inner
<1>4. ASSUME NEW n \in Inner, ~Xml,
             live' = [root |-> n, stale |-> FALSE, out |-> Found(type, tree, n, classed)]
      PROVE  Living'
  <2>1. live'.root = n /\ live'.stale = FALSE /\ live'.out = Found(type, tree, n, classed)
    BY <1>4
  <2>2. live' = [root |-> live'.root, stale |-> live'.stale, out |-> live'.out]
    BY <1>4
  <2>3. (live.root \in Inner /\ ~Xml)'
    BY <1>1, <1>4, <2>1 DEF Inner, Xml
  <2>4. live'.out = Found(type', tree', live'.root, classed')
    BY <1>1, <2>1
  <2> QED BY <1>2, <1>3, <2>1, <2>2, <2>3, <2>4 DEF Living
<1>5. CASE Select
  <2>1. PICK n \in script.roots :
          live' = [root |-> n, stale |-> FALSE, out |-> QueryAll(tree, n)]
    BY <1>5 DEF Select
  <2>2. n \in Inner /\ ~Xml
    BY <1>5, <2>1 DEF Living, Select
  <2>3. QueryAll(tree, n) = Found(type, tree, n, classed)
    BY FoundIs DEF QueryAll, Query
  <2> QED BY <1>4, <2>1, <2>2, <2>3
<1>6. CASE Update
  <2>1. live.stale /\ live' = [live EXCEPT !.stale = FALSE, !.out = QueryAll(tree, live.root)]
    BY <1>6 DEF Update
  <2>2. live' = [root |-> live.root, stale |-> FALSE, out |-> Found(type, tree, live.root, classed)]
    BY <2>1, AllIs DEF Living
  <2>3. CASE live.root \in Inner /\ ~Xml
    BY <1>4, <2>2, <2>3
  <2>4. CASE live.root = None
    <3>1. live'.root = None /\ live'.stale = FALSE
          /\ live' = [root |-> live'.root, stale |-> live'.stale, out |-> live'.out]
      BY <2>2, <2>4
    <3> QED BY <1>2, <1>3, <3>1 DEF Living
  <2> QED BY <2>3, <2>4 DEF Living
<1> QED BY <1>5, <1>6

(* What parsers make is current, and there is no collection yet (CastsAssumption). *)
LEMMA LivingInit == Init => Living
<1> SUFFICES ASSUME NEW c \in Casts, Cast(c) PROVE Living
  BY DEF Init
<1>1. /\ be = c.be /\ type = c.type /\ script = [roots |-> c.roots, styled |-> c.styled]
      /\ tree = Grown(c) /\ classed = {}
      /\ live = [root |-> None, stale |-> FALSE, out |-> <<>>]
  BY DEF Cast
<1>2. /\ c.be # "xml" => \A n \in ToSet(c.kids[Doc]) : c.type[n] = Element => n = c.top
      /\ c.roots \cup c.styled \subseteq Branches(c.type)
      /\ Kinds(c.be, c.type)
  BY CastsAssumption DEF WellFormed
<1>3. tree.kids = c.kids /\ tree.top = c.top
  BY <1>1 DEF Grown
<1>4. ASSUME ~Xml PROVE Topped(tree)
  <2>1. c.be # "xml"
    BY <1>1, <1>4 DEF Xml
  <2> QED BY <1>1, <1>2, <1>3, <2>1 DEF Topped
<1> QED BY <1>1, <1>2, <1>4 DEF Living, Inner

(* Every step keeps that. *)
LEMMA LivingStep == Forest /\ Living /\ [Next]_vars => Living'
<1> SUFFICES ASSUME Forest, Living, [Next]_vars PROVE Living'
  OBVIOUS
<1>1. Basis /\ Sound(tree)
  BY SoundIs DEF Forest
<1>2. Stepped
  BY StepIs
<1>3. CASE Called
  <2>1. PICK d : Sound(d) /\ Current(d, tree) /\ Leave(d)
    BY <1>3 DEF Called
  <2> QED BY <1>1, <2>1, LeaveLiving
<1>4. CASE UNCHANGED <<be, type, script, tree, classed, live>>
  BY <1>4 DEF Living, Topped, Xml, Inner
<1>5. Take \/ UNCHANGED vars => UNCHANGED <<be, type, script, tree, classed, live>>
  BY DEF Take, vars
<1> QED BY <1>1, <1>2, <1>3, <1>4, <1>5, ReadLiving, ClassLiving DEF Stepped

(* Such a document's element is its documentElement, and its collection has what is there. *)
LEMMA LivingFresh == Forest /\ Living => LiveFresh
<1> SUFFICES ASSUME Forest, Living PROVE LiveFresh
  OBVIOUS
<1>1. Basis /\ Sound(tree)
  BY SoundIs DEF Forest
<1>2. TopCurrent
  <2> DEFINE E == {n \in Inner : type[n] = Element}
             s == Only(tree.kids[Doc], E)
  <2> SUFFICES ASSUME ~Xml, s # <<>> PROVE tree.top = Head(s)
    BY DEF TopCurrent
  <2>1. Topped(tree) /\ tree.kids[Doc] \in Seq(DOMAIN type)
    BY <1>1, BasisFacts, TreesFacts DEF Living, Sound, Shape
  <2> HIDE DEF E
  <2>2. s \in Seq(DOMAIN type) /\ ToSet(s) = ToSet(tree.kids[Doc]) \cap E
    <3> DEFINE k == tree.kids[Doc]
    <3>1. k \in Seq(DOMAIN type)
      BY <2>1
    <3> HIDE DEF k
    <3>2. Only(k, E) \in Seq(DOMAIN type) /\ ToSet(Only(k, E)) = ToSet(k) \cap E
      BY <3>1, OnlyFacts
    <3> QED BY <3>2 DEF k
  <2> HIDE DEF s
  <2>3. 1 \in DOMAIN s /\ Head(s) = s[1]
    BY <2>2
  <2>4. Head(s) \in ToSet(s)
    BY <2>3, InToSet
  <2> QED BY <2>1, <2>2, <2>4 DEF Topped, E
<1> QED BY <1>2, AllIs DEF LiveFresh, Living

(* Whatever a script calls, and with however many nodes, arguments and elements with the class: *)
(* documentElement is the element of the document, and a collection that has not been told of a *)
(* change has what a query would find (LiveCollection, sync_document, the mutation callbacks).  *)
THEOREM LiveKept == Spec => []LiveFresh
<1>1. Forest /\ Living /\ [Next]_vars => (Forest /\ Living)'
  BY ForestStep, LivingStep
<1> QED BY <1>1, ForestInit, LivingInit, LivingFresh, PTL DEF Spec
=============================================================================

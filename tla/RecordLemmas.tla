--------------------------- MODULE RecordLemmas ---------------------------
(***************************************************************************)
(* Sequences, as the models of the collector use them: what the members of *)
(* one are after an operation, what FlattenSeq, Only and SomeOrder make,   *)
(* and what get_vdur finds in a record and collect goes through.           *)
(* What holds of all lengths is shown by a least counterexample, which the *)
(* natural numbers have, or by induction over a set of lengths.            *)
(***************************************************************************)
EXTENDS OpenstackVnf, FiniteSetTheorems, WellFoundedInduction, SequenceTheorems, TLAPS

\* A set of natural numbers that has a member has a least one.
LEMMA LeastNat ==
  ASSUME NEW T \in SUBSET Nat, T # {}
  PROVE  \E x \in T : \A y \in T : x <= y
<1> DEFINE R == {ss \in Nat \X Nat : ss[1] < ss[2]}
<1>1. IsWellFoundedOn(R, Nat)
  BY NatLessThanWellFounded DEF OpToRel
<1> HIDE DEF R
<1>2. PICK x \in T : \A y \in T : ~ (<<y, x>> \in R)
  BY <1>1, WFMin
<1>3. \A y \in T : ~ (y < x)
  BY <1>2 DEF R
<1> QED
  BY <1>3

\* One that has a bound has a greatest one.
LEMMA MaxOf ==
  ASSUME NEW N \in Nat, NEW T \in SUBSET (0..N), T # {}
  PROVE  Max(T) \in T /\ \A y \in T : y <= Max(T)
<1> DEFINE R == {N - x : x \in T}
<1>1. R \in SUBSET Nat /\ R # {}
  <2>1. \A x \in T : N - x \in Nat
    OBVIOUS
  <2> QED
    BY <2>1
<1>2. PICK r \in R : \A y \in R : r <= y
  <2> HIDE DEF R
  <2> QED
    BY <1>1, LeastNat
<1>3. PICK x \in T : r = N - x
  BY <1>2
<1>4. \A y \in T : N - y \in R
  OBVIOUS
<1>5. \A y \in T : x >= y
  <2>1. \A y \in T : r <= N - y
    BY <1>2, <1>4
  <2> QED
    BY <1>3, <2>1
<1> QED
  BY <1>3, <1>5 DEF Max

\* What holds of 0, and of each number up to N if of the one before, holds of all.
LEMMA UpTo ==
  ASSUME NEW N \in Nat, NEW P, 0 \in P, \A n \in 1..N : n - 1 \in P => n \in P
  PROVE  \A n \in 0..N : n \in P
<1> DEFINE Bad == {n \in 0..N : n \notin P}
<1>1. SUFFICES ASSUME Bad # {} PROVE FALSE
  OBVIOUS
<1>2. Bad \in SUBSET Nat
  OBVIOUS
<1>3. PICK m \in Bad : \A k \in Bad : m <= k
  <2> HIDE DEF Bad
  <2> QED
    BY <1>1, <1>2, LeastNat
<1>4. m \in 1..N /\ m - 1 \in 0..N /\ ~(m <= m - 1) /\ m \notin P
  BY <1>3
<1>5. m - 1 \in P
  BY <1>3, <1>4
<1> QED
  BY <1>4, <1>5

\* g is what a recursive function over 0..N comes to.
Recurs(g, T, N, base, step) ==
  /\ g \in [0..N -> T]
  /\ \A n \in 0..N : g[n] = IF n = 0 THEN base ELSE step[<<g[n - 1], n>>]

\* A step for each number makes a recursive function.
LEMMA RecursionExists ==
  ASSUME NEW T, NEW N \in Nat, NEW base \in T, NEW step \in [T \X (1..N) -> T]
  PROVE  \E g : Recurs(g, T, N, base, step)
<1> DEFINE P == {m \in 0..N : \E g : Recurs(g, T, m, base, step)}
<1>1. 0 \in P
  <2>1. PICK g : g = [n \in 0..0 |-> base]
    OBVIOUS
  <2>2. Recurs(g, T, 0, base, step)
    BY <2>1 DEF Recurs
  <2> QED
    BY <2>2
<1>2. ASSUME NEW m \in 1..N, m - 1 \in P PROVE m \in P
  <2>1. PICK h : Recurs(h, T, m - 1, base, step)
    BY <1>2
  <2>2. h[m - 1] \in T /\ step[<<h[m - 1], m>>] \in T
    BY <2>1 DEF Recurs
  <2>3. PICK g : g = [n \in 0..m |-> IF n = m THEN step[<<h[m - 1], m>>] ELSE h[n]]
    OBVIOUS
  <2>4. g \in [0..m -> T]
    <3>1. \A n \in 0..m : n # m => n \in 0..(m - 1)
      OBVIOUS
    <3> QED
      BY <2>1, <2>2, <2>3, <3>1 DEF Recurs
  <2>5. ASSUME NEW n \in 0..m
        PROVE  g[n] = IF n = 0 THEN base ELSE step[<<g[n - 1], n>>]
    <3>1. CASE n = m
      <4>1. m - 1 \in 0..m /\ m - 1 # m /\ m # 0 /\ m \in 0..m
        OBVIOUS
      <4>2. g[m] = step[<<h[m - 1], m>>] /\ g[m - 1] = h[m - 1]
        BY <2>3, <4>1
      <4> QED
        BY <3>1, <4>1, <4>2
    <3>2. CASE n # m
      <4>1. n \in 0..(m - 1) /\ g[n] = h[n]
        BY <2>3, <3>2
      <4>2. n # 0 => n - 1 \in 0..m /\ n - 1 # m /\ g[n - 1] = h[n - 1]
        BY <2>3, <4>1
      <4> QED
        BY <2>1, <4>1, <4>2 DEF Recurs
    <3> QED
      BY <3>1, <3>2
  <2>6. Recurs(g, T, m, base, step)
    BY <2>4, <2>5 DEF Recurs
  <2> QED
    BY <2>6
<1>3. N \in P
  <2> HIDE DEF P
  <2> QED
    BY <1>1, <1>2, UpTo
<1> QED
  BY <1>3

\* The function that FlattenSeq chooses: what the first l sequences make together.
Flattens(s, S, l) ==
  \E g \in [1..l -> Seq(S)] :
    \A i \in 1..l : g[i] = IF i = 1 THEN s[i] ELSE g[i - 1] \o s[i]

\* There is one for every sequence of sequences.
LEMMA FlattenExists ==
  ASSUME NEW S, NEW s \in Seq(Seq(S)), Len(s) # 0
  PROVE  Flattens(s, S, Len(s))
<1>0. PICK n \in Nat : n = Len(s)
  OBVIOUS
<1> DEFINE Flat(g, m) == \A i \in 1..m : g[i] = IF i = 1 THEN s[i] ELSE g[i - 1] \o s[i]
           Fine(m) == \E g \in [1..m -> Seq(S)] : Flat(g, m)
           Bad == {m \in 1..n : ~ Fine(m)}
<1>1. \A i \in 1..n : s[i] \in Seq(S)
  BY <1>0
<1>2. Bad = {}
  <2>1. SUFFICES ASSUME Bad # {} PROVE FALSE
    OBVIOUS
  <2>2. Bad \in SUBSET Nat
    OBVIOUS
  <2>3. PICK m \in Bad : \A k \in Bad : m <= k
    <3> HIDE DEF Bad
    <3> QED
      BY <2>1, <2>2, LeastNat
  <2>4. m \in 1..n /\ ~ Fine(m)
    BY <2>3
  <2>5. CASE m = 1
    <3> DEFINE g == [i \in 1..1 |-> s[1]]
    <3>1. g \in [1..1 -> Seq(S)] /\ Flat(g, 1)
      BY <1>1, <2>4, <2>5
    <3>2. Fine(1)
      BY <3>1
    <3> QED
      BY <2>4, <2>5, <3>2
  <2>6. CASE m # 1
    <3>1. m - 1 \in 1..n /\ m \in 2..n
      BY <2>4, <2>6
    <3>2. Fine(m - 1)
      <4>1. m - 1 \notin Bad
        <5>1. ~ (m <= m - 1)
          BY <3>1
        <5> HIDE DEF Bad
        <5> QED
          BY <2>3, <5>1
      <4> QED
        BY <3>1, <4>1
    <3>3. PICK h \in [1..(m - 1) -> Seq(S)] : Flat(h, m - 1)
      BY <3>2
    <3>4. h[m - 1] \o s[m] \in Seq(S)
      BY <1>1, <3>1
    <3>5. PICK g : g = [i \in 1..m |-> IF i = m THEN h[m - 1] \o s[m] ELSE h[i]]
      OBVIOUS
    <3>6. g \in [1..m -> Seq(S)]
      BY <3>1, <3>4, <3>5
    <3>7. ASSUME NEW i \in 1..m
          PROVE  g[i] = IF i = 1 THEN s[i] ELSE g[i - 1] \o s[i]
      <4>1. CASE i = m
        <5>1. m # 1 /\ m - 1 \in 1..m /\ m - 1 # m /\ m \in 1..m
          BY <3>1
        <5>2. g[m] = h[m - 1] \o s[m] /\ g[m - 1] = h[m - 1]
          BY <3>5, <5>1
        <5> QED
          BY <4>1, <5>1, <5>2
      <4>2. CASE i # m
        <5>1. i \in 1..(m - 1) /\ g[i] = h[i]
          BY <3>1, <3>5, <4>2
        <5>2. i # 1 => i - 1 \in 1..m /\ i - 1 # m /\ g[i - 1] = h[i - 1]
          BY <3>1, <3>5, <5>1
        <5> QED
          BY <3>3, <5>1, <5>2
      <4> QED
        BY <4>1, <4>2
    <3>8. Fine(m)
      BY <3>6, <3>7
    <3> QED
      BY <2>4, <3>8
  <2> QED
    BY <2>5, <2>6
<1>3. Fine(n)
  <2>1. n \in 1..n /\ n \notin Bad
    <3> HIDE DEF Bad
    <3> QED
      BY <1>2, <1>0
  <2> HIDE DEF Fine
  <2> QED
    BY <2>1
<1> QED
  BY <1>3, <1>0 DEF Flattens

\* Flattening a sequence of sequences of items gives a sequence of items.
LEMMA FlattenType ==
  ASSUME NEW S, NEW s \in Seq(Seq(S))
  PROVE  FlattenSeq(s) \in Seq(S)
<1>0. PICK n \in Nat : n = Len(s)
  OBVIOUS
<1>1. CASE n = 0
  <2>1. s = <<>>
    BY <1>0, <1>1, EmptySeq
  <2> QED
    BY <1>0, <1>1, <2>1 DEF FlattenSeq
<1>2. CASE n # 0
  <2> DEFINE Flat(g) == g = [i \in 1..n |-> IF i = 1 THEN s[i] ELSE g[i - 1] \o s[i]]
             flatten == CHOOSE g : Flat(g)
  <2>1. n \in 1..n /\ \A i \in 1..n : s[i] \in Seq(S)
    BY <1>0, <1>2
  <2>2. PICK h \in [1..n -> Seq(S)] :
          \A i \in 1..n : h[i] = IF i = 1 THEN s[i] ELSE h[i - 1] \o s[i]
    <3>1. Flattens(s, S, n)
      BY <1>0, <1>2, FlattenExists
    <3> QED
      BY <3>1 DEF Flattens
  <2>3. h = [i \in 1..n |-> IF i = 1 THEN s[i] ELSE h[i - 1] \o s[i]]
    BY <2>2
  <2>4. Flat(flatten)
    BY <2>3
  <2>5. FlattenSeq(s) = flatten[n]
    BY <1>0, <1>2 DEF FlattenSeq
  <2> HIDE DEF flatten
  <2>6. \A i \in 1..n : flatten[i] = IF i = 1 THEN s[i] ELSE flatten[i - 1] \o s[i]
    BY <2>4
  <2> DEFINE Bad == {i \in 1..n : flatten[i] \notin Seq(S)}
  <2>7. Bad = {}
    <3>1. SUFFICES ASSUME Bad # {} PROVE FALSE
      OBVIOUS
    <3>2. Bad \in SUBSET Nat
      OBVIOUS
    <3>3. PICK m \in Bad : \A k \in Bad : m <= k
      <4> HIDE DEF Bad
      <4> QED
        BY <3>1, <3>2, LeastNat
    <3>4. m \in 1..n /\ flatten[m] \notin Seq(S)
      BY <3>3
    <3>5. m # 1 => m - 1 \in 1..n /\ flatten[m - 1] \in Seq(S)
      <4>1. m # 1 => m - 1 \in 1..n /\ ~ (m <= m - 1)
        BY <3>4
      <4>2. m # 1 => m - 1 \notin Bad
        BY <3>3, <4>1
      <4> QED
        BY <4>1, <4>2
    <3>6. m # 1 => flatten[m - 1] \o s[m] \in Seq(S)
      BY <2>1, <3>4, <3>5, ConcatProperties
    <3> QED
      BY <2>1, <2>6, <3>4, <3>6
  <2> QED
    BY <2>1, <2>5, <2>7
<1> QED
  BY <1>1, <1>2

\* The members of a sequence with one more.
LEMMA SetOfAppend ==
  ASSUME NEW S, NEW s \in Seq(S), NEW e \in S
  PROVE  /\ Append(s, e) \in Seq(S) /\ Len(Append(s, e)) = Len(s) + 1
         /\ ToSet(Append(s, e)) = ToSet(s) \cup {e}
<1>1. /\ Append(s, e) \in Seq(S) /\ Len(Append(s, e)) = Len(s) + 1
      /\ \A i \in 1..Len(s) : Append(s, e)[i] = s[i]
      /\ Append(s, e)[Len(s) + 1] = e
  BY AppendProperties
<1>2. DOMAIN s = 1..Len(s) /\ DOMAIN Append(s, e) = 1..(Len(s) + 1) /\ Len(s) \in Nat
  BY <1>1, LenProperties
<1> QED
  BY <1>1, <1>2 DEF ToSet

\* No member of T is in the sequence twice.
Once(s, T) == \A i, j \in DOMAIN s : s[i] \in T /\ s[i] = s[j] => i = j

\* That stays so with a new item.
LEMMA OnceAppend ==
  ASSUME NEW S, NEW s \in Seq(S), NEW e \in S, NEW T, Once(s, T),
         e \in T => e \notin ToSet(s)
  PROVE  Once(Append(s, e), T)
<1>1. /\ Append(s, e) \in Seq(S) /\ Len(Append(s, e)) = Len(s) + 1
      /\ \A i \in 1..Len(s) : Append(s, e)[i] = s[i]
      /\ Append(s, e)[Len(s) + 1] = e
  BY AppendProperties
<1>2. DOMAIN s = 1..Len(s) /\ DOMAIN Append(s, e) = 1..(Len(s) + 1) /\ Len(s) \in Nat
  BY <1>1, LenProperties
<1>3. e \in T => \A i \in 1..Len(s) : s[i] # e
  BY <1>2 DEF ToSet
<1>4. SUFFICES ASSUME NEW i \in 1..(Len(s) + 1), NEW j \in 1..(Len(s) + 1),
                      Append(s, e)[i] \in T, Append(s, e)[i] = Append(s, e)[j]
               PROVE  i = j
  BY <1>2 DEF Once
<1>5. (i = Len(s) + 1 \/ i \in 1..Len(s)) /\ (j = Len(s) + 1 \/ j \in 1..Len(s))
  BY <1>2
<1> QED
  BY <1>1, <1>2, <1>3, <1>4, <1>5 DEF Once

\* Only keeps the members that are in the set, each as often as it was.
LEMMA OnlyProperties ==
  ASSUME NEW A, NEW s \in Seq(A), NEW S
  PROVE  /\ Only(s, S) \in Seq(A) /\ ToSet(Only(s, S)) = ToSet(s) \cap S
         /\ Once(s, S) => Once(Only(s, S), S)
<1>0. PICK N \in Nat : N = Len(s) /\ DOMAIN s = 1..N /\ \A n \in 1..N : s[n] \in A
  BY LenProperties
<1> DEFINE Filters(g) ==
             g = [n \in 0..N |->
                    IF n = 0 THEN <<>>
                    ELSE IF s[n] \in S THEN Append(g[n - 1], s[n]) ELSE g[n - 1]]
           only == CHOOSE g : Filters(g)
           kept(n) == {s[i] : i \in 1..n} \cap S
<1>1. Filters(only)
  <2>1. PICK step : step = [p \in Seq(A) \X (1..N) |->
                              IF s[p[2]] \in S THEN Append(p[1], s[p[2]]) ELSE p[1]]
    OBVIOUS
  <2>2. step \in [Seq(A) \X (1..N) -> Seq(A)]
    BY <1>0, <2>1
  <2>3. <<>> \in Seq(A)
    OBVIOUS
  <2>4. PICK h : Recurs(h, Seq(A), N, <<>>, step)
    <3> HIDE DEF Filters
    <3> QED
      BY <2>2, <2>3, RecursionExists
  <2>5. ASSUME NEW n \in 0..N, n # 0
        PROVE  h[n] = IF s[n] \in S THEN Append(h[n - 1], s[n]) ELSE h[n - 1]
    <3>1. n - 1 \in 0..N /\ n \in 1..N
      BY <2>5
    <3>2. h[n - 1] \in Seq(A) /\ h[n] = step[<<h[n - 1], n>>]
      BY <2>4, <2>5, <3>1 DEF Recurs
    <3> QED
      BY <2>1, <3>1, <3>2
  <2>6. h \in [0..N -> Seq(A)]
    BY <2>4 DEF Recurs
  <2>8. h[0] = <<>>
    BY <2>4, 0 \in 0..N DEF Recurs
  <2>7. Filters(h)
    BY <2>5, <2>6, <2>8
  <2> QED
    BY <2>7
<1>2. Only(s, S) = only[N]
  BY <1>0 DEF Only
<1> HIDE DEF only
<1>3. only[0] = <<>> /\ \A n \in 1..N :
        only[n] = IF s[n] \in S THEN Append(only[n - 1], s[n]) ELSE only[n - 1]
  <2>1. \A n \in 0..N : only[n] = IF n = 0 THEN <<>>
                                  ELSE IF s[n] \in S THEN Append(only[n - 1], s[n])
                                  ELSE only[n - 1]
    BY <1>1
  <2> QED
    BY <2>1
<1> DEFINE P == {n \in 0..N : only[n] \in Seq(A) /\ ToSet(only[n]) = kept(n)}
<1>4. 0 \in P
  <2>1. kept(0) = {} /\ ToSet(<<>>) = {} /\ <<>> \in Seq(A)
    BY DEF ToSet
  <2>2. only[0] \in Seq(A) /\ ToSet(only[0]) = kept(0)
    BY <1>3, <2>1
  <2>3. 0 \in 0..N
    OBVIOUS
  <2> HIDE DEF kept
  <2> QED
    BY <2>2, <2>3
<1>5. ASSUME NEW n \in 1..N, n - 1 \in P
      PROVE  /\ n \in P
             /\ s[n] \in S => only[n] = Append(only[n - 1], s[n])
             /\ s[n] \notin S => only[n] = only[n - 1]
  <2>1. PICK t \in Seq(A) : t = only[n - 1] /\ ToSet(t) = kept(n - 1)
    BY <1>5
  <2>2. \A i \in 1..n : i = n \/ i \in 1..(n - 1)
    OBVIOUS
  <2>3. kept(n) = IF s[n] \in S THEN kept(n - 1) \cup {s[n]} ELSE kept(n - 1)
    BY <2>2
  <2>4. s[n] \in A /\ only[n] = IF s[n] \in S THEN Append(t, s[n]) ELSE t
    BY <1>0, <1>3, <2>1
  <2>5. Append(t, s[n]) \in Seq(A) /\ ToSet(Append(t, s[n])) = ToSet(t) \cup {s[n]}
    BY <2>4, SetOfAppend
  <2> HIDE DEF kept
  <2>6. only[n] \in Seq(A) /\ ToSet(only[n]) = kept(n)
    BY <2>1, <2>3, <2>4, <2>5
  <2>7. n \in 0..N
    OBVIOUS
  <2>8. n \in P
    BY <2>6, <2>7
  <2> HIDE DEF P
  <2> QED
    BY <2>1, <2>4, <2>8
<1>6. \A n \in 0..N : n \in P
  <2> HIDE DEF P
  <2> QED
    BY <1>4, <1>5, UpTo
<1>7. kept(N) = ToSet(s) \cap S
  BY <1>0 DEF ToSet
<1>8. ASSUME Once(s, S) PROVE Once(only[N], S)
  <2> DEFINE Q == {n \in 0..N : Once(only[n], S)}
  <2>1. 0 \in Q
    BY <1>3 DEF Once
  <2>2. ASSUME NEW n \in 1..N, n - 1 \in Q PROVE n \in Q
    <3>1. only[n - 1] \in Seq(A) /\ ToSet(only[n - 1]) = kept(n - 1)
      <4>1. n - 1 \in P
        <5> HIDE DEF P
        <5> QED
          BY <1>6
      <4> HIDE DEF kept
      <4> QED
        BY <4>1
    <3>2. \A i \in 1..(n - 1) : i \in DOMAIN s /\ n \in DOMAIN s /\ i # n
      BY <1>0
    <3>3. s[n] \in A /\ (s[n] \in S => s[n] \notin kept(n - 1))
      BY <1>0, <1>8, <3>2 DEF Once
    <3>4. Once(only[n - 1], S)
      BY <2>2
    <3>5. Once(Append(only[n - 1], s[n]), S)
      <4> HIDE DEF kept
      <4> QED
        BY <3>1, <3>3, <3>4, OnceAppend
    <3>6. Once(only[n], S)
      <4>1. n - 1 \in P
        <5> HIDE DEF P
        <5> QED
          BY <1>6
      <4>2. CASE s[n] \in S
        <5>1. only[n] = Append(only[n - 1], s[n])
          <6> HIDE DEF P
          <6> QED
            BY <1>5, <4>1, <4>2
        <5> QED
          BY <3>5, <5>1
      <4>3. CASE s[n] \notin S
        <5>1. only[n] = only[n - 1]
          <6> HIDE DEF P
          <6> QED
            BY <1>5, <4>1, <4>3
        <5> QED
          BY <3>4, <5>1
      <4> QED
        BY <4>2, <4>3
    <3> QED
      BY <3>6
  <2>3. N \in Q
    <3>1. \A n \in 0..N : n \in Q
      <4> HIDE DEF Q
      <4> QED
        BY <2>1, <2>2, UpTo
    <3> HIDE DEF Q
    <3> QED
      BY <3>1
  <2> QED
    BY <2>3
<1>9. only[N] \in Seq(A) /\ ToSet(only[N]) = kept(N)
  <2> HIDE DEF kept
  <2> QED
    BY <1>6
<1> HIDE DEF kept, P
<1> QED
  BY <1>2, <1>7, <1>8, <1>9

\* The subsets SomeOrder has come to the order of, when it is that of n members.
Small(S, n) == {T \in SUBSET S : Cardinality(T) <= n}

First(T) == CHOOSE y \in T : TRUE

OrdersSmall(g, S, n) ==
  /\ g \in [Small(S, n) -> Seq(S)]
  /\ \A T \in Small(S, n) :
       g[T] = IF T = {} THEN <<>> ELSE Append(g[T \ {First(T)}], First(T))

LEMMA WithoutFirst ==
  ASSUME NEW S, IsFiniteSet(S), NEW n \in Nat, NEW T \in Small(S, n), T # {}
  PROVE  /\ First(T) \in T /\ First(T) \in S
         /\ n - 1 \in Nat /\ T \ {First(T)} \in Small(S, n - 1)
<1>1. First(T) \in T
  BY DEF First
<1>2. IsFiniteSet(T) /\ Cardinality(T) \in Nat /\ Cardinality(T) # 0 /\ Cardinality(T) <= n
  BY FS_Subset, FS_CardinalityType, FS_EmptySet DEF Small
<1>3. Cardinality(T \ {First(T)}) = Cardinality(T) - 1
  BY <1>1, <1>2, FS_RemoveElement
<1> QED
  BY <1>1, <1>2, <1>3 DEF Small

LEMMA OrderExists ==
  ASSUME NEW S, IsFiniteSet(S), NEW N \in Nat
  PROVE  \E g : OrdersSmall(g, S, N)
<1> DEFINE P == {n \in 0..N : \E g : OrdersSmall(g, S, n)}
<1>1. 0 \in P
  <2>1. PICK g : g = [T \in Small(S, 0) |-> <<>>]
    OBVIOUS
  <2>2. ASSUME NEW T \in Small(S, 0) PROVE T = {}
    <3>1. 0 - 1 \notin Nat
      OBVIOUS
    <3> QED
      BY <3>1, WithoutFirst
  <2>3. OrdersSmall(g, S, 0)
    BY <2>1, <2>2 DEF OrdersSmall
  <2> QED
    BY <2>3
<1>2. ASSUME NEW n \in 1..N, n - 1 \in P PROVE n \in P
  <2>1. PICK h : OrdersSmall(h, S, n - 1)
    BY <1>2
  <2>2. PICK g : g = [T \in Small(S, n) |->
                        IF T = {} THEN <<>> ELSE Append(h[T \ {First(T)}], First(T))]
    OBVIOUS
  <2>3. ASSUME NEW T \in Small(S, n), T # {}
        PROVE  /\ First(T) \in S /\ T \ {First(T)} \in Small(S, n - 1)
               /\ h[T \ {First(T)}] \in Seq(S)
    <3>1. First(T) \in S /\ T \ {First(T)} \in Small(S, n - 1)
      BY <2>3, WithoutFirst
    <3> QED
      BY <2>1, <3>1 DEF OrdersSmall
  <2>4. g \in [Small(S, n) -> Seq(S)]
    <3>1. ASSUME NEW T \in Small(S, n), T # {}
          PROVE  Append(h[T \ {First(T)}], First(T)) \in Seq(S)
      BY <2>3, <3>1, AppendProperties
    <3>2. <<>> \in Seq(S)
      OBVIOUS
    <3> QED
      BY <2>2, <3>1, <3>2
  <2>5. Small(S, n - 1) \subseteq Small(S, n)
    <3>1. ASSUME NEW T \in SUBSET S, Cardinality(T) <= n - 1 PROVE Cardinality(T) <= n
      BY <3>1, FS_Subset, FS_CardinalityType
    <3> QED
      BY <3>1 DEF Small
  <2>6. ASSUME NEW T \in Small(S, n - 1) PROVE g[T] = h[T]
    BY <2>1, <2>2, <2>5 DEF OrdersSmall
  <2>7. ASSUME NEW T \in Small(S, n)
        PROVE  g[T] = IF T = {} THEN <<>> ELSE Append(g[T \ {First(T)}], First(T))
    BY <2>2, <2>3, <2>6
  <2>8. OrdersSmall(g, S, n)
    BY <2>4, <2>7 DEF OrdersSmall
  <2> QED
    BY <2>8
<1>3. N \in P
  <2>1. \A n \in 0..N : n \in P
    <3> HIDE DEF P
    <3> QED
      BY <1>1, <1>2, UpTo
  <2> HIDE DEF P
  <2> QED
    BY <2>1
<1> QED
  BY <1>3

\* s lists each member of T once.
Lists(s, S, T) == s \in Seq(S) /\ ToSet(s) = T /\ Once(s, S)

\* A finite set has an order, and SomeOrder gives one.
LEMMA SomeOrderProperties ==
  ASSUME NEW S, IsFiniteSet(S)
  PROVE  /\ SomeOrder(S) \in Seq(S) /\ ToSet(SomeOrder(S)) = S
         /\ Once(SomeOrder(S), S)
<1> DEFINE Orders(g) == g = [T \in SUBSET S |->
                               IF T = {} THEN <<>>
                               ELSE LET x == CHOOSE y \in T : TRUE
                                    IN  Append(g[T \ {x}], x)]
           order == CHOOSE g : Orders(g)
<1>1. PICK N \in Nat : N = Cardinality(S)
  BY FS_CardinalityType
<1>2. Small(S, N) = SUBSET S
  BY <1>1, FS_Subset DEF Small
<1>3. Orders(order)
  <2>1. PICK h : OrdersSmall(h, S, N)
    BY OrderExists
  <2>2. h \in [SUBSET S -> Seq(S)]
    BY <1>2, <2>1 DEF OrdersSmall
  <2>3. ASSUME NEW T \in SUBSET S
        PROVE  h[T] = IF T = {} THEN <<>>
                      ELSE LET x == CHOOSE y \in T : TRUE IN Append(h[T \ {x}], x)
    BY <1>2, <2>1 DEF OrdersSmall, First
  <2>4. Orders(h)
    BY <2>2, <2>3
  <2> QED
    BY <2>4
<1>4. SomeOrder(S) = order[S]
  BY DEF SomeOrder
<1> HIDE DEF order
<1>5. \A T \in SUBSET S :
        order[T] = IF T = {} THEN <<>> ELSE Append(order[T \ {First(T)}], First(T))
  BY <1>3 DEF First
<1> HIDE DEF Orders
<1> DEFINE P == {n \in 0..N : \A T \in Small(S, n) : Lists(order[T], S, T)}
<1>6. 0 \in P
  <2>1. ASSUME NEW T \in Small(S, 0) PROVE T = {} /\ T \in SUBSET S
    <3>1. 0 - 1 \notin Nat
      OBVIOUS
    <3> QED
      BY <3>1, WithoutFirst DEF Small
  <2>2. Lists(<<>>, S, {})
    BY DEF Lists, ToSet, Once
  <2>3. \A T \in Small(S, 0) : Lists(order[T], S, T)
    BY <1>5, <2>1, <2>2
  <2> QED
    BY <2>3
<1>7. ASSUME NEW n \in 1..N, n - 1 \in P PROVE n \in P
  <2>1. ASSUME NEW T \in Small(S, n) PROVE Lists(order[T], S, T)
    <3>1. T \in SUBSET S
      BY DEF Small
    <3>2. CASE T = {}
      <4>1. Lists(<<>>, S, {})
        BY DEF Lists, ToSet, Once
      <4> QED
        BY <1>5, <3>1, <3>2, <4>1
    <3>3. CASE T # {}
      <4>1. PICK x : x = First(T)
        OBVIOUS
      <4>2. x \in T /\ x \in S /\ T \ {x} \in Small(S, n - 1)
        BY <3>3, <4>1, WithoutFirst
      <4>3. PICK t : t = order[T \ {x}]
        OBVIOUS
      <4>4. Lists(t, S, T \ {x})
        BY <1>7, <4>2, <4>3
      <4>5. order[T] = Append(t, x)
        BY <1>5, <3>1, <3>3, <4>1, <4>3
      <4>6. t \in Seq(S) /\ ToSet(t) = T \ {x} /\ Once(t, S)
        BY <4>4 DEF Lists
      <4>7. /\ Append(t, x) \in Seq(S) /\ ToSet(Append(t, x)) = ToSet(t) \cup {x}
            /\ Once(Append(t, x), S)
        BY <4>2, <4>6, SetOfAppend, OnceAppend
      <4>8. ToSet(Append(t, x)) = T
        BY <4>2, <4>6, <4>7
      <4> QED
        BY <4>5, <4>7, <4>8 DEF Lists
    <3> QED
      BY <3>2, <3>3
  <2> QED
    BY <2>1
<1>8. N \in P
  <2>1. \A n \in 0..N : n \in P
    <3> HIDE DEF P
    <3> QED
      BY <1>6, <1>7, UpTo
  <2> HIDE DEF P
  <2> QED
    BY <2>1
<1>9. \A T \in Small(S, N) : Lists(order[T], S, T)
  BY <1>8
<1>10. Lists(SomeOrder(S), S, S)
  BY <1>2, <1>4, <1>9
<1> QED
  BY <1>10 DEF Lists

\* What a function makes of the members of a finite set is finite.
LEMMA FiniteImage ==
  ASSUME NEW S, IsFiniteSet(S), NEW f, DOMAIN f = S, f = [x \in S |-> f[x]]
  PROVE  IsFiniteSet({f[x] : x \in S})
<1> DEFINE T == {f[x] : x \in S}
<1>1. f \in Surjection(S, T)
  BY DEF Surjection
<1> HIDE DEF T
<1>2. IsFiniteSet(T)
  BY <1>1, FS_Surjection
<1> QED
  BY <1>2 DEF T

\* A sequence that is not empty has a last item.
LEMMA LastIn ==
  ASSUME NEW S, NEW s \in Seq(S), s # <<>>
  PROVE  Last(s) \in ToSet(s) /\ Last(s) \in S
<1>1. Len(s) \in Nat \ {0} /\ DOMAIN s = 1..Len(s)
  BY LenProperties, EmptySeq
<1>2. Len(s) \in DOMAIN s /\ s[Len(s)] \in S
  BY <1>1
<1> QED
  BY <1>2 DEF Last, ToSet

\* The members of two sequences in a row.
LEMMA SetOfConcat ==
  ASSUME NEW S, NEW s \in Seq(S), NEW t \in Seq(S)
  PROVE  s \o t \in Seq(S) /\ ToSet(s \o t) = ToSet(s) \cup ToSet(t)
<1>1. /\ s \o t \in Seq(S) /\ Len(s \o t) = Len(s) + Len(t)
      /\ \A i \in 1..(Len(s) + Len(t)) :
           (s \o t)[i] = IF i <= Len(s) THEN s[i] ELSE t[i - Len(s)]
  BY ConcatProperties
<1>2. /\ DOMAIN s = 1..Len(s) /\ DOMAIN t = 1..Len(t)
      /\ DOMAIN (s \o t) = 1..(Len(s) + Len(t))
      /\ Len(s) \in Nat /\ Len(t) \in Nat
  BY <1>1, LenProperties
<1>3. ASSUME NEW i \in 1..(Len(s) + Len(t)) PROVE (s \o t)[i] \in ToSet(s) \cup ToSet(t)
  <2>1. CASE i <= Len(s)
    <3>1. i \in 1..Len(s) /\ (s \o t)[i] = s[i]
      BY <1>1, <1>2, <2>1
    <3> QED
      BY <1>2, <3>1 DEF ToSet
  <2>2. CASE ~(i <= Len(s))
    <3>1. i - Len(s) \in 1..Len(t) /\ (s \o t)[i] = t[i - Len(s)]
      BY <1>1, <1>2, <2>2
    <3> QED
      BY <1>2, <3>1 DEF ToSet
  <2> QED
    BY <2>1, <2>2
<1>4. ASSUME NEW i \in 1..Len(s) PROVE i \in 1..(Len(s) + Len(t)) /\ (s \o t)[i] = s[i]
  BY <1>1, <1>2
<1>5. ASSUME NEW i \in 1..Len(t)
      PROVE  i + Len(s) \in 1..(Len(s) + Len(t)) /\ (s \o t)[i + Len(s)] = t[i]
  <2>1. /\ i + Len(s) \in 1..(Len(s) + Len(t)) /\ ~(i + Len(s) <= Len(s))
        /\ (i + Len(s)) - Len(s) = i
    BY <1>2
  <2> QED
    BY <1>1, <2>1
<1>6. ToSet(s) \subseteq ToSet(s \o t)
  BY <1>2, <1>4 DEF ToSet
<1>7. ToSet(t) \subseteq ToSet(s \o t)
  BY <1>2, <1>5 DEF ToSet
<1>8. ToSet(s \o t) \subseteq ToSet(s) \cup ToSet(t)
  BY <1>2, <1>3 DEF ToSet
<1> QED
  BY <1>1, <1>6, <1>7, <1>8

LEMMA OnceConcat ==
  ASSUME NEW S, NEW s \in Seq(S), NEW t \in Seq(S), NEW T,
         Once(s, T), Once(t, T), ToSet(s) \cap ToSet(t) \cap T = {}
  PROVE  Once(s \o t, T)
<1>1. /\ s \o t \in Seq(S) /\ Len(s \o t) = Len(s) + Len(t)
      /\ \A i \in 1..(Len(s) + Len(t)) :
           (s \o t)[i] = IF i <= Len(s) THEN s[i] ELSE t[i - Len(s)]
  BY ConcatProperties
<1>2. /\ DOMAIN s = 1..Len(s) /\ DOMAIN t = 1..Len(t)
      /\ DOMAIN (s \o t) = 1..(Len(s) + Len(t))
      /\ Len(s) \in Nat /\ Len(t) \in Nat
  BY <1>1, LenProperties
<1>3. SUFFICES ASSUME NEW i \in 1..(Len(s) + Len(t)), NEW j \in 1..(Len(s) + Len(t)),
                      (s \o t)[i] \in T, (s \o t)[i] = (s \o t)[j]
               PROVE  i = j
  BY <1>2 DEF Once
<1>4. ASSUME NEW k \in 1..(Len(s) + Len(t))
      PROVE  \/ k \in 1..Len(s) /\ (s \o t)[k] = s[k] /\ s[k] \in ToSet(s)
             \/ /\ k - Len(s) \in 1..Len(t) /\ (s \o t)[k] = t[k - Len(s)]
                /\ t[k - Len(s)] \in ToSet(t)
  <2>1. CASE k <= Len(s)
    BY <1>1, <1>2, <2>1 DEF ToSet
  <2>2. CASE ~(k <= Len(s))
    <3>1. k - Len(s) \in 1..Len(t)
      BY <1>2, <2>2
    <3> QED
      BY <1>1, <1>2, <2>2, <3>1 DEF ToSet
  <2> QED
    BY <2>1, <2>2
<1>5. CASE i \in 1..Len(s) /\ j \in 1..Len(s) /\ s[i] \in T /\ s[i] = s[j]
  BY <1>2, <1>5 DEF Once
<1>6. CASE /\ i - Len(s) \in 1..Len(t) /\ j - Len(s) \in 1..Len(t)
           /\ t[i - Len(s)] \in T /\ t[i - Len(s)] = t[j - Len(s)]
  <2>1. i - Len(s) = j - Len(s)
    BY <1>2, <1>6 DEF Once
  <2> QED
    BY <1>2, <2>1
<1> QED
  BY <1>3, <1>4, <1>5, <1>6

\* The members of a sequence are its head and those of its tail.
LEMMA SetOfTail ==
  ASSUME NEW S, NEW s \in Seq(S), s # <<>>
  PROVE  /\ Head(s) \in S /\ Tail(s) \in Seq(S)
         /\ ToSet(s) = {Head(s)} \cup ToSet(Tail(s))
<1>1. /\ Head(s) \in S /\ Tail(s) \in Seq(S)
      /\ Len(Tail(s)) = Len(s) - 1 /\ Head(s) = s[1]
      /\ \A i \in 1..Len(Tail(s)) : Tail(s)[i] = s[i + 1]
  BY HeadTailProperties
<1>2. DOMAIN s = 1..Len(s) /\ DOMAIN Tail(s) = 1..(Len(s) - 1) /\ Len(s) \in Nat \ {0}
  BY <1>1, LenProperties, EmptySeq
<1>3. ASSUME NEW i \in 1..Len(s), i # 1
      PROVE  i - 1 \in 1..(Len(s) - 1) /\ s[i] = Tail(s)[i - 1]
  <2>1. i - 1 \in 1..(Len(s) - 1) /\ (i - 1) + 1 = i
    BY <1>2, <1>3
  <2> QED
    BY <1>1, <2>1
<1>4. ASSUME NEW j \in 1..(Len(s) - 1)
      PROVE  j + 1 \in 1..Len(s) /\ Tail(s)[j] = s[j + 1]
  BY <1>1, <1>2
<1>5. ToSet(Tail(s)) \subseteq ToSet(s) /\ Head(s) \in ToSet(s)
  BY <1>1, <1>2, <1>4 DEF ToSet
<1>6. ASSUME NEW i \in 1..Len(s) PROVE s[i] \in {Head(s)} \cup ToSet(Tail(s))
  <2>1. CASE i = 1
    BY <1>1, <2>1
  <2>2. CASE i # 1
    BY <1>2, <1>3, <2>2 DEF ToSet
  <2> QED
    BY <2>1, <2>2
<1>7. ToSet(s) \subseteq {Head(s)} \cup ToSet(Tail(s))
  BY <1>2, <1>6 DEF ToSet
<1> QED
  BY <1>1, <1>5, <1>7

\* A sequence that loses an item has no new one.
LEMMA SetOfRemoveAt ==
  ASSUME NEW S, NEW s \in Seq(S), NEW i \in 1..Len(s)
  PROVE  /\ RemoveAt(s, i) \in Seq(S) /\ Len(RemoveAt(s, i)) = Len(s) - 1
         /\ ToSet(RemoveAt(s, i)) \subseteq ToSet(s)
<1> DEFINE T == ToSet(s)
           before == SubSeq(s, 1, i - 1)
           after == SubSeq(s, i + 1, Len(s))
<1>1. Len(s) \in Nat /\ DOMAIN s = 1..Len(s) /\ (\A k \in 1..Len(s) : s[k] \in T \cap S)
  BY LenProperties DEF ToSet
<1> HIDE DEF T
<1>2. before \in Seq(T \cap S) /\ Len(before) = i - 1
  <2>1. \A k \in 1..(i - 1) : s[k] \in T \cap S
    BY <1>1
  <2>2. 1 \in Int /\ i - 1 \in Int
    BY <1>1
  <2>3. before \in Seq(T \cap S) /\ Len(before) = IF 1 <= i - 1 THEN i - 1 - 1 + 1 ELSE 0
    BY <2>1, <2>2, SubSeqProperties
  <2> HIDE DEF before
  <2> QED
    BY <1>1, <2>3
<1>3. after \in Seq(T \cap S) /\ Len(after) = Len(s) - i
  <2>1. \A k \in (i + 1)..Len(s) : s[k] \in T \cap S
    BY <1>1
  <2>2. i + 1 \in Int /\ Len(s) \in Int
    BY <1>1
  <2>3. /\ after \in Seq(T \cap S)
        /\ Len(after) = IF i + 1 <= Len(s) THEN Len(s) - (i + 1) + 1 ELSE 0
    BY <2>1, <2>2, SubSeqProperties
  <2> HIDE DEF after
  <2>4. i \in Int /\ Len(s) \in Int /\ i <= Len(s)
    BY <1>1
  <2> QED
    BY <2>3, <2>4
<1> HIDE DEF before, after
<1>4. before \o after \in Seq(T \cap S) /\ Len(before \o after) = Len(s) - 1
  <2>1. /\ before \o after \in Seq(T \cap S)
        /\ Len(before \o after) = Len(before) + Len(after)
    BY <1>2, <1>3, ConcatProperties
  <2> QED
    BY <1>1, <1>2, <1>3, <2>1
<1>5. before \o after \in Seq(S) /\ ToSet(before \o after) \subseteq T
  BY <1>4, LenProperties DEF ToSet
<1> QED
  BY <1>4, <1>5 DEF RemoveAt, before, after, T

\* A sequence of sequences' first item is that of one of them.
IsFirstOf(t, s, n) == t # <<>> => \E i \in 1..n : s[i] # <<>> /\ Head(t) = Head(s[i])

LEMMA FirstOfConcat ==
  ASSUME NEW S, NEW s \in Seq(Seq(S)), NEW n \in 1..Len(s), NEW t \in Seq(S),
         IsFirstOf(t, s, n - 1)
  PROVE  IsFirstOf(t \o s[n], s, n)
<1>1. s[n] \in Seq(S) /\ Len(s) \in Nat
  BY LenProperties
<1>2. CASE t = <<>>
  <2>1. t \o s[n] = s[n]
    BY <1>1, <1>2
  <2> QED
    BY <2>1 DEF IsFirstOf
<1>3. CASE t # <<>>
  <2>1. PICK i \in 1..(n - 1) : s[i] # <<>> /\ Head(t) = Head(s[i])
    BY <1>3 DEF IsFirstOf
  <2>2. Head(t \o s[n]) = Head(t)
    <3>1. Len(t) \in Nat \ {0} /\ Head(t) = t[1] /\ Len(s[n]) \in Nat
      BY <1>1, <1>3, HeadTailProperties, LenProperties, EmptySeq
    <3>2. /\ t \o s[n] \in Seq(S) /\ Len(t \o s[n]) = Len(t) + Len(s[n])
          /\ (t \o s[n])[1] = t[1]
      BY <1>1, <3>1, ConcatProperties
    <3>3. t \o s[n] # <<>>
      BY <3>1, <3>2
    <3> QED
      BY <3>1, <3>2, <3>3, HeadTailProperties
  <2>3. i \in 1..n
    BY <1>1
  <2> QED
    BY <2>1, <2>2, <2>3 DEF IsFirstOf
<1> QED
  BY <1>2, <1>3

\* What FlattenSeq makes has the members of the sequences it flattens, first the
\* first of one; and one of T once, if it is in one of them and there once.
LEMMA FlattenProperties ==
  ASSUME NEW S, NEW s \in Seq(Seq(S)), NEW T
  PROVE  /\ ToSet(FlattenSeq(s)) = UNION {ToSet(s[i]) : i \in DOMAIN s}
         /\ IsFirstOf(FlattenSeq(s), s, Len(s))
         /\ (/\ \A i \in DOMAIN s : Once(s[i], T)
             /\ \A i, j \in DOMAIN s : i # j => ToSet(s[i]) \cap ToSet(s[j]) \cap T = {})
              => Once(FlattenSeq(s), T)
<1>0. PICK n \in Nat : n = Len(s) /\ DOMAIN s = 1..n
  BY LenProperties
<1>1. CASE n = 0
  <2>1. s = <<>>
    BY <1>0, <1>1, EmptySeq
  <2>2. FlattenSeq(s) = <<>>
    BY <1>0, <1>1, <2>1 DEF FlattenSeq
  <2>3. DOMAIN s = {} /\ ToSet(<<>>) = {} /\ Once(<<>>, T) /\ IsFirstOf(<<>>, s, Len(s))
    BY <1>0, <1>1 DEF ToSet, Once, IsFirstOf
  <2> QED
    BY <2>2, <2>3
<1>2. CASE n # 0
  <2> DEFINE Flat(g) == g = [i \in 1..n |-> IF i = 1 THEN s[i] ELSE g[i - 1] \o s[i]]
             flatten == CHOOSE g : Flat(g)
  <2>1. n \in 1..n /\ \A i \in 1..n : s[i] \in Seq(S)
    BY <1>0, <1>2
  <2>2. PICK h \in [1..n -> Seq(S)] :
          \A i \in 1..n : h[i] = IF i = 1 THEN s[i] ELSE h[i - 1] \o s[i]
    <3>1. Flattens(s, S, n)
      BY <1>0, <1>2, FlattenExists
    <3> QED
      BY <3>1 DEF Flattens
  <2>3. h = [i \in 1..n |-> IF i = 1 THEN s[i] ELSE h[i - 1] \o s[i]]
    BY <2>2
  <2>4. Flat(flatten)
    BY <2>3
  <2>5. FlattenSeq(s) = flatten[n]
    BY <1>0, <1>2 DEF FlattenSeq
  <2> HIDE DEF flatten
  <2>6. \A i \in 1..n : flatten[i] = IF i = 1 THEN s[i] ELSE flatten[i - 1] \o s[i]
    BY <2>4
  <2>0. ASSUME NEW k \in 1..n
        PROVE  /\ k = 1 => flatten[k] = s[k]
               /\ k # 1 => flatten[k] = flatten[k - 1] \o s[k]
    BY <2>6, Zenon
  <2> HIDE DEF Flat
  <2> DEFINE upto(k) == UNION {ToSet(s[i]) : i \in 1..k}
             P == {0} \cup
                  {m \in 1..n : /\ flatten[m] \in Seq(S) /\ ToSet(flatten[m]) = upto(m)
                                /\ IsFirstOf(flatten[m], s, m)}
  <2>7. ASSUME NEW k \in 1..n PROVE upto(k) = upto(k - 1) \cup ToSet(s[k])
    <3>1. \A i \in 1..k : i = k \/ i \in 1..(k - 1)
      OBVIOUS
    <3> QED
      BY <3>1
  <2>8. upto(0) = {}
    OBVIOUS
  <2>9. 0 \in P
    OBVIOUS
  <2>10. ASSUME NEW k \in 1..n, k - 1 \in P PROVE k \in P
    <3>1. s[k] \in Seq(S)
      BY <2>1
    <3> HIDE DEF upto
    <3>2. CASE k = 1
      <4>0. k - 1 = 0
        BY <3>2
      <4>1. flatten[k] = s[k]
        BY <2>0, <3>2
      <4>2. upto(k) = ToSet(s[k])
        BY <2>7, <2>8, <4>0
      <4>3. IsFirstOf(s[k], s, k)
        BY DEF IsFirstOf
      <4> QED
        BY <3>1, <4>1, <4>2, <4>3
    <3>3. CASE k # 1
      <4>0. k - 1 # 0
        BY <3>3
      <4>1. flatten[k] = flatten[k - 1] \o s[k]
        BY <2>0, <3>3
      <4>2. /\ flatten[k - 1] \in Seq(S) /\ ToSet(flatten[k - 1]) = upto(k - 1)
            /\ IsFirstOf(flatten[k - 1], s, k - 1)
        BY <2>10, <4>0
      <4>3. /\ flatten[k] \in Seq(S)
            /\ ToSet(flatten[k]) = ToSet(flatten[k - 1]) \cup ToSet(s[k])
        BY <3>1, <4>1, <4>2, SetOfConcat
      <4>4. IsFirstOf(flatten[k], s, k)
        BY <1>0, <4>1, <4>2, FirstOfConcat
      <4> QED
        BY <2>7, <4>2, <4>3, <4>4
    <3>4. flatten[k] \in Seq(S) /\ ToSet(flatten[k]) = upto(k) /\ IsFirstOf(flatten[k], s, k)
      BY <3>2, <3>3
    <3> QED
      BY <3>4
  <2>11. \A k \in 0..n : k \in P
    <3> HIDE DEF P
    <3> QED
      BY <2>9, <2>10, UpTo
  <2>12. ASSUME NEW k \in 1..n
         PROVE  /\ flatten[k] \in Seq(S) /\ ToSet(flatten[k]) = upto(k)
                /\ IsFirstOf(flatten[k], s, k)
    <3>1. k \in P /\ k # 0
      <4> HIDE DEF P
      <4> QED
        BY <2>11
    <3> HIDE DEF upto
    <3> QED
      BY <3>1
  <2>13. /\ ToSet(FlattenSeq(s)) = UNION {ToSet(s[i]) : i \in DOMAIN s}
         /\ IsFirstOf(FlattenSeq(s), s, Len(s))
    BY <1>0, <2>1, <2>5, <2>12
  <2>14. ASSUME \A i \in 1..n : Once(s[i], T),
                \A i, j \in 1..n : i # j => ToSet(s[i]) \cap ToSet(s[j]) \cap T = {}
         PROVE  Once(flatten[n], T)
    <3> DEFINE Q == {k \in 0..n : k # 0 => Once(flatten[k], T)}
    <3>1. 0 \in Q
      OBVIOUS
    <3>2. ASSUME NEW k \in 1..n, k - 1 \in Q PROVE k \in Q
      <4>1. s[k] \in Seq(S) /\ Once(s[k], T)
        BY <2>1, <2>14
      <4>2. CASE k = 1
        <5>1. flatten[k] = s[k]
          BY <2>0, <4>2
        <5> QED
          BY <4>1, <5>1
      <4>3. CASE k # 1
        <5>0. k - 1 \in 1..n /\ k - 1 # 0
          BY <4>3
        <5>1. flatten[k] = flatten[k - 1] \o s[k]
          BY <2>0, <4>3
        <5>2. Once(flatten[k - 1], T)
          BY <3>2, <5>0
        <5>3. flatten[k - 1] \in Seq(S) /\ ToSet(flatten[k - 1]) = upto(k - 1)
          <6> HIDE DEF upto
          <6> QED
            BY <2>12, <5>0
        <5>4. ToSet(flatten[k - 1]) \cap ToSet(s[k]) \cap T = {}
          <6>1. \A i \in 1..(k - 1) : i \in 1..n /\ i # k
            OBVIOUS
          <6> QED
            BY <2>14, <5>3, <6>1
        <5> HIDE DEF upto
        <5>5. Once(flatten[k], T)
          BY <4>1, <5>1, <5>2, <5>3, <5>4, OnceConcat
        <5> QED
          BY <5>5
      <4> QED
        BY <4>2, <4>3
    <3>3. \A k \in 0..n : k \in Q
      <4> HIDE DEF Q
      <4> QED
        BY <3>1, <3>2, UpTo
    <3>4. n \in Q
      <4> HIDE DEF Q
      <4> QED
        BY <3>3
    <3> QED
      BY <2>1, <3>4
  <2> QED
    BY <1>0, <2>5, <2>13, <2>14
<1> QED
  BY <1>1, <1>2

-----------------------------------------------------------------------------
(* Records. *)

\* Where get_vdur stops is a vdur of that name or without one, and it stops at one
\* if the record has one.
LEMMA WhereItStops ==
  ASSUME NEW S, NEW r \in Seq(S), NEW n
  PROVE  /\ VdurIndex(r, n) # 0 =>
              /\ VdurIndex(r, n) \in DOMAIN r
              /\ r[VdurIndex(r, n)].name \in {n, Unfilled}
         /\ VdurIndex(r, n) = 0 => \A d \in ToSet(r) : d.name # n
<1> DEFINE I == {i \in 1..Len(r) : r[i].name \in {n, Unfilled}}
<1>1. DOMAIN r = 1..Len(r) /\ I \in SUBSET Nat /\ 0 \notin I
  BY LenProperties
<1>2. VdurIndex(r, n) = IF I # {} THEN Min(I) ELSE 0
  BY DEF VdurIndex, SelectInSeq
<1>3. ASSUME I # {} PROVE Min(I) \in I
  <2> HIDE DEF I
  <2>1. \E x \in I : \A y \in I : x <= y
    BY <1>1, <1>3, LeastNat
  <2> QED
    BY <2>1 DEF Min
<1>4. CASE I # {}
  <2>1. VdurIndex(r, n) \in I /\ VdurIndex(r, n) # 0
    BY <1>1, <1>2, <1>3, <1>4
  <2> QED
    BY <1>1, <2>1
<1>5. CASE I = {}
  <2>1. \A d \in ToSet(r) : d.name # n
    BY <1>1, <1>5 DEF ToSet
  <2> QED
    BY <1>2, <1>5, <2>1
<1> QED
  BY <1>4, <1>5

\* What collect goes through of one vdur.
WorkOf(d) == [j \in DOMAIN ParamsOf(d) |-> [name |-> d.name, param |-> ParamsOf(d)[j]]]

LEMMA WorkOfVdur ==
  ASSUME NEW d, NEW N, IsNamed(d) => d.name \in N
  PROVE  /\ WorkOf(d) \in Seq([name : N, param : Param])
         /\ ToSet(WorkOf(d)) = {[name |-> d.name, param |-> p] : p \in ToSet(ParamsOf(d))}
         /\ ToSet(WorkOf(d)) # {} => IsNamed(d)
<1>1. PICK m \in Nat : DOMAIN ParamsOf(d) = 1..m /\ \A j \in 1..m : ParamsOf(d)[j] \in Param
  <2>1. ParamsOf(d) \in Seq(Param)
    BY RecordsAssumption DEF ParamsOf
  <2> QED
    BY <2>1
<1>2. m # 0 => IsNamed(d)
  <2>1. ~ IsNamed(d) => ParamsOf(d) = <<>>
    BY DEF ParamsOf
  <2>2. ~ IsNamed(d) => 1 \notin DOMAIN ParamsOf(d)
    BY <2>1
  <2> QED
    BY <1>1, <2>2
<1>3. ASSUME NEW j \in 1..m
      PROVE  WorkOf(d)[j] \in [name : N, param : Param]
  BY <1>1, <1>2 DEF WorkOf
<1>4. WorkOf(d) \in [1..m -> [name : N, param : Param]]
  BY <1>1, <1>3 DEF WorkOf
<1>5. WorkOf(d) \in Seq([name : N, param : Param])
  <2>1. PICK S : S = [name : N, param : Param]
    OBVIOUS
  <2>2. WorkOf(d) \in [1..m -> S]
    BY <1>4, <2>1
  <2>3. Seq(S) = UNION {[1..n -> S] : n \in Nat}
    BY SeqDef
  <2>4. WorkOf(d) \in Seq(S)
    BY <2>2, <2>3, Zenon
  <2> QED
    BY <2>1, <2>4
<1>6. ToSet(WorkOf(d)) = {[name |-> d.name, param |-> p] : p \in ToSet(ParamsOf(d))}
  <2>1. ToSet(ParamsOf(d)) = {ParamsOf(d)[j] : j \in 1..m}
    BY <1>1 DEF ToSet
  <2>2. ToSet(WorkOf(d)) = {[name |-> d.name, param |-> ParamsOf(d)[j]] : j \in 1..m}
    BY <1>1 DEF WorkOf, ToSet
  <2> QED
    BY <2>1, <2>2, Zenon
<1>7. m = 0 => ToSet(WorkOf(d)) = {}
  BY <1>1 DEF WorkOf, ToSet
<1> QED
  BY <1>2, <1>5, <1>6, <1>7

\* collect goes through the parameters of the named vdurs, and comes to one as often
\* as the VDU of its vdur has it if no two of them have a name in common.
LEMMA WorkProperties ==
  ASSUME NEW D, NEW r \in Seq(D), NEW N, \A d \in D : IsNamed(d) => d.name \in N
  PROVE  /\ Work(r) \in Seq([name : N, param : Param])
         /\ \A w : w \in ToSet(Work(r)) <=>
              \E d \in ToSet(r) : \E p \in ToSet(ParamsOf(d)) :
                w = [name |-> d.name, param |-> p]
         /\ \A T : (/\ \A i \in DOMAIN r : Once(WorkOf(r[i]), T)
                   /\ \A i, j \in DOMAIN r :
                        IsNamed(r[i]) /\ r[i].name = r[j].name => i = j)
                     => Once(Work(r), T)
<1> DEFINE Items == [name : N, param : Param]
           each == [i \in DOMAIN r |-> WorkOf(r[i])]
<1>0. PICK m \in Nat : DOMAIN r = 1..m /\ \A i \in 1..m : r[i] \in D
  OBVIOUS
<1>1. ASSUME NEW i \in DOMAIN r
      PROVE  /\ each[i] = WorkOf(r[i]) /\ WorkOf(r[i]) \in Seq(Items)
             /\ ToSet(WorkOf(r[i])) =
                  {[name |-> r[i].name, param |-> p] : p \in ToSet(ParamsOf(r[i]))}
             /\ ToSet(WorkOf(r[i])) # {} => IsNamed(r[i])
  <2>1. IsNamed(r[i]) => r[i].name \in N
    BY <1>0
  <2> QED
    BY <2>1, WorkOfVdur
<1>2. DOMAIN each = DOMAIN r
  OBVIOUS
<1> HIDE DEF Items
<1>3. each \in Seq(Seq(Items))
  <2>1. each \in [1..m -> Seq(Items)]
    BY <1>0, <1>1
  <2> QED
    BY <2>1, SeqDef
<1>4. Work(r) = FlattenSeq(each)
  BY DEF Work, WorkOf
<1> HIDE DEF each
<1>5. /\ Work(r) \in Seq(Items)
      /\ ToSet(Work(r)) = UNION {ToSet(each[i]) : i \in DOMAIN r}
  <2>1. FlattenSeq(each) \in Seq(Items)
    BY <1>3, FlattenType
  <2>2. ToSet(FlattenSeq(each)) = UNION {ToSet(each[i]) : i \in DOMAIN each}
    BY <1>3, FlattenProperties
  <2> QED
    BY <1>2, <1>4, <2>1, <2>2
<1>6. ASSUME NEW w
      PROVE  w \in ToSet(Work(r)) <=>
               \E d \in ToSet(r) : \E p \in ToSet(ParamsOf(d)) :
                 w = [name |-> d.name, param |-> p]
  <2>1. w \in ToSet(Work(r)) <=>
          \E i \in DOMAIN r : \E p \in ToSet(ParamsOf(r[i])) :
            w = [name |-> r[i].name, param |-> p]
    <3>1. w \in ToSet(Work(r)) <=> \E i \in DOMAIN r : w \in ToSet(WorkOf(r[i]))
      BY <1>1, <1>5
    <3> QED
      BY <1>1, <3>1
  <2> QED
    BY <2>1 DEF ToSet
<1>7. ASSUME NEW T, \A i \in DOMAIN r : Once(WorkOf(r[i]), T),
             \A i, j \in DOMAIN r : IsNamed(r[i]) /\ r[i].name = r[j].name => i = j
      PROVE  Once(Work(r), T)
  <2>1. \A i \in DOMAIN r : Once(each[i], T)
    BY <1>1, <1>7
  <2>2. ASSUME NEW i \in DOMAIN r, NEW j \in DOMAIN r, i # j
        PROVE  ToSet(each[i]) \cap ToSet(each[j]) \cap T = {}
    <3>1. SUFFICES ASSUME NEW w \in ToSet(each[i]), w \in ToSet(each[j]) PROVE FALSE
      OBVIOUS
    <3>2. IsNamed(r[i]) /\ w.name = r[i].name /\ w.name = r[j].name
      BY <1>1, <3>1
    <3> QED
      BY <1>7, <2>2, <3>2
  <2>3. Once(FlattenSeq(each), T)
    BY <1>2, <1>3, <2>1, <2>2, FlattenProperties
  <2> QED
    BY <1>4, <2>3
<1> QED
  BY <1>5, <1>6, <1>7 DEF Items
=============================================================================

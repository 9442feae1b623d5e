--------------------------- MODULE SequenceLemmas ---------------------------
(***************************************************************************)
(* Induction over the natural numbers, and by it what the members of a     *)
(* selection are.                                                          *)
(***************************************************************************)
EXTENDS Selection, Integers, FiniteSetTheorems, TLAPS

\* What `Picked` says of place i, in terms of the function g.
Pick(g, s, T, i) ==
    IF i = 0 THEN <<>> ELSE IF s[i] \in T THEN Append(g[i-1], s[i]) ELSE g[i-1]

(* Induction over the natural numbers, for a set: if n were missing from T, then
   adding one, below n, would be an injection of a finite set into itself that
   misses 0.  The library states induction for a predicate only. *)
LEMMA SetInduction ==
    ASSUME NEW T, 0 \in T, \A n \in Nat : n \in T => n + 1 \in T
    PROVE  Nat \subseteq T
<1> SUFFICES ASSUME NEW n \in Nat, n \notin T PROVE FALSE
  OBVIOUS
<1> DEFINE U == {i \in 0..n : i \in T}
           f == [i \in U |-> i + 1]
<1>1. f \in [U -> U]
  <2>1. \A i \in U : i + 1 \in U
    OBVIOUS
  <2>2. QED
    BY <2>1
<1>2. IsInjective(f)
  BY DEF IsInjective
<1>3. f \in Injection(U, U)
  <2> HIDE DEF f, U
  <2>1. QED
  BY <1>1, <1>2 DEF Injection
<1>4. IsFiniteSet(U)
  <2>1. IsFiniteSet(0..n)
    BY FS_Interval
  <2>2. U \in SUBSET (0..n)
    OBVIOUS
  <2>3. QED
    BY <2>1, <2>2, FS_Subset
<1>5. f \in Surjection(U, U)
  <2> HIDE DEF f, U
  <2>1. QED
    BY <1>3, <1>4, FS_Injection
<1>6. \E a \in U : f[a] = 0
  <2>1. 0 \in U
    OBVIOUS
  <2> HIDE DEF f, U
  <2>2. QED
    BY <1>5, <2>1 DEF Surjection
<1>7. QED
  <2>1. \A a \in U : f[a] = a + 1 /\ a \in Nat
    OBVIOUS
  <2> HIDE DEF f, U
  <2>2. QED
    BY <1>6, <2>1

(* There is a function that picks as `Picked` does, up to every place. *)
LEMMA PicksExist ==
    ASSUME NEW S, NEW s \in Seq(S), NEW T
    PROVE  \A n \in Nat : n <= Len(s) =>
              \E g : g = [i \in 0..n |-> Pick(g, s, T, i)]
<1> DEFINE Good == {n \in Nat : n <= Len(s) =>
                       \E g : g = [i \in 0..n |-> Pick(g, s, T, i)]}
<1>1. 0 \in Good
  <2> DEFINE g == [i \in 0..0 |-> <<>>]
  <2>1. g = [i \in 0..0 |-> Pick(g, s, T, i)]
    BY DEF Pick
  <2>2. QED
    BY <2>1
<1>2. ASSUME NEW n \in Nat, n \in Good PROVE n + 1 \in Good
  <2> SUFFICES ASSUME n + 1 <= Len(s)
               PROVE  \E g : g = [i \in 0..(n+1) |-> Pick(g, s, T, i)]
    OBVIOUS
  <2>1. PICK h : h = [i \in 0..n |-> Pick(h, s, T, i)]
    BY <1>2
  <2> DEFINE g == [i \in 0..(n+1) |-> IF i = n + 1 THEN Pick(h, s, T, i) ELSE h[i]]
  <2>2. \A i \in 0..(n+1) : Pick(g, s, T, i) = Pick(h, s, T, i)
    <3>1. \A i \in 0..n : g[i] = h[i]
      OBVIOUS
    <3>2. QED
      BY <3>1 DEF Pick
  <2>3. \A i \in 0..n : h[i] = Pick(h, s, T, i)
    BY <2>1
  <2>4. \A i \in 0..(n+1) : g[i] = Pick(g, s, T, i)
    BY <2>2, <2>3
  <2>5. g = [i \in 0..(n+1) |-> Pick(g, s, T, i)]
    BY <2>4
  <2>6. QED
    BY <2>5
<1>3. QED
  <2> HIDE DEF Good
  <2>1. Nat \subseteq Good
    BY <1>1, <1>2, SetInduction
  <2>2. QED
    BY <2>1 DEF Good

(* `Picked` satisfies the recursion by which it is defined. *)
LEMMA PickedUnfolds ==
    ASSUME NEW S, NEW s \in Seq(S), NEW T
    PROVE  Picked(s, T) = [i \in 0..Len(s) |-> Pick(Picked(s, T), s, T, i)]
<1>1. \E g : g = [i \in 0..Len(s) |-> Pick(g, s, T, i)]
  BY PicksExist
<1>2. QED
  BY <1>1 DEF Picked, Pick

(* The same at one place. *)
LEMMA PickedStep ==
    ASSUME NEW S, NEW s \in Seq(S), NEW T, NEW i \in 0..Len(s)
    PROVE  Picked(s, T)[i] = IF i = 0 THEN <<>>
                             ELSE IF s[i] \in T THEN Append(Picked(s, T)[i-1], s[i])
                             ELSE Picked(s, T)[i-1]
<1>1. Picked(s, T)[i] = Pick(Picked(s, T), s, T, i)
  <2> DEFINE g == Picked(s, T)
  <2>1. g = [j \in 0..Len(s) |-> Pick(g, s, T, j)]
    BY PickedUnfolds
  <2> HIDE DEF g
  <2>2. g[i] = Pick(g, s, T, i)
    BY <2>1
  <2>3. QED
    BY <2>2 DEF g
<1>2. QED
  BY <1>1 DEF Pick

(* What is in a sequence once a member is appended. *)
LEMMA AppendRange ==
    ASSUME NEW S, NEW t \in Seq(S), NEW e \in S
    PROVE  Range(Append(t, e)) = Range(t) \union {e}
<1> DEFINE u == Append(t, e)
<1>1. /\ DOMAIN u = 1..(Len(t) + 1) /\ DOMAIN t = 1..Len(t) /\ Len(t) \in Nat
      /\ u[Len(t) + 1] = e /\ \A j \in 1..Len(t) : u[j] = t[j]
  OBVIOUS
<1> HIDE DEF u
<1>2. Range(u) \subseteq Range(t) \union {e}
  BY <1>1 DEF Range
<1>3. Range(t) \subseteq Range(u)
  <2>1. \A j \in DOMAIN t : j \in DOMAIN u /\ u[j] = t[j]
    BY <1>1
  <2>2. QED
    BY <2>1 DEF Range
<1>4. e \in Range(u)
  <2>1. Len(t) + 1 \in DOMAIN u
    BY <1>1
  <2>2. QED
    BY <1>1, <2>1 DEF Range
<1>5. QED
  BY <1>2, <1>3, <1>4 DEF u

\* What is picked up to place n, t, is a sequence, no longer than n, of the
\* members up to there that are in T.
PickedUpTo(t, S, s, T, n) ==
    /\ t \in Seq(S)
    /\ Len(t) <= n
    /\ Range(t) = {s[i] : i \in 1..n} \cap T

(* `Picked` is such a sequence at every place. *)
LEMMA PickedFacts ==
    ASSUME NEW S, NEW s \in Seq(S), NEW T
    PROVE  \A n \in 0..Len(s) : PickedUpTo(Picked(s, T)[n], S, s, T, n)
<1> DEFINE g == Picked(s, T)
           Good(n) == /\ g[n] \in Seq(S)
                      /\ Len(g[n]) <= n
                      /\ Range(g[n]) = {s[i] : i \in 1..n} \cap T
           All == {n \in Nat : n <= Len(s) => Good(n)}
<1>0. \A i \in 0..Len(s) : g[i] = IF i = 0 THEN <<>>
                             ELSE IF s[i] \in T THEN Append(g[i-1], s[i])
                             ELSE g[i-1]
  <2> HIDE DEF g
  <2> SUFFICES ASSUME NEW i \in 0..Len(s)
               PROVE  Picked(s, T)[i] = IF i = 0 THEN <<>>
                             ELSE IF s[i] \in T THEN Append(Picked(s, T)[i-1], s[i])
                             ELSE Picked(s, T)[i-1]
    BY DEF g
  <2>1. QED
    BY PickedStep
<1> HIDE DEF g
<1>1. Good(0)
  <2>1. g[0] = <<>>
    BY <1>0
  <2>2. Range(<<>>) = {}
    BY DEF Range
  <2>3. QED
    BY <2>1, <2>2
<1>2. ASSUME NEW n \in Nat, n + 1 <= Len(s), Good(n) PROVE Good(n+1)
  <2>1. /\ s[n+1] \in S /\ n + 1 \in 0..Len(s) /\ n + 1 # 0 /\ (n + 1) - 1 = n
        /\ {s[i] : i \in 1..(n+1)} = {s[i] : i \in 1..n} \union {s[n+1]}
    BY <1>2
  <2>2. CASE s[n+1] \in T
    <3>1. g[n+1] = Append(g[n], s[n+1])
      BY <1>0, <2>1, <2>2
    <3>2. /\ g[n+1] \in Seq(S) /\ Len(g[n+1]) <= n + 1
      BY <1>2, <2>1, <3>1
    <3>3. Range(g[n+1]) = Range(g[n]) \union {s[n+1]}
      BY <1>2, <2>1, <3>1, AppendRange
    <3>4. QED
      BY <1>2, <2>1, <2>2, <3>2, <3>3
  <2>3. CASE s[n+1] \notin T
    <3>1. g[n+1] = g[n]
      BY <1>0, <2>1, <2>3
    <3>2. Len(g[n]) \in Nat /\ Len(g[n]) <= n + 1
      BY <1>2
    <3>3. QED
      BY <1>2, <2>1, <2>3, <3>1, <3>2
  <2>4. QED
    BY <2>2, <2>3
<1> HIDE DEF Good
<1>3. Nat \subseteq All
  <2>1. 0 \in All
    BY <1>1
  <2>2. \A n \in Nat : n \in All => n + 1 \in All
    BY <1>2
  <2> HIDE DEF All
  <2>3. QED
    BY <2>1, <2>2, SetInduction
<1>4. \A n \in 0..Len(s) : Good(n)
  BY <1>3
<1>5. QED
  BY <1>4 DEF g, Good, PickedUpTo

(* A selection has the members of the sequence that are in the set, and is
   no longer than the sequence. *)
LEMMA SelectedFacts ==
    ASSUME NEW S, NEW s \in Seq(S), NEW T
    PROVE  /\ Selected(s, T) \in Seq(S)
           /\ Len(Selected(s, T)) <= Len(s)
           /\ Range(Selected(s, T)) = Range(s) \cap T
<1>1. Len(s) \in 0..Len(s) /\ DOMAIN s = 1..Len(s)
  OBVIOUS
<1>2. /\ Selected(s, T) \in Seq(S)
      /\ Len(Selected(s, T)) <= Len(s)
      /\ Range(Selected(s, T)) = {s[i] : i \in 1..Len(s)} \cap T
  <2>1. PickedUpTo(Picked(s, T)[Len(s)], S, s, T, Len(s))
    BY <1>1, PickedFacts
  <2>2. QED
    BY <2>1 DEF PickedUpTo, Selected
<1>3. QED
  BY <1>1, <1>2 DEF Range

(* When all members from a place on are in the set, and none before it, the
   selection is the rest of the sequence. *)
LEMMA SelectedTail ==
    ASSUME NEW S, NEW s \in Seq(S), NEW T, NEW m \in 1..(Len(s) + 1),
           \A i \in 1..Len(s) : s[i] \in T <=> m <= i
    PROVE  Selected(s, T) = SubSeq(s, m, Len(s))
<1> DEFINE g == Picked(s, T)
           All == {n \in Nat : n <= Len(s) => g[n] = SubSeq(s, m, n)}
<1>0. \A i \in 0..Len(s) : g[i] = IF i = 0 THEN <<>>
                             ELSE IF s[i] \in T THEN Append(g[i-1], s[i])
                             ELSE g[i-1]
  <2> HIDE DEF g
  <2> SUFFICES ASSUME NEW i \in 0..Len(s)
               PROVE  Picked(s, T)[i] = IF i = 0 THEN <<>>
                             ELSE IF s[i] \in T THEN Append(Picked(s, T)[i-1], s[i])
                             ELSE Picked(s, T)[i-1]
    BY DEF g
  <2>1. QED
    BY PickedStep
<1> HIDE DEF g
<1>1. 0 \in All
  <2>1. g[0] = <<>>
    BY <1>0
  <2>2. SubSeq(s, m, 0) = <<>>
    OBVIOUS
  <2>3. QED
    BY <2>1, <2>2
<1>2. ASSUME NEW n \in Nat, n \in All PROVE n + 1 \in All
  <2> SUFFICES ASSUME n + 1 <= Len(s) PROVE g[n+1] = SubSeq(s, m, n+1)
    OBVIOUS
  <2>1. g[n] = SubSeq(s, m, n)
    BY <1>2
  <2>2. n + 1 \in 0..Len(s) /\ n + 1 # 0 /\ (n + 1) - 1 = n /\ n + 1 \in 1..Len(s)
    OBVIOUS
  <2>4. CASE m <= n + 1
    <3>1. g[n+1] = Append(g[n], s[n+1])
      BY <1>0, <2>2, <2>4
    <3>2. QED
      BY <2>1, <2>4, <3>1
  <2>5. CASE ~(m <= n + 1)
    <3>1. g[n+1] = g[n]
      BY <1>0, <2>2, <2>5
    <3>2. QED
      BY <2>1, <2>5, <3>1
  <2>6. QED
    BY <2>4, <2>5
<1>3. Nat \subseteq All
  <2> HIDE DEF All
  <2>1. QED
    BY <1>1, <1>2, SetInduction
<1>4. g[Len(s)] = SubSeq(s, m, Len(s))
  BY <1>3
<1>5. QED
  BY <1>4 DEF g, Selected

(* A set of natural numbers that is not empty has a least member. *)
LEMMA LeastNumber ==
    ASSUME NEW T \in SUBSET Nat, T # {}
    PROVE  \E x \in T : \A y \in T : x <= y
<1> SUFFICES ASSUME \A x \in T : \E y \in T : y < x PROVE FALSE
  OBVIOUS
<1> DEFINE Below == {n \in Nat : \A y \in T : n < y}
<1>1. 0 \in Below
  OBVIOUS
<1>2. \A n \in Nat : n \in Below => n + 1 \in Below
  OBVIOUS
<1>3. Nat \subseteq Below
  <2> HIDE DEF Below
  <2>1. QED
    BY <1>1, <1>2, SetInduction
<1>4. PICK x \in T : TRUE
  OBVIOUS
<1>5. x \in Below
  BY <1>3
<1>6. QED
  BY <1>4, <1>5

(* When with a member all later ones are in the set, there is such a place. *)
LEMMA TailExists ==
    ASSUME NEW S, NEW s \in Seq(S), NEW T,
           \A i, j \in 1..Len(s) : i <= j /\ s[i] \in T => s[j] \in T
    PROVE  \E m \in 1..(Len(s) + 1) :
              \A i \in 1..Len(s) : s[i] \in T <=> m <= i
<1> DEFINE Places == {i \in 1..Len(s) : s[i] \in T}
<1>1. CASE Places = {}
  <2>1. Len(s) + 1 \in 1..(Len(s) + 1)
    OBVIOUS
  <2>2. \A i \in 1..Len(s) : s[i] \in T <=> Len(s) + 1 <= i
    BY <1>1
  <2>3. QED
    BY <2>1, <2>2
<1>2. CASE Places # {}
  <2>1. Places \in SUBSET Nat
    OBVIOUS
  <2>2. PICK m \in Places : \A y \in Places : m <= y
    <3> HIDE DEF Places
    <3>1. QED
      BY <1>2, <2>1, LeastNumber
  <2>3. m \in 1..(Len(s) + 1) /\ m \in 1..Len(s) /\ s[m] \in T
    OBVIOUS
  <2>4. \A i \in 1..Len(s) : s[i] \in T <=> m <= i
    BY <2>2, <2>3
  <2>5. QED
    BY <2>3, <2>4
<1>3. QED
  BY <1>1, <1>2

(* A tail of a sequence, by its places. *)
LEMMA TailByPlaces ==
    ASSUME NEW S, NEW s \in Seq(S), NEW m \in 1..(Len(s) + 1)
    PROVE  /\ SubSeq(s, m, Len(s)) \in Seq(S)
           /\ Len(SubSeq(s, m, Len(s))) = Len(s) + 1 - m
           /\ \A i \in 1..(Len(s) + 1 - m) :
                 m - 1 + i \in 1..Len(s) /\ SubSeq(s, m, Len(s))[i] = s[m - 1 + i]
  OBVIOUS

(* When all members up to a place are in the set, and none after it, the
   selection is the beginning of the sequence. *)
LEMMA SelectedHead ==
    ASSUME NEW S, NEW s \in Seq(S), NEW T, NEW m \in 0..Len(s),
           \A i \in 1..Len(s) : s[i] \in T <=> i <= m
    PROVE  Selected(s, T) = SubSeq(s, 1, m)
<1> DEFINE g == Picked(s, T)
           Upto(n) == IF n <= m THEN n ELSE m
           All == {n \in Nat : n <= Len(s) => g[n] = SubSeq(s, 1, Upto(n))}
<1>0. \A i \in 0..Len(s) : g[i] = IF i = 0 THEN <<>>
                             ELSE IF s[i] \in T THEN Append(g[i-1], s[i])
                             ELSE g[i-1]
  <2> HIDE DEF g
  <2> SUFFICES ASSUME NEW i \in 0..Len(s)
               PROVE  Picked(s, T)[i] = IF i = 0 THEN <<>>
                             ELSE IF s[i] \in T THEN Append(Picked(s, T)[i-1], s[i])
                             ELSE Picked(s, T)[i-1]
    BY DEF g
  <2>1. QED
    BY PickedStep
<1> HIDE DEF g
<1>1. 0 \in All
  <2>1. g[0] = <<>>
    BY <1>0
  <2>2. Upto(0) = 0
    OBVIOUS
  <2> HIDE DEF Upto
  <2>3. SubSeq(s, 1, 0) = <<>>
    OBVIOUS
  <2>4. QED
    BY <2>1, <2>2, <2>3
<1>2. ASSUME NEW n \in Nat, n \in All PROVE n + 1 \in All
  <2> SUFFICES ASSUME n + 1 <= Len(s) PROVE g[n+1] = SubSeq(s, 1, Upto(n+1))
    OBVIOUS
  <2>1. g[n] = SubSeq(s, 1, Upto(n))
    BY <1>2
  <2>2. n + 1 \in 0..Len(s) /\ n + 1 # 0 /\ (n + 1) - 1 = n /\ n + 1 \in 1..Len(s)
    OBVIOUS
  <2>3. CASE n + 1 <= m
    <3>1. g[n+1] = Append(g[n], s[n+1])
      BY <1>0, <2>2, <2>3
    <3>2. QED
      BY <2>1, <2>3, <3>1
  <2>4. CASE ~(n + 1 <= m)
    <3>1. g[n+1] = g[n]
      BY <1>0, <2>2, <2>4
    <3>2. Upto(n) = m /\ Upto(n+1) = m
      BY <2>4
    <3>3. QED
      BY <2>1, <3>1, <3>2
  <2>5. QED
    BY <2>3, <2>4
<1>3. Nat \subseteq All
  <2> HIDE DEF All
  <2>1. QED
    BY <1>1, <1>2, SetInduction
<1>4. g[Len(s)] = SubSeq(s, 1, m)
  <2>1. Len(s) \in Nat /\ Upto(Len(s)) = m
    OBVIOUS
  <2>2. QED
    BY <1>3, <2>1
<1>5. QED
  BY <1>4 DEF g, Selected

(* When with a member all earlier ones are in the set, the selection from the
   numbers up to n is the numbers up to some m. *)
LEMMA SelectedNumbers ==
    ASSUME NEW n \in Nat, NEW T,
           \A i, j \in 1..n : i <= j /\ j \in T => i \in T
    PROVE  \E m \in 0..n : /\ \A i \in 1..n : i \in T <=> i <= m
                           /\ Selected([i \in 1..n |-> i], T) = [i \in 1..m |-> i]
<1> DEFINE s == [i \in 1..n |-> i]
           U == (1..n) \ T
<1>1. s \in Seq(1..n) /\ Len(s) = n /\ \A i \in 1..n : s[i] = i
  OBVIOUS
<1> HIDE DEF s
<1>2. \A i, j \in 1..Len(s) : i <= j /\ s[i] \in U => s[j] \in U
  BY <1>1
<1>3. PICK k \in 1..(Len(s) + 1) : \A i \in 1..Len(s) : s[i] \in U <=> k <= i
  <2> HIDE DEF U
  <2>1. QED
    BY <1>1, <1>2, TailExists
<1> DEFINE m == k - 1
<1>4. m \in 0..n /\ m \in 0..Len(s) /\ \A i \in 1..n : i \in T <=> i <= m
  BY <1>1, <1>3
<1>5. \A i \in 1..Len(s) : s[i] \in T <=> i <= m
  BY <1>1, <1>4
<1> HIDE DEF m, U
<1>6. Selected(s, T) = SubSeq(s, 1, m)
  BY <1>1, <1>4, <1>5, SelectedHead
<1>7. SubSeq(s, 1, m) = [i \in 1..m |-> i]
  BY <1>1, <1>4
<1>8. QED
  BY <1>4, <1>6, <1>7 DEF s
=============================================================================

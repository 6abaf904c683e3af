--------------------------- MODULE SequenceProofs ---------------------------
(***************************************************************************)
(* Induction over the natural numbers for sets, the functions it defines   *)
(* by recursion, and what Keep returns for every sequence.  The theorems   *)
(* of the library take predicates; here the predicate is a set, so that    *)
(* first-order provers can instantiate it.                                 *)
(***************************************************************************)
EXTENDS SequenceFilter, SequenceTheorems, FiniteSetTheorems, WellFoundedInduction, TLAPS

(* A set of numbers that is not empty has a least element.                 *)
LEMMA LeastNumber ==
  ASSUME NEW T \in SUBSET Nat, T # {}
  PROVE  \E m \in T : \A n \in T : m <= n
  <1>1. PICK x \in T : \A y \in T : <<y, x>> \notin OpToRel(<, Nat)
    BY WFMin, NatLessThanWellFounded
  <1>2. \A y \in T : ~ (y < x)
    BY <1>1 DEF OpToRel
  <1> QED  BY <1>2

(* Induction, with the set of the numbers that have the property.          *)
LEMMA SetInduction ==
  ASSUME NEW T \in SUBSET Nat, 0 \in T, \A n \in T : n + 1 \in T
  PROVE  \A n \in Nat : n \in T
  <1> SUFFICES ASSUME Nat \ T # {}  PROVE FALSE
    OBVIOUS
  <1>1. PICK m \in Nat \ T : \A n \in Nat \ T : m <= n
    BY LeastNumber
  <1>2. m - 1 \in Nat /\ m - 1 < m
    BY <1>1
  <1>3. m - 1 \in T
    BY <1>1, <1>2
  <1> QED  BY <1>1, <1>2, <1>3

(* A step function and a first value determine a sequence of values.       *)
IsRun(f, n, V, v, step) ==
  /\ f \in [0..n -> V]
  /\ f[0] = v
  /\ \A i \in 1..n : f[i] = step[<<i, f[i - 1]>>]

(* There is such a sequence of every length.                               *)
LEMMA RunsExist ==
  ASSUME NEW V, NEW v \in V, NEW step \in [Nat \X V -> V], NEW n \in Nat
  PROVE  \E f : IsRun(f, n, V, v, step)
  <1> DEFINE T == {m \in Nat : \E f : IsRun(f, m, V, v, step)}
  <1>1. 0 \in T
    <2>1. IsRun([i \in 0..0 |-> v], 0, V, v, step)
      BY DEF IsRun
    <2> QED  BY <2>1
  <1>2. ASSUME NEW m \in T  PROVE m + 1 \in T
    <2>1. PICK f : IsRun(f, m, V, v, step)
      BY <1>2
    <2> DEFINE g == [i \in 0..(m + 1) |-> IF i = m + 1 THEN step[<<m + 1, f[m]>>] ELSE f[i]]
    <2>2. f[m] \in V /\ <<m + 1, f[m]>> \in Nat \X V
      BY <2>1 DEF IsRun
    <2>3. g \in [0..(m + 1) -> V]
      BY <2>1, <2>2 DEF IsRun
    <2>4. g[0] = v
      BY <2>1 DEF IsRun
    <2>5. ASSUME NEW i \in 1..(m + 1)  PROVE g[i] = step[<<i, g[i - 1]>>]
      <3>1. i - 1 \in 0..m /\ g[i - 1] = f[i - 1]
        OBVIOUS
      <3>2. CASE i = m + 1
        <4>1. g[m + 1] = step[<<m + 1, f[m]>>]
          OBVIOUS
        <4>2. i - 1 = m
          BY <3>2
        <4>3. step[<<i, g[i - 1]>>] = step[<<m + 1, f[m]>>]
          BY <3>1, <3>2, <4>2
        <4> QED  BY <3>2, <4>1, <4>3
      <3>3. CASE i # m + 1
        <4>1. i \in 1..m /\ g[i] = f[i]
          BY <3>3
        <4> QED  BY <2>1, <3>1, <4>1 DEF IsRun
      <3> QED  BY <3>2, <3>3
    <2>6. IsRun(g, m + 1, V, v, step)
      BY <2>3, <2>4, <2>5 DEF IsRun
    <2> QED  BY <2>6
  <1> HIDE DEF T
  <1>3. \A m \in Nat : m \in T
    <2>1. T \in SUBSET Nat  BY DEF T
    <2> QED  BY <1>1, <1>2, <2>1, SetInduction
  <1> QED  BY <1>3 DEF T

-----------------------------------------------------------------------------
(* Keep.                                                                   *)

(* The function that Keep is defined by.                                   *)
IsKept(k, n, s, S) ==
  k = [i \in 0..n |->
         IF i = 0 THEN <<>>
         ELSE IF s[i] \in S THEN Append(k[i - 1], s[i]) ELSE k[i - 1]]

(* No two functions satisfy the recursion of Keep.                         *)
LEMMA KeptIsUnique ==
  ASSUME NEW n \in Nat, NEW s, NEW S,
         NEW k, IsKept(k, n, s, S), NEW h, IsKept(h, n, s, S)
  PROVE  k = h
  <1> DEFINE T == {i \in Nat : i <= n => k[i] = h[i]}
  <1>1. 0 \in T
    BY DEF IsKept
  <1>2. ASSUME NEW i \in T  PROVE i + 1 \in T
    <2> SUFFICES ASSUME i + 1 <= n  PROVE k[i + 1] = h[i + 1]
      OBVIOUS
    <2>1. i + 1 \in 0..n /\ i + 1 # 0 /\ (i + 1) - 1 = i /\ i <= n
      OBVIOUS
    <2>2. k[i] = h[i]
      BY <2>1
    <2>3. k[i + 1] = IF s[i + 1] \in S THEN Append(k[i], s[i + 1]) ELSE k[i]
      BY <2>1 DEF IsKept
    <2>4. h[i + 1] = IF s[i + 1] \in S THEN Append(h[i], s[i + 1]) ELSE h[i]
      BY <2>1 DEF IsKept
    <2> QED  BY <2>2, <2>3, <2>4
  <1> HIDE DEF T
  <1>3. \A i \in Nat : i \in T
    <2>1. T \in SUBSET Nat  BY DEF T
    <2> QED  BY <1>1, <1>2, <2>1, SetInduction
  <1>4. \A i \in 0..n : k[i] = h[i]
    BY <1>3 DEF T
  <1>5. k = [i \in 0..n |-> k[i]] /\ h = [i \in 0..n |-> h[i]]
    BY DEF IsKept
  <1> QED  BY <1>4, <1>5

(* One element after the other is looked at.                               *)
KeepsUpTo(k, n, s, S) ==
  /\ k[0] = <<>>
  /\ \A i \in 1..n : k[i] = IF s[i] \in S THEN Append(k[i - 1], s[i]) ELSE k[i - 1]

(* Some function satisfies it.                                             *)
LEMMA KeptExists ==
  ASSUME NEW V, <<>> \in V, NEW n \in Nat, NEW s, NEW S,
         \A v \in V, i \in 1..n : Append(v, s[i]) \in V
  PROVE  \E k : k \in [0..n -> V] /\ IsKept(k, n, s, S) /\ KeepsUpTo(k, n, s, S)
  <1> DEFINE at(i) == i \in 1..n /\ s[i] \in S
             step == [p \in Nat \X V |->
                        IF at(p[1]) THEN Append(p[2], s[p[1]]) ELSE p[2]]
  <1>1. step \in [Nat \X V -> V]
    OBVIOUS
  <1> HIDE DEF step
  <1>2. PICK k : IsRun(k, n, V, <<>>, step)
    BY <1>1, RunsExist
  <1>3. ASSUME NEW i \in 1..n
        PROVE  k[i] = IF s[i] \in S THEN Append(k[i - 1], s[i]) ELSE k[i - 1]
    <2>1. k[i - 1] \in V /\ <<i, k[i - 1]>> \in Nat \X V
      BY <1>2 DEF IsRun
    <2>2. k[i] = step[<<i, k[i - 1]>>]
      BY <1>2 DEF IsRun
    <2> QED  BY <2>1, <2>2 DEF step
  <1>4. IsKept(k, n, s, S)
    <2>1. k = [i \in 0..n |-> k[i]] /\ k[0] = <<>>
      BY <1>2 DEF IsRun
    <2>2. \A i \in 0..n :
            k[i] = IF i = 0 THEN <<>>
                   ELSE IF s[i] \in S THEN Append(k[i - 1], s[i]) ELSE k[i - 1]
      <3>1. \A i \in 0..n : i = 0 \/ i \in 1..n
        OBVIOUS
      <3>2. \A i \in 1..n : i # 0
        OBVIOUS
      <3> QED  BY <1>3, <2>1, <3>1, <3>2, Zenon
    <2> QED  BY <2>1, <2>2, Zenon DEF IsKept
  <1>5. KeepsUpTo(k, n, s, S)
    BY <1>2, <1>3, Zenon DEF IsRun, KeepsUpTo
  <1> QED  BY <1>2, <1>4, <1>5 DEF IsRun

(* Keep is what the recursion leaves after the last element.               *)
LEMMA KeepUnfolds ==
  ASSUME NEW A, NEW s \in Seq(A), NEW S
  PROVE  \E k \in [0..Len(s) -> Seq(A)] :
           KeepsUpTo(k, Len(s), s, S) /\ Keep(s, S) = k[Len(s)]
  <1> DEFINE V == Seq(A)
             n == Len(s)
             kept == CHOOSE k : IsKept(k, n, s, S)
  <1>1. n \in Nat /\ <<>> \in V
    OBVIOUS
  <1>2. \A v \in V, i \in 1..n : Append(v, s[i]) \in V
    BY ElementOfSeq, AppendProperties
  <1>3. Keep(s, S) = kept[n]
    BY DEF Keep, IsKept
  <1> HIDE DEF V, n
  <1>4. PICK k \in [0..n -> V] : IsKept(k, n, s, S) /\ KeepsUpTo(k, n, s, S)
    BY <1>1, <1>2, KeptExists
  <1>5. IsKept(kept, n, s, S)
    BY <1>4
  <1> HIDE DEF kept
  <1>6. k = kept
    BY <1>1, <1>4, <1>5, KeptIsUnique
  <1>7. k \in [0..n -> V] /\ KeepsUpTo(k, n, s, S) /\ Keep(s, S) = k[n]
    BY <1>3, <1>4, <1>6
  <1> QED  BY <1>7, Zenon DEF V, n

(* t is what S leaves of the first n elements of s: g says where each of   *)
(* its elements stood.                                                     *)
Places(g, t, s, n, S) ==
  /\ g \in [1..Len(t) -> 1..n]
  /\ \A i \in 1..Len(t) : s[g[i]] \in S /\ t[i] = s[g[i]]
  /\ \A i, j \in 1..Len(t) : i < j => g[i] < g[j]
  /\ \A x \in 1..n : s[x] \in S => \E i \in 1..Len(t) : g[i] = x

Sifted(t, s, n, S) == \E g : Places(g, t, s, n, S)

(* Of no elements nothing is left.                                         *)
LEMMA SiftedStart ==
  ASSUME NEW s, NEW S
  PROVE  Sifted(<<>>, s, 0, S)
  <1>1. Places(<<>>, <<>>, s, 0, S)
    BY DEF Places
  <1> QED  BY <1>1 DEF Sifted

(* An element of S joins what is left.                                     *)
LEMMA SiftedAppend ==
  ASSUME NEW A, NEW s \in Seq(A), NEW t \in Seq(A), NEW S,
         NEW n \in Nat, n + 1 <= Len(s), s[n + 1] \in S, Sifted(t, s, n, S)
  PROVE  Sifted(Append(t, s[n + 1]), s, n + 1, S)
  <1>1. PICK g : Places(g, t, s, n, S)
    BY DEF Sifted
  <1> DEFINE u == Append(t, s[n + 1])
             h == [i \in 1..(Len(t) + 1) |-> IF i = Len(t) + 1 THEN n + 1 ELSE g[i]]
  <1>2. s[n + 1] \in A /\ Len(t) \in Nat
    BY ElementOfSeq
  <1>3. /\ Len(u) = Len(t) + 1
        /\ u[Len(t) + 1] = s[n + 1]
        /\ \A i \in 1..Len(t) : u[i] = t[i]
    BY <1>2, AppendProperties
  <1>4. h \in [1..Len(u) -> 1..(n + 1)]
    BY <1>1, <1>2, <1>3 DEF Places
  <1>5. /\ h[Len(t) + 1] = n + 1
        /\ \A i \in 1..Len(t) : h[i] = g[i] /\ g[i] \in 1..n
    BY <1>1, <1>2 DEF Places
  <1>6. \A i \in 1..Len(u) : i = Len(t) + 1 \/ i \in 1..Len(t)
    BY <1>2, <1>3
  <1> HIDE DEF u, h
  <1>7. \A i \in 1..Len(u) : s[h[i]] \in S /\ u[i] = s[h[i]]
    BY <1>1, <1>3, <1>5, <1>6 DEF Places
  <1>8. ASSUME NEW i \in 1..Len(u), NEW j \in 1..Len(u), i < j  PROVE h[i] < h[j]
    <2>1. i \in 1..Len(t)
      BY <1>2, <1>3, <1>8
    <2>2. CASE j = Len(t) + 1
      BY <1>5, <2>1, <2>2
    <2>3. CASE j \in 1..Len(t)
      BY <1>1, <1>5, <1>8, <2>1, <2>3 DEF Places
    <2> QED  BY <1>6, <2>2, <2>3
  <1>9. ASSUME NEW x \in 1..(n + 1), s[x] \in S
        PROVE  \E i \in 1..Len(u) : h[i] = x
    <2>1. CASE x = n + 1
      <3>1. Len(t) + 1 \in 1..Len(u)
        BY <1>2, <1>3
      <3> QED  BY <1>5, <2>1, <3>1
    <2>2. CASE x \in 1..n
      <3>1. PICK i \in 1..Len(t) : g[i] = x
        BY <1>1, <1>9, <2>2 DEF Places
      <3>2. i \in 1..Len(u)
        BY <1>2, <1>3
      <3> QED  BY <1>5, <3>1, <3>2
    <2> QED  BY <2>1, <2>2
  <1>10. Places(h, u, s, n + 1, S)
    BY <1>4, <1>7, <1>8, <1>9 DEF Places
  <1> QED  BY <1>10 DEF Sifted, u

(* Another one does not.                                                   *)
LEMMA SiftedSkip ==
  ASSUME NEW A, NEW s \in Seq(A), NEW t \in Seq(A), NEW S,
         NEW n \in Nat, s[n + 1] \notin S, Sifted(t, s, n, S)
  PROVE  Sifted(t, s, n + 1, S)
  <1>1. PICK g : Places(g, t, s, n, S)
    BY DEF Sifted
  <1>2. g \in [1..Len(t) -> 1..(n + 1)]
    BY <1>1 DEF Places
  <1>3. \A x \in 1..(n + 1) : s[x] \in S => x \in 1..n
    OBVIOUS
  <1>4. \A x \in 1..(n + 1) : s[x] \in S => \E i \in 1..Len(t) : g[i] = x
    BY <1>1, <1>3, Zenon DEF Places
  <1>5. Places(g, t, s, n + 1, S)
    BY <1>1, <1>2, <1>4, Zenon DEF Places
  <1> QED  BY <1>5 DEF Sifted

(* Keep returns the elements of s that are in S, each where it stood.      *)
LEMMA KeepSifts ==
  ASSUME NEW A, NEW s \in Seq(A), NEW S
  PROVE  Keep(s, S) \in Seq(A) /\ Sifted(Keep(s, S), s, Len(s), S)
  <1> DEFINE V == Seq(A)
             n == Len(s)
  <1>1. n \in Nat /\ s \in V
    OBVIOUS
  <1>2. PICK k \in [0..n -> V] : KeepsUpTo(k, n, s, S) /\ Keep(s, S) = k[n]
    BY KeepUnfolds
  <1>3. ASSUME NEW i \in Nat, i + 1 <= n, NEW t \in V, Sifted(t, s, i, S)
        PROVE  Sifted(IF s[i + 1] \in S THEN Append(t, s[i + 1]) ELSE t, s, i + 1, S)
    <2>1. CASE s[i + 1] \in S
      BY <1>3, <2>1, SiftedAppend
    <2>2. CASE s[i + 1] \notin S
      BY <1>3, <2>2, SiftedSkip
    <2> QED  BY <2>1, <2>2
  <1> HIDE DEF V, n
  <1> DEFINE T == {i \in Nat : i <= n => Sifted(k[i], s, i, S)}
  <1>4. 0 \in T
    BY <1>2, SiftedStart DEF KeepsUpTo
  <1>5. ASSUME NEW i \in T  PROVE i + 1 \in T
    <2> SUFFICES ASSUME i + 1 <= n  PROVE Sifted(k[i + 1], s, i + 1, S)
      OBVIOUS
    <2>1. i \in Nat /\ i \in 0..n /\ i + 1 \in 1..n /\ (i + 1) - 1 = i
      BY <1>1
    <2>2. k[i] \in V /\ Sifted(k[i], s, i, S)
      BY <2>1
    <2>3. k[i + 1] = IF s[i + 1] \in S THEN Append(k[i], s[i + 1]) ELSE k[i]
      BY <1>2, <2>1, Zenon DEF KeepsUpTo
    <2> QED  BY <1>3, <2>1, <2>2, <2>3
  <1> HIDE DEF T
  <1>6. \A i \in Nat : i \in T
    <2>1. T \in SUBSET Nat  BY DEF T
    <2> QED  BY <1>4, <1>5, <2>1, SetInduction
  <1>7. Keep(s, S) \in V /\ Sifted(Keep(s, S), s, n, S)
    BY <1>1, <1>2, <1>6 DEF T
  <1> QED  BY <1>7, Zenon DEF V, n

(* The elements of a filtered sequence.                                    *)
LEMMA KeepElements ==
  ASSUME NEW A, NEW s \in Seq(A), NEW S
  PROVE  Elements(Keep(s, S)) = Elements(s) \cap S
  <1>1. PICK g : Places(g, Keep(s, S), s, Len(s), S)
    BY KeepSifts DEF Sifted
  <1> DEFINE t == Keep(s, S)
  <1>2. t \in Seq(A)
    BY KeepSifts
  <1> HIDE DEF t
  <1>3. Elements(t) \subseteq Elements(s) \cap S
    BY <1>1 DEF Elements, Places, t
  <1>4. ASSUME NEW x \in 1..Len(s), s[x] \in S
        PROVE  s[x] \in Elements(t)
    BY <1>1, <1>4 DEF Elements, Places, t
  <1>5. Elements(s) \cap S \subseteq Elements(t)
    BY <1>4 DEF Elements
  <1> QED  BY <1>3, <1>5 DEF t

-----------------------------------------------------------------------------
(* Queues that hold nothing twice.                                         *)

Distinct(s) == \A i, j \in 1..Len(s) : i # j => s[i] # s[j]

(* An empty queue.                                                         *)
LEMMA EmptyQueue == Elements(<<>>) = {} /\ Distinct(<<>>)
  <1>1. Len(<<>>) = 0 /\ 1..0 = {}
    OBVIOUS
  <1> QED  BY <1>1 DEF Elements, Distinct

(* A value that is queued behind the others.                               *)
LEMMA AppendedQueue ==
  ASSUME NEW A, NEW s \in Seq(A), NEW e \in A
  PROVE  /\ Append(s, e) \in Seq(A)
         /\ Elements(Append(s, e)) = Elements(s) \cup {e}
         /\ Distinct(s) /\ e \notin Elements(s) => Distinct(Append(s, e))
  <1> DEFINE u == Append(s, e)
             n == Len(s)
  <1>1. /\ u \in Seq(A)
        /\ n \in Nat
        /\ Len(u) = n + 1
        /\ u[n + 1] = e
        /\ \A i \in 1..n : u[i] = s[i]
    BY AppendProperties
  <1> HIDE DEF u
  <1>2. \A i \in 1..Len(u) : i = n + 1 \/ i \in 1..n
    BY <1>1
  <1>3. 1..n \subseteq 1..Len(u) /\ n + 1 \in 1..Len(u)
    BY <1>1
  <1>4. \A x \in Elements(u) : x \in Elements(s) \cup {e}
    <2> SUFFICES ASSUME NEW i \in 1..Len(u)  PROVE u[i] \in Elements(s) \cup {e}
      BY DEF Elements
    <2>1. CASE i = n + 1
      BY <1>1, <2>1
    <2>2. CASE i \in 1..n
      BY <1>1, <2>2 DEF Elements
    <2> QED  BY <1>2, <2>1, <2>2
  <1>5. Elements(s) \cup {e} \subseteq Elements(u)
    <2>1. \A i \in 1..n : s[i] \in Elements(u)
      BY <1>1, <1>3 DEF Elements
    <2>2. e \in Elements(u)
      BY <1>1, <1>3 DEF Elements
    <2> QED  BY <2>1, <2>2 DEF Elements
  <1>6. ASSUME Distinct(s), e \notin Elements(s), NEW i \in 1..Len(u), NEW j \in 1..Len(u), i # j
        PROVE  u[i] # u[j]
    <2>1. \A k \in 1..n : s[k] # e
      BY <1>6 DEF Elements
    <2> QED  BY <1>1, <1>2, <1>6, <2>1 DEF Distinct
  <1>7. Distinct(s) /\ e \notin Elements(s) => Distinct(u)
    BY <1>6 DEF Distinct
  <1>8. Elements(u) = Elements(s) \cup {e}
    BY <1>4, <1>5
  <1> QED  BY <1>1, <1>7, <1>8 DEF u

(* The value that is taken from the front of a queue, and the others.      *)
LEMMA TakenQueue ==
  ASSUME NEW A, NEW s \in Seq(A), s # <<>>
  PROVE  /\ Head(s) \in A /\ Tail(s) \in Seq(A)
         /\ Elements(s) = {Head(s)} \cup Elements(Tail(s))
         /\ Distinct(s) => Distinct(Tail(s)) /\ Head(s) \notin Elements(Tail(s))
  <1> DEFINE u == Tail(s)
             n == Len(s)
  <1>1. /\ u \in Seq(A) /\ Head(s) = s[1] /\ Head(s) \in A
        /\ n \in Nat /\ n > 0
        /\ Len(u) = n - 1
        /\ \A i \in 1..(n - 1) : u[i] = s[i + 1]
    BY EmptySeq, HeadTailProperties
  <1> HIDE DEF u
  <1>2. 1..Len(u) = 1..(n - 1)
    BY <1>1
  <1>3. 1 \in 1..n /\ \A i \in 1..(n - 1) : i + 1 \in 1..n /\ i + 1 # 1
    BY <1>1
  <1>4. \A i \in 1..n : i = 1 \/ (i - 1 \in 1..(n - 1) /\ (i - 1) + 1 = i)
    BY <1>1
  <1>5. \A i, j \in 1..(n - 1) : i # j => i + 1 # j + 1
    BY <1>1
  <1>6. \A x : x \in Elements(u) <=> \E i \in 1..(n - 1) : x = s[i + 1]
    BY <1>1, <1>2 DEF Elements
  <1>7. \A x : x \in Elements(s) <=> \E i \in 1..n : x = s[i]
    BY DEF Elements
  <1>8. \A i \in 1..n : i # 1 => s[i] \in Elements(u)
    <2> SUFFICES ASSUME NEW i \in 1..n, i # 1  PROVE s[i] \in Elements(u)
      OBVIOUS
    <2> QED  BY <1>4, <1>6
  <1>9. Elements(s) = {Head(s)} \cup Elements(u)
    <2>1. \A x \in Elements(s) : x = Head(s) \/ x \in Elements(u)
      BY <1>1, <1>7, <1>8
    <2>2. \A x \in Elements(u) : x \in Elements(s)
      BY <1>3, <1>6, <1>7
    <2>3. Head(s) \in Elements(s)
      BY <1>1, <1>3, <1>7
    <2> QED  BY <2>1, <2>2, <2>3, Zenon
  <1>10. Distinct(s) => Distinct(u)
    <2> SUFFICES ASSUME Distinct(s), NEW i \in 1..(n - 1), NEW j \in 1..(n - 1), i # j
                 PROVE  u[i] # u[j]
      BY <1>2 DEF Distinct
    <2> QED  BY <1>1, <1>3, <1>5 DEF Distinct
  <1>11. Distinct(s) => Head(s) \notin Elements(u)
    BY <1>1, <1>3, <1>6 DEF Distinct
  <1> QED  BY <1>1, <1>9, <1>10, <1>11 DEF u
-----------------------------------------------------------------------------
(* Lines: sequences of which the order matters.                            *)

Precedes(s, x, y) == \E k, l \in 1..Len(s) : k < l /\ s[k] = x /\ s[l] = y

(* In an empty line nobody is before anybody.                              *)
LEMMA EmptyLine == \A x, y : ~Precedes(<<>>, x, y)
  <1>1. Len(<<>>) = 0 /\ 1..0 = {}
    OBVIOUS
  <1> QED  BY <1>1 DEF Precedes

(* Only elements of a line are before each other.                          *)
LEMMA PrecedesElements ==
  ASSUME NEW s, NEW x, NEW y, Precedes(s, x, y)
  PROVE  x \in Elements(s) /\ y \in Elements(s)
  BY DEF Precedes, Elements

(* Of a sequence over A the elements are in A.                             *)
LEMMA ElementsTyped ==
  ASSUME NEW A, NEW s \in Seq(A)
  PROVE  Elements(s) \subseteq A
  BY ElementOfSeq DEF Elements

(* Who comes last is behind all others.                                    *)
LEMMA AppendedLine ==
  ASSUME NEW A, NEW s \in Seq(A), NEW e \in A, NEW x, NEW y
  PROVE  Precedes(Append(s, e), x, y) <=> Precedes(s, x, y) \/ (x \in Elements(s) /\ y = e)
  <1> DEFINE u == Append(s, e)
             n == Len(s)
  <1>1. /\ n \in Nat
        /\ Len(u) = n + 1
        /\ u[n + 1] = e
        /\ \A i \in 1..n : u[i] = s[i]
    BY AppendProperties
  <1> HIDE DEF u
  <1>2. \A i \in 1..Len(u) : i = n + 1 \/ i \in 1..n
    BY <1>1
  <1>3. \A i \in 1..n : i \in 1..Len(u) /\ i < n + 1
    BY <1>1
  <1>4. n + 1 \in 1..Len(u)
    BY <1>1
  <1>5. ASSUME NEW k \in 1..Len(u), NEW l \in 1..Len(u), k < l, u[k] = x, u[l] = y
        PROVE  Precedes(s, x, y) \/ (x \in Elements(s) /\ y = e)
    <2>1. k \in 1..n
      BY <1>1, <1>2, <1>5
    <2>2. CASE l = n + 1
      BY <1>1, <1>5, <2>1, <2>2 DEF Elements
    <2>3. CASE l \in 1..n
      BY <1>1, <1>5, <2>1, <2>3 DEF Precedes
    <2> QED  BY <1>2, <2>2, <2>3
  <1>6. ASSUME NEW k \in 1..n, NEW l \in 1..n, k < l, s[k] = x, s[l] = y
        PROVE  Precedes(u, x, y)
    BY <1>1, <1>3, <1>6 DEF Precedes
  <1>7. ASSUME NEW k \in 1..n, s[k] = x, y = e
        PROVE  Precedes(u, x, y)
    BY <1>1, <1>3, <1>4, <1>7 DEF Precedes
  <1>8. Precedes(u, x, y) => Precedes(s, x, y) \/ (x \in Elements(s) /\ y = e)
    BY <1>5 DEF Precedes
  <1>9. Precedes(s, x, y) => Precedes(u, x, y)
    BY <1>6 DEF Precedes
  <1>10. x \in Elements(s) /\ y = e => Precedes(u, x, y)
    BY <1>7 DEF Elements
  <1> QED  BY <1>8, <1>9, <1>10 DEF u

(* Keep leaves the order as it was.                                        *)
LEMMA KeptQueue ==
  ASSUME NEW A, NEW s \in Seq(A), NEW S
  PROVE  /\ Distinct(s) => Distinct(Keep(s, S))
         /\ \A x, y : Precedes(Keep(s, S), x, y) => Precedes(s, x, y)
         /\ \A x, y \in S : Precedes(s, x, y) => Precedes(Keep(s, S), x, y)
  <1> DEFINE n == Len(s)
  <1>1. PICK g : Places(g, Keep(s, S), s, n, S)
    BY KeepSifts DEF Sifted
  <1> DEFINE t == Keep(s, S)
             m == Len(t)
  <1>2. t \in Seq(A)
    BY KeepSifts
  <1>3. n \in Nat /\ m \in Nat
    BY <1>2
  <1>4. \A i \in 1..m : g[i] \in 1..n /\ t[i] = s[g[i]]
    BY <1>1 DEF Places
  <1>5. \A i, j \in 1..m : i < j => g[i] < g[j]
    BY <1>1 DEF Places
  <1>6. \A k \in 1..n : s[k] \in S => \E i \in 1..m : g[i] = k
    BY <1>1 DEF Places
  <1> HIDE DEF t, n, m
  <1>7. \A i, j \in 1..m : i # j => g[i] # g[j]
    <2> SUFFICES ASSUME NEW i \in 1..m, NEW j \in 1..m, i # j  PROVE g[i] # g[j]
      OBVIOUS
    <2>1. i < j \/ j < i
      BY <1>3
    <2> QED  BY <1>3, <1>4, <1>5, <2>1
  <1>8. ASSUME \A i, j \in 1..n : i # j => s[i] # s[j]
        PROVE  \A i, j \in 1..m : i # j => t[i] # t[j]
    BY <1>4, <1>7, <1>8
  <1>9. ASSUME NEW x, NEW y, NEW k \in 1..m, NEW l \in 1..m, k < l, t[k] = x, t[l] = y
        PROVE  \E i, j \in 1..n : i < j /\ s[i] = x /\ s[j] = y
    BY <1>4, <1>5, <1>9
  <1>10. ASSUME NEW x \in S, NEW y \in S, NEW k \in 1..n, NEW l \in 1..n,
                k < l, s[k] = x, s[l] = y
         PROVE  \E i, j \in 1..m : i < j /\ t[i] = x /\ t[j] = y
    <2>1. PICK i \in 1..m, j \in 1..m : g[i] = k /\ g[j] = l
      BY <1>6, <1>10
    <2>2. i # j
      BY <1>3, <1>10, <2>1
    <2>3. ~ (j < i)
      BY <1>3, <1>5, <1>10, <2>1
    <2>4. i < j
      BY <1>3, <2>2, <2>3
    <2> QED  BY <1>4, <1>10, <2>1, <2>4
  <1> QED  BY <1>8, <1>9, <1>10 DEF Distinct, Precedes, t, n, m

(* A line that is put together from two.                                   *)
LEMMA JoinedLine ==
  ASSUME NEW A, NEW s \in Seq(A), NEW t \in Seq(A)
  PROVE  /\ s \o t \in Seq(A)
         /\ Elements(s \o t) = Elements(s) \cup Elements(t)
         /\ \A x, y : Precedes(s, x, y) => Precedes(s \o t, x, y)
         /\ Distinct(s \o t) => /\ Distinct(s) /\ Distinct(t)
                                /\ Elements(s) \cap Elements(t) = {}
  <1> DEFINE u == s \o t
             n == Len(s)
             m == Len(t)
  <1>1. /\ u \in Seq(A)
        /\ n \in Nat /\ m \in Nat
        /\ Len(u) = n + m
        /\ \A i \in 1..(n + m) : u[i] = IF i <= n THEN s[i] ELSE t[i - n]
    BY ConcatProperties
  <1> HIDE DEF u, n, m
  <1>2. \A i \in 1..n : i \in 1..Len(u) /\ i <= n
    BY <1>1
  <1>3. \A i \in 1..m : i + n \in 1..Len(u) /\ ~ (i + n <= n) /\ (i + n) - n = i
    BY <1>1
  <1>4. \A i \in 1..Len(u) : i <= n => i \in 1..n
    BY <1>1
  <1>5. \A i \in 1..Len(u) : ~ (i <= n) => i - n \in 1..m
    BY <1>1
  <1>6. \A i \in 1..n : u[i] = s[i]
    BY <1>1, <1>2
  <1>7. \A i \in 1..m : u[i + n] = t[i]
    BY <1>1, <1>3
  <1>8. \A i \in 1..Len(u) : (i \in 1..n /\ u[i] = s[i]) \/ (i - n \in 1..m /\ u[i] = t[i - n])
    BY <1>1, <1>4, <1>5
  <1>9. /\ \A x : x \in Elements(u) <=> \E i \in 1..Len(u) : x = u[i]
        /\ \A x : x \in Elements(s) <=> \E i \in 1..n : x = s[i]
        /\ \A x : x \in Elements(t) <=> \E i \in 1..m : x = t[i]
    BY DEF Elements, n, m
  <1>10. Elements(u) = Elements(s) \cup Elements(t)
    <2>1. \A x \in Elements(u) : x \in Elements(s) \cup Elements(t)
      BY <1>8, <1>9
    <2>2. \A x \in Elements(s) : x \in Elements(u)
      BY <1>2, <1>6, <1>9
    <2>3. \A x \in Elements(t) : x \in Elements(u)
      BY <1>3, <1>7, <1>9
    <2> QED  BY <2>1, <2>2, <2>3
  <1>11. ASSUME NEW x, NEW y, NEW k \in 1..n, NEW l \in 1..n, k < l, s[k] = x, s[l] = y
         PROVE  Precedes(u, x, y)
    BY <1>2, <1>6, <1>11 DEF Precedes
  <1>12. \A x, y : Precedes(s, x, y) => Precedes(u, x, y)
    BY <1>11 DEF Precedes, n
  <1>13. ASSUME \A i, j \in 1..Len(u) : i # j => u[i] # u[j]
         PROVE  /\ \A i, j \in 1..n : i # j => s[i] # s[j]
                /\ \A i, j \in 1..m : i # j => t[i] # t[j]
                /\ \A i \in 1..n, j \in 1..m : s[i] # t[j]
    <2>1. \A i, j \in 1..n : i # j => s[i] # s[j]
      BY <1>2, <1>6, <1>13
    <2>2. \A i, j \in 1..m : i # j => i + n # j + n
      BY <1>1
    <2>3. \A i, j \in 1..m : i # j => t[i] # t[j]
      BY <1>3, <1>7, <1>13, <2>2
    <2>4. \A i \in 1..n, j \in 1..m : i # j + n
      BY <1>2, <1>3
    <2>5. \A i \in 1..n, j \in 1..m : s[i] # t[j]
      BY <1>2, <1>3, <1>6, <1>7, <1>13, <2>4
    <2> QED  BY <2>1, <2>3, <2>5
  <1>14. Distinct(u) => /\ Distinct(s) /\ Distinct(t)
                        /\ Elements(s) \cap Elements(t) = {}
    <2> SUFFICES ASSUME Distinct(u)
                 PROVE  /\ Distinct(s) /\ Distinct(t)
                        /\ Elements(s) \cap Elements(t) = {}
      OBVIOUS
    <2>1. \A i, j \in 1..Len(u) : i # j => u[i] # u[j]
      BY DEF Distinct
    <2>2. /\ \A i, j \in 1..n : i # j => s[i] # s[j]
          /\ \A i, j \in 1..m : i # j => t[i] # t[j]
          /\ \A i \in 1..n, j \in 1..m : s[i] # t[j]
      BY <1>13, <2>1
    <2>3. Distinct(s) /\ Distinct(t)
      BY <2>2 DEF Distinct, n, m
    <2>4. Elements(s) \cap Elements(t) = {}
      BY <1>9, <2>2
    <2> QED  BY <2>3, <2>4
  <1> QED  BY <1>1, <1>10, <1>12, <1>14 DEF u

(* Who is before whom in two lines put together.                           *)
LEMMA JoinedPlaces ==
  ASSUME NEW A, NEW s \in Seq(A), NEW t \in Seq(A), NEW x, NEW y
  PROVE  Precedes(s \o t, x, y) <=> \/ Precedes(s, x, y) \/ Precedes(t, x, y)
                                    \/ x \in Elements(s) /\ y \in Elements(t)
  <1> DEFINE u == s \o t
             n == Len(s)
             m == Len(t)
  <1>1. /\ n \in Nat /\ m \in Nat
        /\ Len(u) = n + m
        /\ \A i \in 1..(n + m) : u[i] = IF i <= n THEN s[i] ELSE t[i - n]
    BY ConcatProperties
  <1> HIDE DEF u, n, m
  <1>2. /\ \A i \in 1..n : i \in 1..Len(u) /\ u[i] = s[i]
        /\ \A i \in 1..m : i + n \in 1..Len(u) /\ u[i + n] = t[i]
        /\ \A i \in 1..Len(u) : i \in 1..n \/ (i > n /\ i - n \in 1..m /\ u[i] = t[i - n])
    BY <1>1
  <1>3. ASSUME NEW k \in 1..Len(u), NEW l \in 1..Len(u), k < l, u[k] = x, u[l] = y
        PROVE  \/ Precedes(s, x, y) \/ Precedes(t, x, y)
               \/ x \in Elements(s) /\ y \in Elements(t)
    <2>1. CASE k \in 1..n /\ l \in 1..n
      BY <1>2, <1>3, <2>1 DEF Precedes, n
    <2>2. CASE k \in 1..n /\ l \notin 1..n
      BY <1>2, <1>3, <2>2 DEF Elements, n, m
    <2>3. CASE k \notin 1..n
      <3>1. k > n /\ l > n /\ k - n \in 1..m /\ l - n \in 1..m /\ k - n < l - n
        BY <1>1, <1>2, <1>3, <2>3
      <3>2. t[k - n] = x /\ t[l - n] = y
        BY <1>1, <1>2, <1>3, <3>1
      <3> QED  BY <3>1, <3>2 DEF Precedes, m
    <2> QED  BY <2>1, <2>2, <2>3
  <1>4. Precedes(s, x, y) => Precedes(u, x, y)
    BY <1>2 DEF Precedes, n
  <1>5. ASSUME NEW k \in 1..m, NEW l \in 1..m, k < l, t[k] = x, t[l] = y
        PROVE  Precedes(u, x, y)
    <2>1. k + n < l + n /\ k + n \in 1..Len(u) /\ l + n \in 1..Len(u)
      BY <1>1, <1>2, <1>5
    <2> QED  BY <1>2, <1>5, <2>1 DEF Precedes
  <1>6. ASSUME NEW k \in 1..n, NEW l \in 1..m, s[k] = x, t[l] = y
        PROVE  Precedes(u, x, y)
    <2>1. k < l + n
      BY <1>1
    <2> QED  BY <1>2, <1>6, <2>1 DEF Precedes
  <1> QED  BY <1>3, <1>4, <1>5, <1>6 DEF Precedes, Elements, u, n, m

(* Who is before whom when some have left the second line was so before.   *)
LEMMA ThinnedLine ==
  ASSUME NEW A, NEW s \in Seq(A), NEW t \in Seq(A), NEW S, NEW x, NEW y,
         Precedes(s \o Keep(t, S), x, y)
  PROVE  Precedes(s \o t, x, y)
  <1>1. PICK k \in Seq(A) : k = Keep(t, S)
    BY KeepSifts
  <1>2. Elements(k) \subseteq Elements(t) /\ (Precedes(k, x, y) => Precedes(t, x, y))
    BY <1>1, KeepElements, KeptQueue
  <1>3. \/ Precedes(s, x, y) \/ Precedes(k, x, y)
        \/ x \in Elements(s) /\ y \in Elements(k)
    BY <1>1, JoinedPlaces
  <1> QED  BY <1>2, <1>3, JoinedPlaces

(* A line to which nothing is joined.                                      *)
LEMMA JoinedToNothing ==
  ASSUME NEW A, NEW s \in Seq(A)
  PROVE  s \o <<>> = s /\ <<>> \o s = s
  BY ConcatEmptySeq

(* Who comes last comes last in what the line is part of.                  *)
LEMMA JoinedAppend ==
  ASSUME NEW A, NEW s \in Seq(A), NEW t \in Seq(A), NEW e \in A
  PROVE  s \o Append(t, e) = Append(s \o t, e)
  <1>1. <<e>> \in Seq(A)
    OBVIOUS
  <1>2. Append(t, e) = t \o <<e>>
    BY AppendIsConcat
  <1>3. s \o t \in Seq(A)
    BY ConcatProperties
  <1>4. Append(s \o t, e) = (s \o t) \o <<e>>
    BY <1>3, AppendIsConcat
  <1>5. (s \o t) \o <<e>> = s \o (t \o <<e>>)
    BY <1>1, ConcatAssociative
  <1> QED  BY <1>2, <1>4, <1>5

(* When the first one leaves, the others stay as they stood.               *)
LEMMA ShortenedLine ==
  ASSUME NEW A, NEW s \in Seq(A), NEW t \in Seq(A), s # <<>>, NEW x, NEW y,
         Precedes(Tail(s) \o t, x, y)
  PROVE  Precedes(s \o t, x, y)
  <1> DEFINE u == s \o t
             v == Tail(s) \o t
             n == Len(s)
             m == Len(t)
  <1>1. /\ n \in Nat /\ n > 0 /\ m \in Nat
        /\ Tail(s) \in Seq(A) /\ Len(Tail(s)) = n - 1
        /\ \A i \in 1..(n - 1) : Tail(s)[i] = s[i + 1]
    BY EmptySeq, HeadTailProperties
  <1>2. /\ Len(u) = n + m
        /\ \A i \in 1..(n + m) : u[i] = IF i <= n THEN s[i] ELSE t[i - n]
    BY ConcatProperties
  <1>3. /\ Len(v) = (n - 1) + m
        /\ \A i \in 1..((n - 1) + m) : v[i] = IF i <= n - 1 THEN Tail(s)[i] ELSE t[i - (n - 1)]
    BY <1>1, ConcatProperties
  <1> HIDE DEF u, v, n, m
  <1>4. ASSUME NEW i \in 1..Len(v)  PROVE i + 1 \in 1..Len(u) /\ v[i] = u[i + 1]
    <2>1. i + 1 \in 1..(n + m) /\ i \in 1..((n - 1) + m)
      BY <1>1, <1>3
    <2>2. CASE i <= n - 1
      <3>1. i \in 1..(n - 1) /\ i + 1 <= n
        BY <1>1, <2>1, <2>2
      <3>2. v[i] = s[i + 1]
        BY <1>1, <1>3, <2>1, <2>2, <3>1
      <3>3. u[i + 1] = s[i + 1]
        BY <1>2, <2>1, <3>1
      <3> QED  BY <1>2, <2>1, <3>2, <3>3
    <2>3. CASE ~ (i <= n - 1)
      <3>1. ~ (i + 1 <= n) /\ i - (n - 1) = (i + 1) - n
        BY <1>1, <2>1, <2>3
      <3>2. v[i] = t[(i + 1) - n]
        BY <1>3, <2>1, <2>3, <3>1
      <3>3. u[i + 1] = t[(i + 1) - n]
        BY <1>2, <2>1, <3>1
      <3> QED  BY <1>2, <2>1, <3>2, <3>3
    <2> QED  BY <2>2, <2>3
  <1>5. PICK k \in 1..Len(v), l \in 1..Len(v) : k < l /\ v[k] = x /\ v[l] = y
    BY DEF Precedes, v
  <1>6. k + 1 < l + 1
    BY <1>1, <1>3, <1>5
  <1>7. Precedes(u, x, y)
    BY <1>4, <1>5, <1>6 DEF Precedes
  <1> QED  BY <1>7 DEF u

(* A line is cut in two.                                                   *)
LEMMA CutLine ==
  ASSUME NEW A, NEW s \in Seq(A), NEW n \in 0..Len(s)
  PROVE  /\ SubSeq(s, 1, n) \in Seq(A)
         /\ SubSeq(s, n + 1, Len(s)) \in Seq(A)
         /\ SubSeq(s, 1, n) \o SubSeq(s, n + 1, Len(s)) = s
  <1>1. /\ Len(s) \in Nat /\ n \in Nat
        /\ 1 \in 1..(Len(s) + 1) /\ n \in (1 - 1)..Len(s) /\ Len(s) \in n..Len(s)
    OBVIOUS
  <1>2. SubSeq(s, 1, n) \o SubSeq(s, n + 1, Len(s)) = SubSeq(s, 1, Len(s))
    BY <1>1, ConcatAdjacentSubSeq
  <1>3. \A i \in 1..n : s[i] \in A
    <2>1. \A i \in 1..n : i \in 1..Len(s)
      BY <1>1
    <2> QED  BY <2>1, ElementOfSeq
  <1>4. \A i \in (n + 1)..Len(s) : s[i] \in A
    <2>1. \A i \in (n + 1)..Len(s) : i \in 1..Len(s)
      BY <1>1
    <2> QED  BY <2>1, ElementOfSeq
  <1>5. SubSeq(s, 1, n) \in Seq(A)
    BY <1>1, <1>3, SubSeqProperties
  <1>6. SubSeq(s, n + 1, Len(s)) \in Seq(A)
    <2>1. n + 1 \in Int /\ Len(s) \in Int
      BY <1>1
    <2> QED  BY <1>4, <2>1, SubSeqProperties
  <1> QED  BY <1>2, <1>5, <1>6, SubSeqFull

(* The first elements, and one more of them.                               *)
LEMMA FirstElements ==
  ASSUME NEW A, NEW s \in Seq(A), NEW n \in Nat
  PROVE  /\ SubSeq(s, 1, 0) = <<>>
         /\ n + 1 <= Len(s) => Elements(SubSeq(s, 1, n)) \subseteq Elements(SubSeq(s, 1, n + 1))
         /\ n <= Len(s) => Elements(SubSeq(s, 1, n)) \subseteq Elements(s)
  <1>1. SubSeq(s, 1, 0) = <<>>
    BY SubSeqEmpty
  <1>2. \A i \in 1..Len(s) : s[i] \in A
    BY ElementOfSeq
  <1>3. Len(s) \in Nat
    OBVIOUS
  <1>4. ASSUME NEW m \in Nat, m <= Len(s)
        PROVE  Elements(SubSeq(s, 1, m)) = {s[i] : i \in 1..m}
    <2>1. \A i \in 1..m : s[i] \in A
      BY <1>2, <1>3, <1>4
    <2>2. /\ Len(SubSeq(s, 1, m)) = IF 1 <= m THEN m - 1 + 1 ELSE 0
          /\ \A i \in 1..(m - 1 + 1) : SubSeq(s, 1, m)[i] = s[1 + i - 1]
      BY <2>1, SubSeqProperties
    <2>3. Len(SubSeq(s, 1, m)) = m
      BY <2>2
    <2>4. \A i \in 1..m : SubSeq(s, 1, m)[i] = s[i]
      <3>1. \A i \in 1..m : i \in 1..(m - 1 + 1) /\ 1 + i - 1 = i
        OBVIOUS
      <3> QED  BY <2>2, <3>1
    <2> QED  BY <2>3, <2>4 DEF Elements
  <1>5. ASSUME n + 1 <= Len(s)
        PROVE  Elements(SubSeq(s, 1, n)) \subseteq Elements(SubSeq(s, 1, n + 1))
    <2>1. n <= Len(s) /\ n + 1 \in Nat /\ 1..n \subseteq 1..(n + 1)
      BY <1>3, <1>5
    <2>2. Elements(SubSeq(s, 1, n)) = {s[i] : i \in 1..n}
      BY <1>4, <2>1
    <2>3. Elements(SubSeq(s, 1, n + 1)) = {s[i] : i \in 1..(n + 1)}
      BY <1>4, <1>5, <2>1
    <2> QED  BY <2>1, <2>2, <2>3
  <1>6. ASSUME n <= Len(s)  PROVE Elements(SubSeq(s, 1, n)) \subseteq Elements(s)
    <2>1. 1..n \subseteq 1..Len(s)
      BY <1>3, <1>6
    <2>2. Elements(SubSeq(s, 1, n)) = {s[i] : i \in 1..n}
      BY <1>4, <1>6
    <2> QED  BY <2>1, <2>2 DEF Elements
  <1> QED  BY <1>1, <1>5, <1>6

(* A queue that holds nothing twice is as long as it has elements.         *)
LEMMA DistinctLength ==
  ASSUME NEW A, NEW s \in Seq(A), Distinct(s)
  PROVE  Cardinality(Elements(s)) = Len(s)
  <1> DEFINE n == Len(s)
             f == [i \in 1..n |-> s[i]]
  <1>1. n \in Nat /\ n \in Int /\ 1 \in Int
    OBVIOUS
  <1> HIDE DEF n
  <1>2. f \in Surjection(1..n, Elements(s))
    BY DEF Surjection, Elements, n
  <1>3. f \in Injection(1..n, Elements(s))
    BY DEF Injection, IsInjective, Elements, Distinct, n
  <1>4. IsFiniteSet(1..n) /\ Cardinality(1..n) = IF 1 > n THEN 0 ELSE n - 1 + 1
    BY <1>1, FS_Interval
  <1>5. Cardinality(1..n) = n
    BY <1>1, <1>4
  <1>6. Cardinality(Elements(s)) = Cardinality(1..n)
    BY <1>2, <1>3, <1>4, FS_Surjection
  <1> QED  BY <1>5, <1>6 DEF n
-----------------------------------------------------------------------------
(* Pick.                                                                   *)

(* t is s at the positions I: g says where each of its elements stood.     *)
Picks(g, t, s, I) ==
  /\ g \in [1..Len(t) -> 1..Len(s)]
  /\ \A i \in 1..Len(t) : g[i] \in I /\ t[i] = s[g[i]]
  /\ \A i, j \in 1..Len(t) : i < j => g[i] < g[j]
  /\ \A x \in 1..Len(s) : x \in I => \E i \in 1..Len(t) : g[i] = x

(* A function on 1..n is a sequence of length n.                           *)
LEMMA SequenceOf ==
  ASSUME NEW A, NEW n \in Nat, NEW f \in [1..n -> A]
  PROVE  f \in Seq(A) /\ Len(f) = n
  <1>1. DOMAIN f = 1..n /\ \A i \in 1..n : f[i] \in A
    OBVIOUS
  <1> QED  BY <1>1

(* Pick returns the elements of s at the positions I, in their order.      *)
LEMMA PickPicks ==
  ASSUME NEW A, NEW s \in Seq(A), NEW I
  PROVE  Pick(s, I) \in Seq(A) /\ \E g : Picks(g, Pick(s, I), s, I)
  <1> DEFINE n == Len(s)
             ids == [i \in 1..n |-> i]
             at == Keep(ids, I)
             t == [k \in 1..Len(at) |-> s[at[k]]]
  <1>1. n \in Nat
    OBVIOUS
  <1>2. ids \in Seq(1..n) /\ Len(ids) = n /\ \A i \in 1..n : ids[i] = i
    BY <1>1
  <1> HIDE DEF ids
  <1>3. at \in Seq(1..n) /\ \E g : Places(g, at, ids, n, I)
    BY <1>2, KeepSifts DEF Sifted
  <1>4. PICK g : Places(g, at, ids, n, I)
    BY <1>3
  <1> DEFINE m == Len(at)
  <1>5. m \in Nat /\ \A i \in 1..m : at[i] \in 1..n
    BY <1>3, ElementOfSeq
  <1> HIDE DEF at
  <1>6. /\ g \in [1..m -> 1..n]
        /\ \A i \in 1..m : ids[g[i]] \in I /\ at[i] = ids[g[i]]
        /\ \A i, j \in 1..m : i < j => g[i] < g[j]
        /\ \A x \in 1..n : ids[x] \in I => \E i \in 1..m : g[i] = x
    BY <1>4 DEF Places
  <1>7. \A i \in 1..m : g[i] \in 1..n /\ at[i] = g[i] /\ at[i] \in I
    BY <1>2, <1>6
  <1>8. \A i \in 1..m : s[at[i]] \in A
    BY <1>5, ElementOfSeq
  <1>9. t \in Seq(A) /\ Len(t) = m /\ \A i \in 1..m : t[i] = s[at[i]]
    <2>1. t = [k \in 1..m |-> s[at[k]]]
      OBVIOUS
    <2> HIDE DEF t, m
    <2>2. t \in [1..m -> A] /\ \A i \in 1..m : t[i] = s[at[i]]
      BY <1>8, <2>1
    <2> QED  BY <1>5, <2>2, SequenceOf
  <1>10. Pick(s, I) = t
    BY DEF Pick, ids, at
  <1> HIDE DEF t, m, n
  <1>11. Picks(g, t, s, I)
    <2>1. g \in [1..Len(t) -> 1..Len(s)]
      BY <1>6, <1>9 DEF n
    <2>2. \A i \in 1..Len(t) : g[i] \in I /\ t[i] = s[g[i]]
      BY <1>7, <1>9
    <2>3. \A i, j \in 1..Len(t) : i < j => g[i] < g[j]
      BY <1>6, <1>9
    <2>4. \A x \in 1..Len(s) : x \in I => \E i \in 1..Len(t) : g[i] = x
      BY <1>2, <1>6, <1>9 DEF n
    <2> QED  BY <2>1, <2>2, <2>3, <2>4 DEF Picks
  <1> QED  BY <1>9, <1>10, <1>11

(* Somebody before another one in a line stands first or behind the first. *)
LEMMA TakenLine ==
  ASSUME NEW A, NEW s \in Seq(A), s # <<>>, NEW x, NEW y, Precedes(s, x, y)
  PROVE  x = Head(s) \/ Precedes(Tail(s), x, y)
  <1> DEFINE u == Tail(s)
             n == Len(s)
  <1>1. /\ Head(s) = s[1] /\ n \in Nat /\ n > 0 /\ Len(u) = n - 1
        /\ \A i \in 1..(n - 1) : u[i] = s[i + 1]
    BY EmptySeq, HeadTailProperties
  <1>2. PICK k \in 1..n, l \in 1..n : k < l /\ s[k] = x /\ s[l] = y
    BY DEF Precedes
  <1> HIDE DEF u, n
  <1>3. CASE k = 1
    BY <1>1, <1>2, <1>3
  <1>4. CASE k # 1
    <2>1. k - 1 \in 1..(n - 1) /\ l - 1 \in 1..(n - 1) /\ k - 1 < l - 1
      BY <1>1, <1>2, <1>4
    <2>2. u[k - 1] = x /\ u[l - 1] = y
      <3>1. (k - 1) + 1 = k /\ (l - 1) + 1 = l
        BY <1>1, <1>2
      <3> QED  BY <1>1, <1>2, <2>1, <3>1
    <2>3. Precedes(u, x, y)
      BY <1>1, <2>1, <2>2 DEF Precedes
    <2> QED  BY <2>3 DEF u
  <1> QED  BY <1>3, <1>4

(* Nobody is before the first of a queue that holds nothing twice.         *)
LEMMA FirstInLine ==
  ASSUME NEW A, NEW s \in Seq(A), s # <<>>, Distinct(s), NEW x
  PROVE  ~Precedes(s, x, Head(s))
  <1>1. Head(s) = s[1] /\ Len(s) \in Nat /\ Len(s) > 0
    BY EmptySeq, HeadTailProperties
  <1> SUFFICES ASSUME NEW k \in 1..Len(s), NEW l \in 1..Len(s), k < l, s[l] = Head(s)
               PROVE  FALSE
    BY DEF Precedes
  <1>2. 1 \in 1..Len(s) /\ l # 1
    BY <1>1
  <1> QED  BY <1>1, <1>2 DEF Distinct

-----------------------------------------------------------------------------
(* Keep of one sequence and of another.                                    *)

(* Where two sequences agree, with what is kept, the same is left.         *)
LEMMA KeepAgrees ==
  ASSUME NEW n \in Nat, NEW k, NEW h, NEW s, NEW t, NEW S, NEW T,
         KeepsUpTo(k, n, s, S), KeepsUpTo(h, n, t, T),
         \A i \in 1..n : s[i] = t[i] /\ (s[i] \in S <=> t[i] \in T)
  PROVE  \A i \in 0..n : k[i] = h[i]
  <1> DEFINE bad == {i \in 0..n : k[i] # h[i]}
  <1> SUFFICES ASSUME bad # {}  PROVE FALSE
    OBVIOUS
  <1>1. bad \in SUBSET Nat
    OBVIOUS
  <1>2. PICK m \in bad : \A l \in bad : m <= l
    BY <1>1, LeastNumber
  <1>3. m \in 0..n /\ k[m] # h[m]
    BY <1>2
  <1>4. m # 0
    BY <1>3 DEF KeepsUpTo
  <1>5. m - 1 \in 0..n /\ m \in 1..n /\ ~(m <= m - 1)
    BY <1>3, <1>4
  <1>6. k[m - 1] = h[m - 1]
    BY <1>2, <1>5
  <1> QED  BY <1>3, <1>5, <1>6 DEF KeepsUpTo

(* What is kept of a sequence depends on its elements only.                *)
LEMMA KeepSame ==
  ASSUME NEW A, NEW s \in Seq(A), NEW S, NEW T, \A x \in Elements(s) : x \in S <=> x \in T
  PROVE  Keep(s, S) = Keep(s, T)
  <1> DEFINE n == Len(s)
  <1>1. n \in Nat
    OBVIOUS
  <1>2. \A i \in 1..n : s[i] \in S <=> s[i] \in T
    BY DEF Elements
  <1>3. PICK k \in [0..n -> Seq(A)] : KeepsUpTo(k, n, s, S) /\ Keep(s, S) = k[n]
    BY KeepUnfolds
  <1>4. PICK h \in [0..n -> Seq(A)] : KeepsUpTo(h, n, s, T) /\ Keep(s, T) = h[n]
    BY KeepUnfolds
  <1> HIDE DEF n
  <1>5. \A i \in 0..n : k[i] = h[i]
    BY <1>1, <1>2, <1>3, <1>4, KeepAgrees
  <1>6. n \in 0..n
    BY <1>1
  <1> QED  BY <1>3, <1>4, <1>5, <1>6

(* What is kept when an element is appended.                               *)
LEMMA KeepAppend ==
  ASSUME NEW A, NEW s \in Seq(A), NEW e \in A, NEW S
  PROVE  Keep(Append(s, e), S) = IF e \in S THEN Append(Keep(s, S), e) ELSE Keep(s, S)
  <1> DEFINE n == Len(s)
             t == Append(s, e)
  <1>1. n \in Nat /\ t \in Seq(A) /\ Len(t) = n + 1 /\ t[n + 1] = e /\ \A i \in 1..n : t[i] = s[i]
    BY AppendProperties
  <1>2. PICK k \in [0..n -> Seq(A)] : KeepsUpTo(k, n, s, S) /\ Keep(s, S) = k[n]
    BY KeepUnfolds
  <1> HIDE DEF t, n
  <1>3. PICK h \in [0..Len(t) -> Seq(A)] : KeepsUpTo(h, Len(t), t, S) /\ Keep(t, S) = h[Len(t)]
    BY <1>1, KeepUnfolds
  <1>4. /\ h[0] = <<>>
        /\ \A i \in 1..(n + 1) : h[i] = IF t[i] \in S THEN Append(h[i - 1], t[i]) ELSE h[i - 1]
    BY <1>1, <1>3 DEF KeepsUpTo
  <1>5. KeepsUpTo(h, n, t, S)
    <2>1. \A i \in 1..n : i \in 1..(n + 1)
      BY <1>1
    <2> QED  BY <1>4, <2>1 DEF KeepsUpTo
  <1>6. \A i \in 0..n : k[i] = h[i]
    BY <1>1, <1>2, <1>5, KeepAgrees
  <1>7. n \in 0..n /\ n + 1 \in 1..(n + 1) /\ (n + 1) - 1 = n
    BY <1>1
  <1>8. h[n + 1] = IF e \in S THEN Append(k[n], e) ELSE k[n]
    BY <1>1, <1>4, <1>6, <1>7
  <1> QED  BY <1>1, <1>2, <1>3, <1>8 DEF t

Upto(n) == [i \in 1..n |-> i]

(* The numbers up to n, and one more.                                      *)
LEMMA UptoNext ==
  ASSUME NEW n \in Nat
  PROVE  /\ Upto(n) \in Seq(Nat) /\ Len(Upto(n)) = n
         /\ Upto(0) = <<>>
         /\ Append(Upto(n), n + 1) = Upto(n + 1)
         /\ \A N \in Nat : n <= N => Upto(n) \in Seq(1..N)
  <1>1. ASSUME NEW m \in Nat  PROVE Upto(m) \in Seq(Nat) /\ Len(Upto(m)) = m
    <2>1. Upto(m) \in [1..m -> Nat]
      BY DEF Upto
    <2> QED  BY <2>1, SequenceOf
  <1>2. Upto(0) = <<>>
    <2>1. Len(Upto(0)) = 0 /\ Upto(0) \in Seq(Nat)
      BY <1>1
    <2> QED  BY <2>1, EmptySeq
  <1>3. Append(Upto(n), n + 1) = Upto(n + 1)
    <2> DEFINE s == Upto(n)
               t == Append(s, n + 1)
               u == Upto(n + 1)
    <2>1. s \in Seq(Nat) /\ Len(s) = n /\ n + 1 \in Nat
      BY <1>1
    <2>2. \A i \in 1..n : s[i] = i
      BY DEF Upto
    <2> HIDE DEF s
    <2>3. t \in Seq(Nat) /\ Len(t) = n + 1 /\ t[n + 1] = n + 1 /\ \A i \in 1..n : t[i] = i
      BY <2>1, <2>2, AppendProperties
    <2>4. u \in Seq(Nat) /\ Len(u) = n + 1
      BY <1>1
    <2>5. \A i \in 1..(n + 1) : u[i] = i
      BY DEF Upto
    <2> HIDE DEF t, u
    <2>6. \A i \in 1..(n + 1) : t[i] = u[i]
      BY <2>3, <2>5
    <2>7. t = u
      BY <2>3, <2>4, <2>6, SeqEqual
    <2> QED  BY <2>7 DEF s, t, u
  <1>4. ASSUME NEW N \in Nat, n <= N  PROVE Upto(n) \in Seq(1..N)
    <2>1. Upto(n) \in [1..n -> 1..N]
      BY <1>4 DEF Upto
    <2> QED  BY <2>1, SequenceOf
  <1> QED  BY <1>1, <1>2, <1>3, <1>4

(* All the positions are picked.                                           *)
LEMMA PickAll ==
  ASSUME NEW A, NEW s \in Seq(A), NEW I, 1..Len(s) \subseteq I
  PROVE  Pick(s, I) = s
  <1> DEFINE n == Len(s)
             t == Upto(n)
  <1>1. n \in Nat /\ t \in Seq(Nat) /\ Len(t) = n /\ \A i \in 1..n : t[i] = i
    BY UptoNext DEF Upto
  <1>2. \A i \in 1..n : i \in I
    OBVIOUS
  <1> HIDE DEF t, n
  <1>3. PICK k \in [0..Len(t) -> Seq(Nat)] : KeepsUpTo(k, Len(t), t, I) /\ Keep(t, I) = k[Len(t)]
    BY <1>1, KeepUnfolds
  <1>4. k[0] = <<>> /\ \A i \in 1..n : k[i] = Append(k[i - 1], i)
    BY <1>1, <1>2, <1>3 DEF KeepsUpTo
  <1> DEFINE T == {m \in Nat : m <= n => k[m] = Upto(m)}
  <1>5. 0 \in T
    BY <1>4, UptoNext
  <1>6. ASSUME NEW m \in T  PROVE m + 1 \in T
    <2> SUFFICES ASSUME m + 1 <= n  PROVE k[m + 1] = Upto(m + 1)
      OBVIOUS
    <2>1. m \in Nat /\ m + 1 \in 1..n /\ (m + 1) - 1 = m /\ k[m] = Upto(m)
      BY <1>1
    <2> QED  BY <1>4, <2>1, UptoNext
  <1> HIDE DEF T
  <1>7. n \in T
    <2>1. T \in SUBSET Nat
      BY DEF T
    <2> QED  BY <1>1, <1>5, <1>6, <2>1, SetInduction
  <1>8. Keep(t, I) = t
    BY <1>1, <1>3, <1>7 DEF T, t
  <1>9. Pick(s, I) = [i \in 1..n |-> s[i]]
    <2>1. [i \in 1..Len(s) |-> i] = t
      BY DEF t, n, Upto
    <2>2. Pick(s, I) = [i \in 1..Len(t) |-> s[t[i]]]
      BY <1>8, <2>1 DEF Pick
    <2> QED  BY <1>1, <2>2
  <1>10. [i \in 1..n |-> s[i]] = s
    <2>1. s = [i \in DOMAIN s |-> s[i]] /\ DOMAIN s = 1..n
      BY DEF n
    <2> QED  BY <2>1
  <1> QED  BY <1>9, <1>10
=============================================================================

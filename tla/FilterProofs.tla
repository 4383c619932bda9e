---------------------------- MODULE FilterProofs ----------------------------
(***************************************************************************)
(* What a filtered list is, for lists of every length, and a list with an  *)
(* element more or without its head.  The facts about the recursive        *)
(* function Kept are proved by induction on its argument, and the          *)
(* induction from the least element of a set of numbers: the library's     *)
(* well-foundedness of < says that there is one.                           *)
(***************************************************************************)
EXTENDS Filter, Functions, SequenceTheorems, WellFoundedInduction, TLAPS

\* A nonempty set of numbers has a least one.
LEMMA Least ==
    ASSUME NEW T \in SUBSET Nat, T # {}
    PROVE  \E n \in T : \A m \in T : n <= m
<1> DEFINE R == {p \in Nat \X Nat : p[1] < p[2]}
<1>1. IsWellFoundedOn(R, Nat)
  BY NatLessThanWellFounded DEF OpToRel
<1>2. \E n \in T : \A m \in T : ~(<<m, n>> \in R)
  <2> HIDE DEF R
  <2> QED BY <1>1, WFMin
<1>3. \A m, n \in Nat : m < n => <<m, n>> \in R
  OBVIOUS
<1> HIDE DEF R
<1>4. PICK n \in T : \A m \in T : ~(<<m, n>> \in R)
  BY <1>2
<1>5. ASSUME NEW m \in T PROVE n <= m
  <2>1. m \in Nat /\ n \in Nat /\ ~(m < n)
    BY <1>3, <1>4
  <2> QED BY <2>1
<1> QED BY <1>5

\* A set of numbers that has 0 and every successor has them all.
LEMMA Induction ==
    ASSUME NEW T \in SUBSET Nat, 0 \in T, \A n \in T : n + 1 \in T
    PROVE  T = Nat
<1> SUFFICES ASSUME Nat \ T # {} PROVE FALSE
  OBVIOUS
<1>1. PICK n \in Nat \ T : \A m \in Nat \ T : n <= m
  <2>1. Nat \ T \in SUBSET Nat
    OBVIOUS
  <2> QED BY <2>1, Least
<1>2. n # 0 /\ n - 1 \in Nat
  BY <1>1
<1>3. n - 1 \in T
  BY <1>1, <1>2
<1> QED BY <1>1, <1>2, <1>3

-----------------------------------------------------------------------------
\* f decides about the n-th element of s as filter does.
Extends(s, S, f, n) ==
    f[n] = IF s[n] \in S THEN f[n - 1] ELSE Append(f[n - 1], s[n])

\* There is a function that decides so about every element.
LEMMA KeptExists ==
    ASSUME NEW T, NEW s \in Seq(T), NEW S
    PROVE  \E f \in [0..Len(s) -> Seq(T)] : f[0] = <<>> /\ \A i \in 1..Len(s) : Extends(s, S, f, i)
<1> DEFINE Good(n) == \E f \in [0..n -> Seq(T)] : f[0] = <<>> /\ \A i \in 1..n : Extends(s, S, f, i)
           G == {n \in Nat : n <= Len(s) => Good(n)}
<1>a. Len(s) \in Nat
  OBVIOUS
<1> HIDE DEF Good
<1>1. 0 \in G
  <2> DEFINE f == [i \in 0..0 |-> <<>>]
  <2>1. f \in [0..0 -> Seq(T)] /\ f[0] = <<>> /\ \A i \in 1..0 : Extends(s, S, f, i)
    OBVIOUS
  <2>2. Good(0)
    <3> HIDE DEF f
    <3> QED BY <2>1 DEF Good
  <2> QED BY <2>2
<1>2. ASSUME NEW n \in G PROVE n + 1 \in G
  <2>0. n \in Nat
    OBVIOUS
  <2> SUFFICES ASSUME n + 1 <= Len(s) PROVE Good(n + 1)
    BY <2>0
  <2>1. n \in Nat /\ Good(n) /\ n + 1 \in 1..Len(s)
    BY <1>a, <2>0
  <2>2. PICK f \in [0..n -> Seq(T)] : f[0] = <<>> /\ \A i \in 1..n : Extends(s, S, f, i)
    BY <2>1 DEF Good
  <2> DEFINE x == IF s[n + 1] \in S THEN f[n] ELSE Append(f[n], s[n + 1])
             g == [i \in 0..n + 1 |-> IF i = n + 1 THEN x ELSE f[i]]
  <2>3. x \in Seq(T)
    BY <2>1
  <2>4. g \in [0..n + 1 -> Seq(T)]
    BY <2>1, <2>3
  <2>5. g[0] = <<>>
    BY <2>1, <2>2
  <2>6. ASSUME NEW i \in 1..n + 1 PROVE Extends(s, S, g, i)
    <3>1. CASE i = n + 1
      BY <2>1, <3>1 DEF Extends
    <3>2. CASE i # n + 1
      <4>1. i \in 1..n /\ i \in 0..n /\ i - 1 \in 0..n /\ i - 1 # n + 1
        BY <2>1, <3>2
      <4>2. g[i] = f[i] /\ g[i - 1] = f[i - 1]
        BY <2>1, <4>1
      <4>3. Extends(s, S, f, i)
        BY <2>2, <4>1
      <4> HIDE DEF g, x
      <4> QED BY <4>2, <4>3 DEF Extends
    <3> QED BY <3>1, <3>2
  <2> HIDE DEF g
  <2> QED BY <2>4, <2>5, <2>6 DEF Good
<1> HIDE DEF G
<1>3. G = Nat
  <2>1. G \in SUBSET Nat
    BY DEF G
  <2> QED BY <1>1, <1>2, <2>1, Induction
<1>4. Good(Len(s))
  BY <1>a, <1>3 DEF G
<1> QED BY <1>4 DEF Good

\* Kept decides so: what its recursive definition says is true of it.
LEMMA KeptIs ==
    ASSUME NEW T, NEW s \in Seq(T), NEW S
    PROVE  /\ Kept(s, S)[0] = <<>>
           /\ \A n \in 1..Len(s) :
                Kept(s, S)[n] = IF s[n] \in S THEN Kept(s, S)[n - 1]
                                ELSE Append(Kept(s, S)[n - 1], s[n])
<1> DEFINE Next(g) == [n \in 0..Len(s) |-> IF n = 0 THEN <<>> ELSE IF s[n] \in S THEN g[n - 1] ELSE Append(g[n - 1], s[n])]
<1>1. PICK f \in [0..Len(s) -> Seq(T)] : f[0] = <<>> /\ \A i \in 1..Len(s) : Extends(s, S, f, i)
  BY KeptExists
<1>2. f = Next(f)
  <2>1. \A n \in 0..Len(s) : f[n] = IF n = 0 THEN <<>> ELSE IF s[n] \in S THEN f[n - 1] ELSE Append(f[n - 1], s[n])
    <3>1. Len(s) \in Nat
      OBVIOUS
    <3>2. \A n \in 0..Len(s) : n # 0 => n \in 1..Len(s)
      BY <3>1
    <3> QED BY <1>1, <3>2 DEF Extends
  <2> QED BY <2>1
<1>3. Kept(s, S) = CHOOSE g : g = Next(g)
  BY DEF Kept
<1> HIDE DEF Next
<1>4. Kept(s, S) = Next(Kept(s, S))
  BY <1>2, <1>3
<1> DEFINE k == Kept(s, S)
<1>5. k = [n \in 0..Len(s) |-> IF n = 0 THEN <<>> ELSE IF s[n] \in S THEN k[n - 1] ELSE Append(k[n - 1], s[n])]
  BY <1>4 DEF Next
<1>6. Len(s) \in Nat
  OBVIOUS
<1> HIDE DEF k
<1>7. 0 \in 0..Len(s) /\ \A n \in 1..Len(s) : n \in 0..Len(s) /\ n # 0
  BY <1>6
<1>8. k[0] = <<>> /\ \A n \in 1..Len(s) : k[n] = IF s[n] \in S THEN k[n - 1] ELSE Append(k[n - 1], s[n])
  BY <1>5, <1>7
<1> QED BY <1>8 DEF k

\* What is known of k, what is left of the first n elements of s.
Filtered(T, s, S, n, k) ==
    /\ k \in Seq(T) /\ Len(k) <= n
    /\ \A x \in T : (\E j \in 1..Len(k) : k[j] = x) <=> x \notin S /\ \E i \in 1..n : s[i] = x
    /\ IsInjective(s) => \A i, j \in 1..Len(k) : k[i] = k[j] => i = j
    /\ (\A i \in 1..n : s[i] \notin S) => Len(k) = n /\ \A i \in 1..n : k[i] = s[i]
    /\ (\E i \in 1..n : s[i] \in S) => Len(k) < n

\* Each step of a filter knows this of what it left so far.
LEMMA KeptFiltered ==
    ASSUME NEW T, NEW s \in Seq(T), NEW S
    PROVE  \A n \in 0..Len(s) : Filtered(T, s, S, n, Kept(s, S)[n])
<1> DEFINE k == Kept(s, S)
           G == {n \in Nat : n <= Len(s) => Filtered(T, s, S, n, k[n])}
<1>1. /\ k[0] = <<>>
      /\ \A n \in 1..Len(s) : k[n] = IF s[n] \in S THEN k[n - 1] ELSE Append(k[n - 1], s[n])
  BY KeptIs
<1>2. Len(s) \in Nat /\ \A i \in 1..Len(s) : s[i] \in T
  OBVIOUS
<1> HIDE DEF k
<1>3. 0 \in G
  <2> DEFINE e == k[0]
  <2>1. e = <<>> /\ e \in Seq(T) /\ Len(e) = 0
    BY <1>1
  <2> HIDE DEF e
  <2>2. \A i \in 1..0 : FALSE
    OBVIOUS
  <2>3. Filtered(T, s, S, 0, e)
    BY <2>1, <2>2 DEF Filtered
  <2> QED BY <2>3 DEF e
<1>4. ASSUME NEW m \in G PROVE m + 1 \in G
  <2>1. m \in Nat
    OBVIOUS
  <2> SUFFICES ASSUME m + 1 <= Len(s) PROVE Filtered(T, s, S, m + 1, k[m + 1])
    BY <2>1
  <2> DEFINE n == m + 1
             a == k[m]
             x == s[n]
  <2>2. n \in 1..Len(s) /\ n - 1 = m /\ Filtered(T, s, S, m, a) /\ x \in T
    BY <1>2, <2>1
  <2>3. k[n] = IF x \in S THEN a ELSE Append(a, x)
    <3>1. k[n] = IF s[n] \in S THEN k[n - 1] ELSE Append(k[n - 1], s[n])
      BY <1>1, <2>2
    <3> QED BY <2>2, <3>1
  <2>4. \A i \in 1..n : i \in 1..m \/ i = n
    BY <2>1
  <2>5. \A i \in 1..m : i \in 1..n
    BY <2>1
  <2>6. n \in 1..n /\ n \in DOMAIN s /\ \A i \in 1..m : i \in DOMAIN s /\ i # n
    BY <1>2, <2>1, <2>2
  <2>7. CASE x \in S
    <3>1. k[n] = a
      BY <2>3, <2>7
    <3>2. Len(a) \in Nat /\ Len(a) < n
      BY <2>1, <2>2 DEF Filtered
    <3>3. a \in Seq(T) /\ Len(a) <= n
      BY <2>1, <2>2 DEF Filtered
    <3> HIDE DEF n, a, x
    <3>4. \A y \in T : (\E j \in 1..Len(a) : a[j] = y) <=> y \notin S /\ \E i \in 1..n : s[i] = y
      BY <2>2, <2>4, <2>5, <2>6, <2>7 DEF Filtered, x
    <3>5. ~ \A i \in 1..n : s[i] \notin S
      BY <2>6, <2>7 DEF x
    <3>6. IsInjective(s) => \A i, j \in 1..Len(a) : a[i] = a[j] => i = j
      BY <2>2 DEF Filtered
    <3>7. Filtered(T, s, S, n, a)
      BY <3>2, <3>3, <3>4, <3>5, <3>6 DEF Filtered
    <3> QED BY <3>1, <3>7 DEF n
  <2>8. CASE x \notin S
    <3> DEFINE b == Append(a, x)
    <3>1. k[n] = b
      BY <2>3, <2>8
    <3>2. /\ b \in Seq(T) /\ Len(b) = Len(a) + 1 /\ Len(a) \in Nat /\ Len(a) <= m
          /\ \A i \in 1..Len(a) : b[i] = a[i]
          /\ b[Len(a) + 1] = x
      BY <2>2 DEF Filtered
    <3>3. \A i \in 1..Len(b) : i \in 1..Len(a) \/ i = Len(a) + 1
      BY <3>2
    <3>3a. Len(a) + 1 \in 1..Len(b) /\ \A i \in 1..Len(a) : i \in 1..Len(b)
      BY <3>2
    <3> HIDE DEF b, a, n, x
    <3>4. \A y \in T : (\E j \in 1..Len(b) : b[j] = y) <=> y = x \/ \E j \in 1..Len(a) : a[j] = y
      BY <3>2, <3>3, <3>3a
    <3>5. \A y \in T : (\E i \in 1..n : s[i] = y) <=> y = x \/ \E i \in 1..m : s[i] = y
      BY <2>4, <2>5, <2>6 DEF x
    <3>6. \A y \in T : (\E j \in 1..Len(b) : b[j] = y) <=> y \notin S /\ \E i \in 1..n : s[i] = y
      BY <2>2, <2>8, <3>4, <3>5 DEF Filtered
    <3>7. ASSUME IsInjective(s) PROVE \A i, j \in 1..Len(b) : b[i] = b[j] => i = j
      <4>1. \A i \in 1..m : s[i] # x
        BY <2>6, <3>7 DEF IsInjective, x
      <4>2. \A j \in 1..Len(a) : a[j] # x
        BY <2>2, <4>1, SMTT(30) DEF Filtered
      <4>3. \A i, j \in 1..Len(a) : a[i] = a[j] => i = j
        BY <2>2, <3>7 DEF Filtered
      <4> QED BY <3>2, <3>3, <4>2, <4>3
    <3>8. ASSUME \A i \in 1..n : s[i] \notin S
          PROVE  Len(b) = n /\ \A i \in 1..n : b[i] = s[i]
      <4>1. Len(a) = m /\ \A i \in 1..m : a[i] = s[i]
        BY <2>2, <2>5, <3>8 DEF Filtered
      <4> QED BY <2>1, <2>4, <3>2, <4>1 DEF x, n
    <3>9. Len(b) <= n
      BY <2>1, <3>2 DEF n
    <3>10. ASSUME \E i \in 1..n : s[i] \in S PROVE Len(b) < n
      <4>1. \E i \in 1..m : s[i] \in S
        BY <2>4, <2>8, <3>10 DEF x
      <4>2. Len(a) < m
        BY <2>2, <4>1 DEF Filtered
      <4> QED BY <2>1, <3>2, <4>2 DEF n
    <3> QED BY <3>1, <3>2, <3>6, <3>7, <3>8, <3>9, <3>10 DEF Filtered, n
  <2> QED BY <2>7, <2>8
<1>5. G \in SUBSET Nat
  OBVIOUS
<1> HIDE DEF G
<1>6. G = Nat
  BY <1>3, <1>4, <1>5, Induction
<1> QED BY <1>2, <1>6 DEF G, k

\* A filtered list has the elements that pass, each as often as before, and is
\* the list itself when all do.
LEMMA WithoutIs ==
    ASSUME NEW T, NEW s \in Seq(T), NEW S
    PROVE  /\ Without(s, S) \in Seq(T) /\ Len(Without(s, S)) <= Len(s)
           /\ Range(Without(s, S)) = Range(s) \ S
           /\ IsInjective(s) => IsInjective(Without(s, S))
           /\ Range(s) \cap S = {} => Without(s, S) = s
           /\ Range(s) \cap S # {} => Len(Without(s, S)) < Len(s)
<1> DEFINE w == Kept(s, S)[Len(s)]
<1>1. Len(s) \in Nat /\ DOMAIN s = 1..Len(s) /\ \A i \in 1..Len(s) : s[i] \in T
  OBVIOUS
<1>2. Filtered(T, s, S, Len(s), w)
  <2>1. Len(s) \in 0..Len(s)
    BY <1>1
  <2> QED BY <2>1, KeptFiltered
<1>3. Without(s, S) = w
  BY DEF Without
<1> HIDE DEF w
<1>4. w \in Seq(T) /\ Len(w) <= Len(s)
  BY <1>2 DEF Filtered
<1>5. DOMAIN w = 1..Len(w) /\ \A i \in 1..Len(w) : w[i] \in T
  BY <1>4
<1>6. Range(w) = Range(s) \ S
  <2>1. \A x \in T : (\E j \in 1..Len(w) : w[j] = x) <=> x \notin S /\ \E i \in 1..Len(s) : s[i] = x
    BY <1>2 DEF Filtered
  <2>2. Range(w) \subseteq T /\ \A x : x \in Range(w) <=> \E j \in 1..Len(w) : w[j] = x
    BY <1>5 DEF Range
  <2>3. Range(s) \subseteq T /\ \A x : x \in Range(s) <=> \E i \in 1..Len(s) : s[i] = x
    BY <1>1 DEF Range
  <2> QED BY <2>1, <2>2, <2>3
<1>7. IsInjective(s) => IsInjective(w)
  BY <1>2, <1>5 DEF Filtered, IsInjective
<1>8. ASSUME Range(s) \cap S = {} PROVE w = s
  <2>1. \A i \in 1..Len(s) : s[i] \notin S
    BY <1>1, <1>8 DEF Range
  <2>2. Len(w) = Len(s) /\ \A i \in 1..Len(s) : w[i] = s[i]
    BY <1>2, <2>1 DEF Filtered
  <2> QED BY <1>4, <2>2, SeqEqual
<1>9. ASSUME Range(s) \cap S # {} PROVE Len(w) < Len(s)
  <2>1. \E i \in 1..Len(s) : s[i] \in S
    BY <1>1, <1>9 DEF Range
  <2> QED BY <1>2, <2>1 DEF Filtered
<1> QED BY <1>3, <1>4, <1>6, <1>7, <1>8, <1>9
-----------------------------------------------------------------------------
\* A list with an element more at its end.
LEMMA AppendIs ==
    ASSUME NEW T, NEW s \in Seq(T), NEW e \in T
    PROVE  /\ Append(s, e) \in Seq(T) /\ Len(Append(s, e)) = Len(s) + 1
           /\ DOMAIN Append(s, e) = 1..Len(s) + 1
           /\ \A i \in DOMAIN s : Append(s, e)[i] = s[i]
           /\ Append(s, e)[Len(s) + 1] = e
           /\ Range(Append(s, e)) = Range(s) \cup {e}
           /\ IsInjective(s) /\ e \notin Range(s) => IsInjective(Append(s, e))
<1> DEFINE a == Append(s, e)
<1>1. /\ a \in Seq(T) /\ Len(a) = Len(s) + 1 /\ Len(s) \in Nat
      /\ \A i \in 1..Len(s) : a[i] = s[i]
      /\ a[Len(s) + 1] = e
      /\ DOMAIN a = 1..Len(s) + 1 /\ DOMAIN s = 1..Len(s)
  OBVIOUS
<1> HIDE DEF a
<1>2. \A i \in 1..Len(s) + 1 : i \in 1..Len(s) \/ i = Len(s) + 1
  BY <1>1
<1>3. Len(s) + 1 \in 1..Len(s) + 1 /\ \A i \in 1..Len(s) : i \in 1..Len(s) + 1
  BY <1>1
<1>4. Range(a) = Range(s) \cup {e}
  BY <1>1, <1>2, <1>3 DEF Range
<1>5. e \notin Range(s) => \A i \in 1..Len(s) : s[i] # e
  BY <1>1 DEF Range
<1>6. IsInjective(s) /\ e \notin Range(s) => IsInjective(a)
  BY <1>1, <1>2, <1>5 DEF IsInjective
<1> QED BY <1>1, <1>4, <1>6 DEF a

\* A list without its head.
LEMMA TailIs ==
    ASSUME NEW T, NEW s \in Seq(T), s # <<>>
    PROVE  /\ Head(s) \in T /\ Head(s) \in Range(s)
           /\ Tail(s) \in Seq(T) /\ Len(Tail(s)) = Len(s) - 1
           /\ Range(s) = Range(Tail(s)) \cup {Head(s)}
           /\ IsInjective(s) => IsInjective(Tail(s)) /\ Head(s) \notin Range(Tail(s))
<1> DEFINE t == Tail(s)
           h == Head(s)
<1>1. /\ t \in Seq(T) /\ Len(s) \in Nat /\ Len(s) > 0 /\ Len(t) = Len(s) - 1
      /\ h = s[1] /\ \A i \in 1..Len(t) : t[i] = s[i + 1]
      /\ DOMAIN s = 1..Len(s) /\ DOMAIN t = 1..Len(t)
  OBVIOUS
<1> HIDE DEF t, h
<1>2. /\ 1 \in 1..Len(s) /\ \A i \in 1..Len(t) : i + 1 \in 1..Len(s) /\ i + 1 # 1
      /\ \A i \in 1..Len(s) : i = 1 \/ (i - 1 \in 1..Len(t) /\ i = (i - 1) + 1)
      /\ \A i, j \in 1..Len(t) : i + 1 = j + 1 => i = j
  BY <1>1
<1>3. h \in Range(s) /\ h \in T
  BY <1>1, <1>2 DEF Range
<1>4. Range(s) \subseteq Range(t) \cup {h}
  <2>1. ASSUME NEW i \in 1..Len(s) PROVE s[i] \in Range(t) \cup {h}
    <3>1. CASE i = 1
      BY <1>1, <3>1
    <3>2. CASE i # 1
      <4>1. i - 1 \in 1..Len(t) /\ t[i - 1] = s[i]
        BY <1>1, <1>2, <3>2
      <4> QED BY <1>1, <4>1 DEF Range
    <3> QED BY <3>1, <3>2
  <2> QED BY <1>1, <2>1 DEF Range
<1>5. Range(t) \subseteq Range(s)
  <2>1. ASSUME NEW i \in 1..Len(t) PROVE t[i] \in Range(s)
    <3>1. i + 1 \in DOMAIN s /\ t[i] = s[i + 1]
      BY <1>1, <1>2
    <3> QED BY <3>1 DEF Range
  <2> QED BY <1>1, <2>1 DEF Range
<1>6. ASSUME IsInjective(s) PROVE IsInjective(t) /\ h \notin Range(t)
  <2>1. \A i, j \in 1..Len(s) : s[i] = s[j] => i = j
    BY <1>1, <1>6 DEF IsInjective
  <2>2. IsInjective(t)
    BY <1>1, <1>2, <2>1 DEF IsInjective
  <2>3. h \notin Range(t)
    BY <1>1, <1>2, <2>1 DEF Range
  <2> QED BY <2>2, <2>3
<1> QED BY <1>1, <1>3, <1>4, <1>5, <1>6 DEF t, h
=============================================================================

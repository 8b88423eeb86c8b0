---------------------------- MODULE Selection_proofs ----------------------------
(* The laws of Where, by induction over the length of the sequence.             *)
EXTENDS Selection, SequenceTheorems, WellFoundedInduction, TLAPS

-------------------------------------------------------------------------------
(* Induction over a set of numbers, and over a set of sequences                 *)

LEMMA LeastNumber ==
  ASSUME NEW P, P \subseteq Nat, P # {}
  PROVE  \E m \in P : \A k \in P : m <= k
<1>1. PICK x \in P : \A y \in P : ~ (<<y, x>> \in OpToRel(<, Nat))
  BY NatLessThanWellFounded, WFMin
<1>2. ASSUME NEW y \in P PROVE x <= y
  <2>1. ~ (y < x)
    BY <1>1 DEF OpToRel
  <2> QED
    BY <2>1
<1> QED
  BY <1>2

LEMMA Induction ==
  ASSUME NEW P, 0 \in P, \A n \in Nat \cap P : n + 1 \in P
  PROVE  Nat \subseteq P
<1> SUFFICES ASSUME Nat \ P # {} PROVE FALSE
  OBVIOUS
<1>1. PICK m \in Nat \ P : \A k \in Nat \ P : m <= k
  <2>1. Nat \ P \subseteq Nat
    OBVIOUS
  <2> QED
    BY <2>1, LeastNumber
<1>2. m # 0 /\ m - 1 \in Nat /\ m - 1 \in P
  BY <1>1
<1> QED
  BY <1>1, <1>2

LEMMA SequenceInduction ==
  ASSUME NEW T, NEW P, <<>> \in P,
         \A s \in Seq(T) : s \in P => \A e \in T : Append(s, e) \in P
  PROVE  Seq(T) \subseteq P
<1> DEFINE N == {n \in Nat : \A s \in Seq(T) : Len(s) = n => s \in P}
<1>1. 0 \in N
  BY EmptySeq
<1>2. ASSUME NEW n \in Nat \cap N PROVE n + 1 \in N
  <2> SUFFICES ASSUME NEW s \in Seq(T), Len(s) = n + 1 PROVE s \in P
    OBVIOUS
  <2>1. s # <<>>
    OBVIOUS
  <2>2. PICK t \in Seq(T), e \in T : s = Append(t, e)
    BY <2>1, SequenceEmptyOrAppend
  <2>3. Len(t) = n
    BY <2>2
  <2> QED
    BY <2>2, <2>3
<1> HIDE DEF N
<1>3. Nat \subseteq N
  BY <1>1, <1>2, Induction
<1> QED
  BY <1>3 DEF N

-------------------------------------------------------------------------------
(* The recursion of Where has a solution, and one only                          *)

Recursion(f, s, S, n) ==
  f = [m \in 0 .. n |->
        IF m = 0 THEN <<>>
        ELSE IF s[m] \in S THEN Append(f[m - 1], s[m]) ELSE f[m - 1]]

LEMMA RecursionSteps ==
  ASSUME NEW f, NEW s, NEW S, NEW n \in Nat, Recursion(f, s, S, n)
  PROVE  /\ f[0] = <<>>
         /\ \A m \in 1 .. n :
              f[m] = IF s[m] \in S THEN Append(f[m - 1], s[m]) ELSE f[m - 1]
<1> DEFINE h == [m \in 0 .. n |->
                  IF m = 0 THEN <<>>
                  ELSE IF s[m] \in S THEN Append(f[m - 1], s[m]) ELSE f[m - 1]]
<1>1. h[0] = <<>>
  OBVIOUS
<1>2. \A m \in 1 .. n : h[m] = IF s[m] \in S THEN Append(f[m - 1], s[m]) ELSE f[m - 1]
  OBVIOUS
<1>3. f = h
  BY DEF Recursion
<1> HIDE DEF h
<1> QED
  BY <1>1, <1>2, <1>3

LEMMA RecursionExists ==
  ASSUME NEW s, NEW S, NEW n \in Nat PROVE \E f : Recursion(f, s, S, n)
<1> DEFINE N == {k \in Nat : \E f : Recursion(f, s, S, k)}
<1>1. 0 \in N
  <2> DEFINE f == [m \in 0 .. 0 |-> <<>>]
  <2>1. Recursion(f, s, S, 0)
    BY DEF Recursion
  <2> QED
    BY <2>1
<1>2. ASSUME NEW k \in Nat \cap N PROVE k + 1 \in N
  <2>1. PICK f : Recursion(f, s, S, k)
    OBVIOUS
  <2> DEFINE last == IF s[k + 1] \in S THEN Append(f[k], s[k + 1]) ELSE f[k]
             g == [m \in 0 .. k + 1 |-> IF m = k + 1 THEN last ELSE f[m]]
  <2>2. \A m \in 0 .. k : g[m] = f[m]
    OBVIOUS
  <2>3. ASSUME NEW m \in 0 .. k + 1
        PROVE  g[m] = IF m = 0 THEN <<>>
                      ELSE IF s[m] \in S THEN Append(g[m - 1], s[m]) ELSE g[m - 1]
    <3>1. CASE m = k + 1
      <4>1. m - 1 = k /\ g[m] = last /\ g[k] = f[k] /\ m # 0
        BY <3>1, <2>2
      <4> QED
        BY <3>1, <4>1
    <3>2. CASE m \in 1 .. k
      <4>1. g[m] = f[m] /\ g[m - 1] = f[m - 1] /\ m # 0
        BY <3>2, <2>2
      <4>2. f[m] = IF s[m] \in S THEN Append(f[m - 1], s[m]) ELSE f[m - 1]
        BY <2>1, <3>2, RecursionSteps
      <4> QED
        BY <4>1, <4>2
    <3>3. CASE m = 0
      <4>1. g[0] = f[0]
        BY <2>2
      <4>2. f[0] = <<>>
        BY <2>1, RecursionSteps
      <4> QED
        BY <3>3, <4>1, <4>2
    <3> QED
      BY <3>1, <3>2, <3>3
  <2>4. g = [m \in 0 .. k + 1 |-> g[m]]
    OBVIOUS
  <2> HIDE DEF g
  <2>5. Recursion(g, s, S, k + 1)
    BY <2>3, <2>4 DEF Recursion
  <2> QED
    BY <2>5
<1> HIDE DEF N
<1>3. Nat \subseteq N
  BY <1>1, <1>2, Induction
<1> QED
  BY <1>3 DEF N

\* Solutions for two sequences agree as far as these do.
LEMMA RecursionUnique ==
  ASSUME NEW s, NEW t, NEW S, NEW n \in Nat, NEW k \in Nat, NEW f, NEW g,
         Recursion(f, s, S, n), Recursion(g, t, S, k), n <= k,
         \A m \in 1 .. n : s[m] = t[m]
  PROVE  \A m \in 0 .. n : f[m] = g[m]
<1> DEFINE N == {m \in Nat : m <= n => f[m] = g[m]}
<1>1. 0 \in N
  BY RecursionSteps
<1>2. ASSUME NEW m \in Nat \cap N PROVE m + 1 \in N
  <2> SUFFICES ASSUME m + 1 <= n PROVE f[m + 1] = g[m + 1]
    OBVIOUS
  <2>1. f[m] = g[m] /\ s[m + 1] = t[m + 1]
    OBVIOUS
  <2>2. f[m + 1] = IF s[m + 1] \in S THEN Append(f[m], s[m + 1]) ELSE f[m]
    BY RecursionSteps
  <2>3. g[m + 1] = IF t[m + 1] \in S THEN Append(g[m], t[m + 1]) ELSE g[m]
    BY RecursionSteps
  <2> QED
    BY <2>1, <2>2, <2>3
<1> HIDE DEF N
<1>3. Nat \subseteq N
  BY <1>1, <1>2, Induction
<1> QED
  BY <1>3 DEF N

LEMMA WhereIsSolution ==
  ASSUME NEW s, NEW S, Len(s) \in Nat
  PROVE  \E f : Recursion(f, s, S, Len(s)) /\ Where(s, S) = f[Len(s)]
<1> DEFINE kept == CHOOSE f : Recursion(f, s, S, Len(s))
<1>1. Recursion(kept, s, S, Len(s))
  BY RecursionExists
<1>2. Where(s, S) = kept[Len(s)]
  BY Zenon DEF Where, Recursion
<1> HIDE DEF kept
<1> QED
  BY <1>1, <1>2

-------------------------------------------------------------------------------
(* Laws                                                                         *)

LEMMA WhereEmpty == ASSUME NEW S PROVE Where(<<>>, S) = <<>>
<1>1. Len(<<>>) = 0
  OBVIOUS
<1>2. PICK f : Recursion(f, <<>>, S, 0) /\ Where(<<>>, S) = f[0]
  BY <1>1, WhereIsSolution
<1> QED
  BY <1>2, RecursionSteps

LEMMA WhereAppend ==
  ASSUME NEW T, NEW s \in Seq(T), NEW e \in T, NEW S
  PROVE  Where(Append(s, e), S) = IF e \in S THEN Append(Where(s, S), e) ELSE Where(s, S)
<1> DEFINE t == Append(s, e)
<1>1. /\ Len(s) \in Nat /\ Len(t) = Len(s) + 1 /\ t[Len(s) + 1] = e
      /\ \A m \in 1 .. Len(s) : s[m] = t[m]
  BY AppendProperties
<1> HIDE DEF t
<1>2. PICK f : Recursion(f, s, S, Len(s)) /\ Where(s, S) = f[Len(s)]
  BY <1>1, WhereIsSolution
<1>3. PICK g : Recursion(g, t, S, Len(t)) /\ Where(t, S) = g[Len(t)]
  BY <1>1, WhereIsSolution
<1>4. \A m \in 0 .. Len(s) : f[m] = g[m]
  <2>1. Len(t) \in Nat /\ Len(s) <= Len(t)
    BY <1>1
  <2>2. Recursion(g, t, S, Len(t)) /\ Recursion(f, s, S, Len(s))
    BY <1>2, <1>3
  <2>3. \A m \in 1 .. Len(s) : s[m] = t[m]
    BY <1>1
  <2>4. PICK a \in Nat, b \in Nat : a = Len(s) /\ b = Len(t)
    BY <1>1, <2>1
  <2>5. Recursion(g, t, S, b) /\ Recursion(f, s, S, a)
    BY <2>2, <2>4
  <2>6. a <= b /\ \A m \in 1 .. a : s[m] = t[m]
    BY <2>1, <2>3, <2>4
  <2>7. \A m \in 0 .. a : f[m] = g[m]
    BY <2>5, <2>6, RecursionUnique
  <2> QED
    BY <2>4, <2>7
<1>5. f[Len(s)] = g[Len(s)]
  BY <1>1, <1>4
<1>6. g[Len(s) + 1] = IF t[Len(s) + 1] \in S THEN Append(g[Len(s)], t[Len(s) + 1]) ELSE g[Len(s)]
  <2>1. Len(t) \in Nat /\ Len(s) + 1 \in 1 .. Len(t) /\ Len(s) + 1 - 1 = Len(s)
    BY <1>1
  <2> QED
    BY <1>3, <2>1, RecursionSteps
<1> QED
  BY <1>1, <1>2, <1>3, <1>5, <1>6 DEF t

\* Nothing but what is selected, and no more than there was.
LEMMA WhereType ==
  ASSUME NEW T, NEW s \in Seq(T), NEW S
  PROVE  /\ Where(s, S) \in Seq(T \cap S) /\ Len(Where(s, S)) <= Len(s)
         /\ Where(s, S) \in Seq(T) /\ Where(s, S) \in Seq(S)
<1> DEFINE P == {q \in Seq(T) : Where(q, S) \in Seq(T \cap S) /\ Len(Where(q, S)) <= Len(q)}
<1>1. <<>> \in P
  <2>1. <<>> \in Seq(T) /\ <<>> \in Seq(T \cap S) /\ Len(<<>>) = 0
    BY EmptySeq
  <2>2. PICK q : q = <<>>
    OBVIOUS
  <2>3. Where(q, S) = q
    BY <2>2, WhereEmpty
  <2>4. q \in Seq(T) /\ q \in Seq(T \cap S) /\ Len(q) = 0
    BY <2>1, <2>2
  <2>5. Where(q, S) \in Seq(T \cap S) /\ Len(Where(q, S)) = 0
    BY <2>3, <2>4, Zenon
  <2>6. q \in P
    BY <2>4, <2>5
  <2> QED
    BY <2>2, <2>6
<1>2. ASSUME NEW q \in Seq(T), q \in P, NEW e \in T PROVE Append(q, e) \in P
  <2>1. Where(Append(q, e), S) = IF e \in S THEN Append(Where(q, S), e) ELSE Where(q, S)
    BY WhereAppend
  <2>2. Append(q, e) \in Seq(T) /\ Len(Append(q, e)) = Len(q) + 1
    OBVIOUS
  <2>3. CASE e \in S
    <3>1. /\ Append(Where(q, S), e) \in Seq(T \cap S)
          /\ Len(Append(Where(q, S), e)) = Len(Where(q, S)) + 1
      BY <1>2, <2>3
    <3> QED
      BY <1>2, <2>1, <2>2, <2>3, <3>1
  <2>4. CASE e \notin S
    BY <1>2, <2>1, <2>2, <2>4
  <2> QED
    BY <2>3, <2>4
<1> HIDE DEF P
<1>3. Seq(T) \subseteq P
  BY <1>1, <1>2, SequenceInduction
<1>4. Where(s, S) \in Seq(T \cap S) /\ Len(Where(s, S)) <= Len(s)
  BY <1>3 DEF P
<1> QED
  BY <1>4, SeqMonotonic

\* What is to be selected, is.
LEMMA WhereHas ==
  ASSUME NEW T, NEW s \in Seq(T), NEW S, NEW k \in 1 .. Len(s), s[k] \in S
  PROVE  \E n \in 1 .. Len(Where(s, S)) : Where(s, S)[n] = s[k]
<1> DEFINE Has(q) == \A i \in 1 .. Len(q) : q[i] \in S =>
                       \E n \in 1 .. Len(Where(q, S)) : Where(q, S)[n] = q[i]
           P == {q \in Seq(T) : Has(q)}
<1>1. <<>> \in P
  BY EmptySeq
<1>2. ASSUME NEW q \in Seq(T), q \in P, NEW e \in T PROVE Append(q, e) \in P
  <2>1. PICK w \in Seq(T) : w = Where(q, S)
    BY WhereType
  <2>2. PICK t \in Seq(T) : t = Append(q, e)
    BY AppendProperties
  <2>3. Where(t, S) = IF e \in S THEN Append(w, e) ELSE w
    BY <2>1, <2>2, WhereAppend
  <2>4. /\ Len(q) \in Nat /\ Len(t) = Len(q) + 1 /\ t[Len(q) + 1] = e
        /\ \A i \in 1 .. Len(q) : t[i] = q[i]
    BY <2>2, AppendProperties, LenProperties
  <2>5. \A i \in 1 .. Len(q) : q[i] \in S => \E n \in 1 .. Len(w) : w[n] = q[i]
    BY <1>2, <2>1
  <2>6. ASSUME NEW i \in 1 .. Len(t), t[i] \in S
        PROVE  \E n \in 1 .. Len(Where(t, S)) : Where(t, S)[n] = t[i]
    <3>1. PICK v \in Seq(T) : v = Append(w, e)
      BY <2>1, AppendProperties
    <3>2. /\ Len(w) \in Nat /\ Len(v) = Len(w) + 1 /\ v[Len(w) + 1] = e
          /\ \A n \in 1 .. Len(w) : v[n] = w[n]
      BY <2>1, <3>1, AppendProperties, LenProperties
    <3>3. CASE i = Len(q) + 1
      <4>1. t[i] = e /\ e \in S
        BY <2>4, <2>6, <3>3
      <4>2. Where(t, S) = v
        BY <2>3, <3>1, <4>1
      <4>3. Len(w) + 1 \in 1 .. Len(v)
        BY <3>2
      <4> QED
        BY <3>2, <4>1, <4>2, <4>3
    <3>4. CASE i # Len(q) + 1
      <4>1. i \in 1 .. Len(q) /\ t[i] = q[i]
        BY <2>4, <3>4
      <4>2. PICK n \in 1 .. Len(w) : w[n] = q[i]
        BY <2>5, <2>6, <4>1
      <4>3. n \in 1 .. Len(v) /\ v[n] = w[n]
        BY <3>2
      <4>4. Where(t, S) = v \/ Where(t, S) = w
        BY <2>3, <3>1
      <4> QED
        BY <4>1, <4>2, <4>3, <4>4
    <3> QED
      BY <3>3, <3>4
  <2> QED
    BY <2>2, <2>6
<1> HIDE DEF P
<1>3. Seq(T) \subseteq P
  BY <1>1, <1>2, SequenceInduction
<1> QED
  BY <1>3 DEF P

\* The provers match a name more readily than a concatenation.
Joined(u, s, t) == u = s \o t

\* What is selected of two sequences, one after the other.
LEMMA WhereConcat ==
  ASSUME NEW T, NEW s \in Seq(T), NEW t \in Seq(T), NEW S,
         NEW u, Joined(u, s, t)
  PROVE  Joined(Where(u, S), Where(s, S), Where(t, S))
<1> DEFINE P == {q \in Seq(T) : Where(s \o q, S) = Where(s, S) \o Where(q, S)}
<1>1. <<>> \in P
  <2>1. PICK w \in Seq(T) : w = Where(s, S)
    BY WhereType
  <2>2. PICK q \in Seq(T) : q = <<>>
    BY EmptySeq
  <2>3. s \o q = s /\ w \o q = w
    BY <2>2, ConcatEmptySeq
  <2>4. Where(q, S) = q
    BY <2>2, WhereEmpty
  <2> QED
    BY <2>1, <2>2, <2>3, <2>4
<1>2. ASSUME NEW q \in Seq(T), q \in P, NEW e \in T PROVE Append(q, e) \in P
  <2>1. PICK w \in Seq(T), v \in Seq(T) : w = Where(s, S) /\ v = Where(q, S)
    BY WhereType
  <2>2. PICK x \in Seq(T) : x = s \o q
    BY ConcatProperties
  <2>3. Where(x, S) = w \o v
    BY <1>2, <2>1, <2>2
  <2>4. s \o Append(q, e) = Append(x, e)
    BY <2>2
  <2>5. Where(Append(x, e), S) = IF e \in S THEN Append(w \o v, e) ELSE w \o v
    BY <2>3, WhereAppend
  <2>6. Where(Append(q, e), S) = IF e \in S THEN Append(v, e) ELSE v
    BY <2>1, WhereAppend
  <2>7. Append(w \o v, e) = w \o Append(v, e)
    <3>1. PICK a \in Seq(T), b \in Seq(T), c \in Seq(T), d \in Seq(T) :
            a = w \o v /\ b = Append(v, e) /\ c = Append(a, e) /\ d = w \o b
      BY AppendProperties, ConcatProperties
    <3>2. PICK m \in Nat, n \in Nat : m = Len(w) /\ n = Len(v)
      BY LenProperties
    <3>3. /\ Len(b) = n + 1 /\ b[n + 1] = e /\ \A i \in 1 .. n : b[i] = v[i]
          /\ Len(a) = m + n /\ \A i \in 1 .. m + n : a[i] = IF i <= m THEN w[i] ELSE v[i - m]
      BY <3>1, <3>2
    <3>4. /\ Len(c) = m + n + 1 /\ c[m + n + 1] = e /\ \A i \in 1 .. m + n : c[i] = a[i]
      <4>1. /\ Len(Append(a, e)) = Len(a) + 1 /\ Append(a, e)[Len(a) + 1] = e
            /\ \A i \in 1 .. Len(a) : Append(a, e)[i] = a[i]
        BY AppendProperties
      <4>2. c = Append(a, e) /\ Len(a) = m + n
        BY <3>1, <3>3
      <4> QED
        BY <4>1, <4>2, Zenon
    <3>5. /\ Len(d) = m + (n + 1)
          /\ \A i \in 1 .. m + (n + 1) : d[i] = IF i <= m THEN w[i] ELSE b[i - m]
      <4>1. /\ Len(w \o b) = Len(w) + Len(b)
            /\ \A i \in 1 .. Len(w) + Len(b) :
                 (w \o b)[i] = IF i <= Len(w) THEN w[i] ELSE b[i - Len(w)]
        BY ConcatProperties
      <4>2. d = w \o b /\ Len(w) = m /\ Len(b) = n + 1
        BY <3>1, <3>2, <3>3
      <4> QED
        BY <4>1, <4>2, Zenon
    <3>6. ASSUME NEW i \in 1 .. m + n + 1 PROVE c[i] = d[i]
      <4>1. CASE i = m + n + 1
        BY <4>1, <3>3, <3>4, <3>5
      <4>2. CASE i # m + n + 1
        <5>1. i \in 1 .. m + n /\ i \in 1 .. m + (n + 1)
          BY <4>2
        <5>2. ~ (i <= m) => i - m \in 1 .. n
          BY <5>1
        <5> QED
          BY <5>1, <5>2, <3>3, <3>4, <3>5
      <4> QED
        BY <4>1, <4>2
    <3>7. Len(c) = Len(d) /\ \A i \in 1 .. Len(c) : c[i] = d[i]
      BY <3>4, <3>5, <3>6
    <3>8. c = d
      BY <3>7, SeqEqual
    <3> QED
      BY <3>1, <3>8
  <2>8. Append(q, e) \in Seq(T)
    OBVIOUS
  <2> QED
    BY <2>1, <2>4, <2>5, <2>6, <2>7, <2>8
<1> HIDE DEF P
<1>3. Seq(T) \subseteq P
  BY <1>1, <1>2, SequenceInduction
<1>4. Where(s \o t, S) = Where(s, S) \o Where(t, S)
  BY <1>3 DEF P
<1> QED
  BY <1>4, Zenon DEF Joined

\* Each element that is left has its place in the sequence, of which no other has it.
LEMMA WhereOf ==
  ASSUME NEW T, NEW s \in Seq(T), NEW S, NEW n \in 1 .. Len(Where(s, S))
  PROVE  \E k \in 1 .. Len(s) : s[k] = Where(s, S)[n]
<1> DEFINE P == {q \in Seq(T) : \A m \in 1 .. Len(Where(q, S)) :
                                  \E k \in 1 .. Len(q) : q[k] = Where(q, S)[m]}
<1>1. <<>> \in P
  BY WhereEmpty
<1>2. ASSUME NEW q \in Seq(T), q \in P, NEW e \in T PROVE Append(q, e) \in P
  <2> SUFFICES ASSUME NEW m \in 1 .. Len(Where(Append(q, e), S))
               PROVE  \E k \in 1 .. Len(Append(q, e)) : Append(q, e)[k] = Where(Append(q, e), S)[m]
    BY AppendProperties
  <2>1. Where(Append(q, e), S) = IF e \in S THEN Append(Where(q, S), e) ELSE Where(q, S)
    BY WhereAppend
  <2>2. Where(q, S) \in Seq(T)
    BY WhereType
  <2>3. CASE m \in 1 .. Len(Where(q, S))
    <3>1. PICK k \in 1 .. Len(q) : q[k] = Where(q, S)[m]
      BY <1>2, <2>3
    <3>2. Where(Append(q, e), S)[m] = Where(q, S)[m]
      BY <2>1, <2>2, <2>3
    <3> QED
      BY <3>1, <3>2
  <2>4. CASE m \notin 1 .. Len(Where(q, S))
    <3>1. Where(Append(q, e), S)[m] = e
      BY <2>1, <2>2, <2>4
    <3>2. Append(q, e)[Len(q) + 1] = e /\ Len(q) + 1 \in 1 .. Len(Append(q, e))
      OBVIOUS
    <3> QED
      BY <3>1, <3>2
  <2> QED
    BY <2>3, <2>4
<1> HIDE DEF P
<1>3. Seq(T) \subseteq P
  BY <1>1, <1>2, SequenceInduction
<1> QED
  BY <1>3 DEF P

\* Nothing is selected twice that is not there twice.
LEMMA WhereOnce ==
  ASSUME NEW T, NEW s \in Seq(T), NEW S,
         \A a, b \in 1 .. Len(s) : s[a] = s[b] => a = b
  PROVE  \A a, b \in 1 .. Len(Where(s, S)) : Where(s, S)[a] = Where(s, S)[b] => a = b
<1> DEFINE Once(q) == \A a, b \in 1 .. Len(q) : q[a] = q[b] => a = b
           P == {q \in Seq(T) : Once(q) => Once(Where(q, S))}
<1>1. <<>> \in P
  BY WhereEmpty
<1>2. ASSUME NEW q \in Seq(T), q \in P, NEW e \in T PROVE Append(q, e) \in P
  <2> SUFFICES ASSUME Once(Append(q, e)) PROVE Once(Where(Append(q, e), S))
    BY AppendProperties
  <2>1. Where(Append(q, e), S) = IF e \in S THEN Append(Where(q, S), e) ELSE Where(q, S)
    BY WhereAppend
  <2>2. PICK w \in Seq(T) : w = Where(q, S)
    BY WhereType
  <2>3. /\ Len(Append(q, e)) = Len(q) + 1 /\ Append(q, e)[Len(q) + 1] = e
        /\ \A i \in 1 .. Len(q) : Append(q, e)[i] = q[i]
    BY AppendProperties
  <2>4. Once(q) /\ \A i \in 1 .. Len(q) : q[i] # e
    BY <2>3, SMTT(30)
  <2>5. Once(w) /\ \A i \in 1 .. Len(w) : w[i] # e
    <3>1. Once(w)
      BY <1>2, <2>2, <2>4
    <3>2. ASSUME NEW i \in 1 .. Len(w) PROVE w[i] # e
      <4>1. PICK k \in 1 .. Len(q) : q[k] = w[i]
        BY <2>2, WhereOf
      <4> QED
        BY <4>1, <2>4
    <3> QED
      BY <3>1, <3>2
  <2>6. Once(Append(w, e))
    BY <2>5
  <2> QED
    BY <2>1, <2>2, <2>5, <2>6
<1> HIDE DEF P
<1>3. Seq(T) \subseteq P
  BY <1>1, <1>2, SequenceInduction
<1> QED
  BY <1>3 DEF P

-------------------------------------------------------------------------------
(* What is selected, by its positions                                           *)

Increasing(f, n) == \A a, b \in 1 .. n : a < b => f[a] < f[b]

\* f names the n positions of s whose elements are in S, in order.
Positions(f, n, s, S) ==
  /\ f \in [1 .. n -> 1 .. Len(s)] /\ Increasing(f, n)
  /\ \A k \in 1 .. Len(s) : s[k] \in S <=> \E j \in 1 .. n : f[j] = k

LEMMA WherePositions ==
  ASSUME NEW T, NEW s \in Seq(T), NEW S
  PROVE  \E f : Positions(f, Len(Where(s, S)), s, S)
<1> DEFINE P == {q \in Seq(T) : \E f : Positions(f, Len(Where(q, S)), q, S)}
<1>1. <<>> \in P
  <2>1. <<>> \in Seq(T) /\ Len(<<>>) = 0 /\ Where(<<>>, S) = <<>>
    BY EmptySeq, WhereEmpty
  <2>2. Positions([j \in 1 .. 0 |-> 0], 0, <<>>, S)
    BY <2>1 DEF Positions, Increasing
  <2> QED
    BY <2>1, <2>2
<1>2. ASSUME NEW q \in Seq(T), q \in P, NEW e \in T PROVE Append(q, e) \in P
  <2>1. Where(Append(q, e), S) = IF e \in S THEN Append(Where(q, S), e) ELSE Where(q, S)
    BY WhereAppend
  <2>2. PICK w \in Seq(T) : w = Where(q, S)
    BY WhereType
  <2>3. PICK f : Positions(f, Len(w), q, S)
    BY <1>2, <2>2
  <2>4. PICK n \in Nat : n = Len(w)
    BY LenProperties
  <2>5. PICK t \in Seq(T) : t = Append(q, e)
    BY AppendProperties
  <2>6. /\ Len(q) \in Nat /\ Len(t) = Len(q) + 1 /\ t[Len(q) + 1] = e
        /\ \A k \in 1 .. Len(q) : t[k] = q[k]
    BY <2>5, AppendProperties, LenProperties
  <2>7. /\ f \in [1 .. n -> 1 .. Len(q)] /\ \A a, b \in 1 .. n : a < b => f[a] < f[b]
        /\ \A k \in 1 .. Len(q) : q[k] \in S <=> \E j \in 1 .. n : f[j] = k
    BY <2>3, <2>4 DEF Positions, Increasing
  <2>8. CASE e \in S
    <3>1. PICK g : g = [j \in 1 .. n + 1 |-> IF j = n + 1 THEN Len(q) + 1 ELSE f[j]]
      OBVIOUS
    <3>2. g \in [1 .. n + 1 -> 1 .. Len(t)]
      BY <3>1, <2>6, <2>7
    <3>3. Increasing(g, n + 1)
      <4> SUFFICES ASSUME NEW a \in 1 .. n + 1, NEW b \in 1 .. n + 1, a < b PROVE g[a] < g[b]
        BY DEF Increasing
      <4>1. a \in 1 .. n /\ g[a] = f[a] /\ f[a] \in 1 .. Len(q)
        BY <3>1, <2>7
      <4>2. CASE b = n + 1
        BY <4>1, <4>2, <3>1, <2>6
      <4>3. CASE b # n + 1
        BY <4>1, <4>3, <3>1, <2>7
      <4> QED
        BY <4>2, <4>3
    <3>4. ASSUME NEW k \in 1 .. Len(t) PROVE t[k] \in S <=> \E j \in 1 .. n + 1 : g[j] = k
      <4>1. CASE k = Len(q) + 1
        <5>1. n + 1 \in 1 .. n + 1 /\ g[n + 1] = k
          BY <4>1, <3>1
        <5> QED
          BY <5>1, <4>1, <2>6, <2>8
      <4>2. CASE k # Len(q) + 1
        <5>1. k \in 1 .. Len(q)
          BY <4>2, <2>6
        <5>2. t[k] \in S <=> \E j \in 1 .. n : f[j] = k
          BY <5>1, <2>6, <2>7
        <5>3. \A j \in 1 .. n : j \in 1 .. n + 1 /\ g[j] = f[j]
          BY <3>1
        <5>4. \A j \in 1 .. n + 1 : g[j] = k => j \in 1 .. n
          BY <4>2, <3>1
        <5> QED
          BY <5>2, <5>3, <5>4
      <4> QED
        BY <4>1, <4>2
    <3>5. Len(Where(t, S)) = n + 1
      BY <2>1, <2>2, <2>4, <2>5, <2>8
    <3> QED
      BY <2>5, <3>2, <3>3, <3>4, <3>5 DEF Positions
  <2>9. CASE e \notin S
    <3>1. Len(Where(t, S)) = n
      BY <2>1, <2>2, <2>4, <2>5, <2>9
    <3>2. f \in [1 .. n -> 1 .. Len(t)]
      BY <2>6, <2>7
    <3>3. ASSUME NEW k \in 1 .. Len(t) PROVE t[k] \in S <=> \E j \in 1 .. n : f[j] = k
      <4>1. CASE k = Len(q) + 1
        <5>1. \A j \in 1 .. n : f[j] \in 1 .. Len(q)
          BY <2>7
        <5> QED
          BY <5>1, <4>1, <2>6, <2>9
      <4>2. CASE k # Len(q) + 1
        BY <4>2, <2>6, <2>7
      <4> QED
        BY <4>1, <4>2
    <3> QED
      BY <2>5, <2>7, <3>1, <3>2, <3>3 DEF Positions, Increasing
  <2> QED
    BY <2>8, <2>9
<1> HIDE DEF P
<1>3. Seq(T) \subseteq P
  BY <1>1, <1>2, SequenceInduction
<1> QED
  BY <1>3 DEF P

LEMMA WhereAt ==
  ASSUME NEW T, NEW s \in Seq(T), NEW S, NEW n \in Nat, NEW f, Positions(f, n, s, S)
  PROVE  Len(Where(s, S)) = n /\ \A j \in 1 .. n : Where(s, S)[j] = s[f[j]]
<1> DEFINE At(q, m, g) == Len(Where(q, S)) = m /\ \A j \in 1 .. m : Where(q, S)[j] = q[g[j]]
           P == {q \in Seq(T) : \A m \in Nat : \A g : Positions(g, m, q, S) => At(q, m, g)}
<1>1. <<>> \in P
  <2> SUFFICES ASSUME NEW m \in Nat, NEW g, Positions(g, m, <<>>, S) PROVE At(<<>>, m, g)
    BY EmptySeq
  <2>1. m = 0
    <3>1. \A j \in 1 .. m : g[j] \in 1 .. 0
      BY EmptySeq DEF Positions
    <3> QED
      BY <3>1
  <2> QED
    BY <2>1, WhereEmpty, EmptySeq
<1>2. ASSUME NEW q \in Seq(T), q \in P, NEW e \in T PROVE Append(q, e) \in P
  <2> SUFFICES ASSUME NEW m \in Nat, NEW g, Positions(g, m, Append(q, e), S)
               PROVE  At(Append(q, e), m, g)
    BY AppendProperties
  <2>1. Where(Append(q, e), S) = IF e \in S THEN Append(Where(q, S), e) ELSE Where(q, S)
    BY WhereAppend
  <2>2. PICK w \in Seq(T) : w = Where(q, S)
    BY WhereType
  <2>3. PICK t \in Seq(T) : t = Append(q, e)
    BY AppendProperties
  <2>4. /\ Len(q) \in Nat /\ Len(t) = Len(q) + 1 /\ t[Len(q) + 1] = e
        /\ \A k \in 1 .. Len(q) : t[k] = q[k]
    BY <2>3, AppendProperties, LenProperties
  <2>5. /\ g \in [1 .. m -> 1 .. Len(t)] /\ \A a, b \in 1 .. m : a < b => g[a] < g[b]
        /\ \A k \in 1 .. Len(t) : t[k] \in S <=> \E j \in 1 .. m : g[j] = k
    BY <2>3 DEF Positions, Increasing
  <2>6. Len(q) + 1 \in 1 .. Len(t)
    BY <2>4
  <2>7. CASE e \in S
    <3>1. PICK j \in 1 .. m : g[j] = Len(q) + 1
      BY <2>4, <2>5, <2>6, <2>7
    <3>2. j = m
      <4>1. m \in 1 .. m /\ g[m] <= Len(q) + 1 /\ g[m] \in Int
        BY <2>4, <2>5
      <4> QED
        BY <3>1, <4>1, <2>5
    <3>3. PICK h : h = [a \in 1 .. m - 1 |-> g[a]]
      OBVIOUS
    <3>4. m - 1 \in Nat
      OBVIOUS
    <3>5. ASSUME NEW a \in 1 .. m - 1 PROVE a \in 1 .. m /\ h[a] = g[a] /\ h[a] \in 1 .. Len(q)
      <4>1. a \in 1 .. m /\ a < m
        OBVIOUS
      <4>2. g[a] < Len(q) + 1 /\ g[a] \in 1 .. Len(t)
        BY <4>1, <3>1, <3>2, <2>5
      <4> QED
        BY <4>1, <4>2, <3>3, <2>4
    <3>6. h \in [1 .. m - 1 -> 1 .. Len(q)]
      BY <3>3, <3>5
    <3>7. Increasing(h, m - 1)
      BY <3>5, <2>5 DEF Increasing
    <3>8. ASSUME NEW k \in 1 .. Len(q) PROVE q[k] \in S <=> \E a \in 1 .. m - 1 : h[a] = k
      <4>1. k \in 1 .. Len(t) /\ t[k] = q[k] /\ k # Len(q) + 1
        BY <2>4
      <4>2. q[k] \in S <=> \E a \in 1 .. m : g[a] = k
        BY <4>1, <2>5
      <4>3. \A a \in 1 .. m : g[a] = k => a \in 1 .. m - 1
        BY <4>1, <3>1, <3>2
      <4> QED
        BY <4>2, <4>3, <3>5
    <3>9. Positions(h, m - 1, q, S)
      BY <3>6, <3>7, <3>8 DEF Positions
    <3>10. Len(w) = m - 1 /\ \A a \in 1 .. m - 1 : w[a] = q[h[a]]
      BY <3>4, <3>9, <1>2, <2>2
    <3>11. Where(t, S) = Append(w, e)
      BY <2>1, <2>2, <2>3, <2>7
    <3>12. ASSUME NEW a \in 1 .. m PROVE Append(w, e)[a] = t[g[a]]
      <4>1. CASE a = m
        BY <4>1, <3>1, <3>2, <3>10, <2>4
      <4>2. CASE a # m
        <5>1. a \in 1 .. m - 1
          BY <4>2
        <5>2. Append(w, e)[a] = w[a]
          BY <5>1, <3>10
        <5> QED
          BY <5>1, <5>2, <3>5, <3>10, <2>4
      <4> QED
        BY <4>1, <4>2
    <3>13. Len(Append(w, e)) = m
      BY <3>10
    <3> QED
      BY <2>3, <3>11, <3>12, <3>13
  <2>8. CASE e \notin S
    <3>1. ASSUME NEW a \in 1 .. m PROVE g[a] \in 1 .. Len(q)
      <4>1. g[a] \in 1 .. Len(t) /\ t[g[a]] \in S
        BY <2>5
      <4> QED
        BY <4>1, <2>4, <2>8
    <3>2. g \in [1 .. m -> 1 .. Len(q)]
      BY <2>5, <3>1
    <3>3. Positions(g, m, q, S)
      BY <3>2, <2>4, <2>5 DEF Positions, Increasing
    <3>4. Len(w) = m /\ \A a \in 1 .. m : w[a] = q[g[a]]
      BY <3>3, <1>2, <2>2
    <3> QED
      BY <2>1, <2>2, <2>3, <2>4, <2>8, <3>1, <3>4
  <2> QED
    BY <2>7, <2>8
<1> HIDE DEF P
<1>3. Seq(T) \subseteq P
  BY <1>1, <1>2, SequenceInduction
<1>4. s \in P
  BY <1>3
<1> QED
  BY <1>4 DEF P
================================================================================

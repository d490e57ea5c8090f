-------------------------------- MODULE Folding --------------------------------
(***************************************************************************)
(* Induction over numbers, and folds.  The library states both with        *)
(* operators as parameters.  Here induction is about a set of numbers, and *)
(* a fold is about the function its operator is on the values it meets;    *)
(* the trace of a fold, what it has reached after each element, is what    *)
(* induction runs over.                                                    *)
(***************************************************************************)
EXTENDS Integers, Sequences, SequenceTheorems, WellFoundedInduction, TLAPS

\* A value under a name that the provers do not open.
Is(x, y) == x = y

\* What SequencesExt's Max is, in whatever module it is instantiated.
Greatest(t) == CHOOSE x \in t : \A y \in t : x >= y

-----------------------------------------------------------------------------
(* Numbers.                                                                 *)

LEMMA LeastNumber ==
    ASSUME NEW T \in SUBSET Nat, T # {}
    PROVE  \E i \in T : \A j \in T : i <= j
  <1>1. PICK i \in T : \A j \in T : ~(<<j, i>> \in OpToRel(<, Nat))
    BY NatLessThanWellFounded, WFMin
  <1>2. ASSUME NEW j \in T PROVE i <= j
    <2>1. \A p \in Nat \X Nat : p[1] < p[2] => p \in OpToRel(<, Nat)
      BY DEF OpToRel
    <2> PICK p : Is(p, <<j, i>>)
      BY DEF Is
    <2>2. p \in Nat \X Nat /\ p[1] = j /\ p[2] = i
      BY DEF Is
    <2>3. p \notin OpToRel(<, Nat)
      BY <1>1 DEF Is
    <2>4. i \in Nat /\ j \in Nat /\ ~(j < i)
      BY <2>1, <2>2, <2>3
    <2> QED BY ONLY <2>4
  <1> QED BY <1>2

LEMMA Induction ==
    ASSUME NEW T, 0 \in T, \A n \in Nat : n \in T => n + 1 \in T
    PROVE  \A n \in Nat : n \in T
  <1> SUFFICES ASSUME Nat \ T # {} PROVE FALSE
    OBVIOUS
  <1>1. PICK i \in Nat \ T : \A j \in Nat \ T : i <= j
    BY LeastNumber
  <1>2. i # 0 /\ i - 1 \in Nat /\ ~(i <= i - 1)
    BY <1>1
  <1>3. i - 1 \in T
    BY <1>1, <1>2
  <1>4. (i - 1) + 1 = i
    BY <1>1
  <1> QED BY <1>1, <1>2, <1>3, <1>4

LEMMA Extremes ==
    ASSUME NEW n \in Nat, NEW S \in SUBSET (1 .. n), S # {}
    PROVE  /\ \E i \in S : \A j \in S : i <= j
           /\ \E i \in S : \A j \in S : i >= j
  <1>1. \E i \in S : \A j \in S : i <= j
    BY LeastNumber
  <1>2. \E i \in S : \A j \in S : i >= j
    <2> DEFINE T == {n - j : j \in S}
    <2>1. T \in SUBSET Nat /\ T # {}
      <3>1. \A j \in S : n - j \in Nat
        OBVIOUS
      <3> QED BY <3>1
    <2>2. PICK k \in T : \A l \in T : k <= l
      BY <2>1, LeastNumber
    <2>3. PICK i \in S : k = n - i
      OBVIOUS
    <2>4. ASSUME NEW j \in S PROVE i >= j
      <3>1. k <= n - j
        BY <2>2
      <3> QED BY <2>3, <3>1
    <2> QED BY <2>4
  <1> QED BY <1>1, <1>2

LEMMA GreatestIndex ==
    ASSUME NEW n \in Nat, NEW t \in SUBSET (1 .. n), t # {}
    PROVE  Greatest(t) \in t /\ \A j \in t : j <= Greatest(t)
  <1>1. \E i \in t : \A j \in t : i >= j
    BY Extremes
  <1>2. Greatest(t) \in t /\ \A j \in t : Greatest(t) >= j
    BY <1>1 DEF Greatest
  <1> QED BY <1>2

LEMMA FirstIndices ==
    ASSUME NEW n \in Nat
    PROVE  /\ 1 .. 0 = {} /\ 1 .. n + 1 # {} /\ Greatest(1 .. n + 1) = n + 1
           /\ (1 .. n + 1) \ {n + 1} = 1 .. n
  <1>1. /\ n + 1 \in 1 .. n + 1 /\ 1 .. n + 1 # {} /\ 1 .. 0 = {} /\ n + 1 \in Nat
        /\ \A j \in 1 .. n + 1 : j <= n + 1 /\ j \in Nat
    OBVIOUS
  <1>2. Greatest(1 .. n + 1) \in 1 .. n + 1 /\ n + 1 <= Greatest(1 .. n + 1)
    BY <1>1, GreatestIndex
  <1>3. Greatest(1 .. n + 1) = n + 1
    BY ONLY <1>1, <1>2
  <1>4. (1 .. n + 1) \ {n + 1} = 1 .. n
    OBVIOUS
  <1> QED BY <1>1, <1>3, <1>4

-----------------------------------------------------------------------------
(* Folds.                                                                   *)

\* One step of a fold over the indices in t, with its operator as a function.
Folds(g, b, F, s, t) ==
    g[t] = IF t = {} THEN b ELSE F[g[t \ {Greatest(t)}]][s[Greatest(t)]]

\* A fold has a value on each set of indices.
LEMMA FoldExists ==
    ASSUME NEW A, NEW B, NEW F \in [A -> [B -> A]], NEW b \in A, NEW s \in Seq(B)
    PROVE  \E g \in [SUBSET (1 .. Len(s)) -> A] : \A t \in SUBSET (1 .. Len(s)) : Folds(g, b, F, s, t)
  <1> DEFINE
        Has(n) == \E g \in [SUBSET (1 .. n) -> A] : \A t \in SUBSET (1 .. n) : Folds(g, b, F, s, t)
        T == {n \in Nat : n <= Len(s) => Has(n)}
  <1> HIDE DEF Has
  <1>1. Len(s) \in Nat /\ DOMAIN s = 1 .. Len(s) /\ \A i \in 1 .. Len(s) : s[i] \in B
    BY LenProperties, ElementOfSeq
  <1>2. 0 \in T
    <2> DEFINE g == [t \in SUBSET (1 .. 0) |-> b]
    <2>1. \A t \in SUBSET (1 .. 0) : t = {}
      BY FirstIndices
    <2>2. g \in [SUBSET (1 .. 0) -> A] /\ \A t \in SUBSET (1 .. 0) : Folds(g, b, F, s, t)
      BY <2>1 DEF Folds
    <2>3. Has(0)
      BY <2>2 DEF Has
    <2> QED BY <2>3
  <1>3. ASSUME NEW n \in Nat, n \in T PROVE n + 1 \in T
    <2> SUFFICES ASSUME n + 1 <= Len(s) PROVE Has(n + 1)
      OBVIOUS
    <2>1. n <= Len(s)
      BY <1>1
    <2> PICK g \in [SUBSET (1 .. n) -> A] : \A t \in SUBSET (1 .. n) : Folds(g, b, F, s, t)
      BY <1>3, <2>1 DEF Has
    <2> PICK h : Is(h, [t \in SUBSET (1 .. n + 1) |->
                          IF n + 1 \in t THEN F[g[t \ {n + 1}]][s[n + 1]] ELSE g[t]])
      BY DEF Is
    <2>2. ASSUME NEW t \in SUBSET (1 .. n + 1)
          PROVE  /\ t \ {n + 1} \in SUBSET (1 .. n) /\ t \ {n + 1} \in SUBSET (1 .. n + 1)
                 /\ n + 1 \notin t => t \in SUBSET (1 .. n)
                 /\ h[t] = IF n + 1 \in t THEN F[g[t \ {n + 1}]][s[n + 1]] ELSE g[t]
      BY <2>2 DEF Is
    <2>3. s[n + 1] \in B
      BY <1>1
    <2>4. h \in [SUBSET (1 .. n + 1) -> A]
      <3>1. ASSUME NEW t \in SUBSET (1 .. n + 1) PROVE h[t] \in A
        <4>1. CASE n + 1 \in t
          <5> PICK a, e : Is(a, g[t \ {n + 1}]) /\ Is(e, s[n + 1])
            BY DEF Is
          <5>1. a \in A /\ e \in B
            BY <2>2, <2>3 DEF Is
          <5>2. F[a][e] \in A
            BY ONLY <5>1, F \in [A -> [B -> A]]
          <5>3. h[t] = F[a][e]
            BY <2>2, <4>1 DEF Is
          <5> QED BY <5>2, <5>3
        <4>2. CASE n + 1 \notin t
          BY <2>2, <4>2
        <4> QED BY <4>1, <4>2
      <3>2. h = [t \in SUBSET (1 .. n + 1) |-> h[t]]
        BY DEF Is
      <3> QED BY ONLY <3>1, <3>2
    <2>5. ASSUME NEW t \in SUBSET (1 .. n + 1) PROVE Folds(h, b, F, s, t)
      <3>1. CASE n + 1 \in t
        <4>1. t # {} /\ Greatest(t) = n + 1
          <5>1. n + 1 \in Nat /\ t # {}
            BY <3>1
          <5>2. Greatest(t) \in t /\ n + 1 <= Greatest(t)
            BY <3>1, <5>1, GreatestIndex
          <5>3. Greatest(t) \in 1 .. n + 1
            BY <5>2
          <5> QED BY ONLY <5>1, <5>2, <5>3, n \in Nat
        <4>2. h[t \ {n + 1}] = g[t \ {n + 1}]
          BY <2>2
        <4> QED BY <2>2, <3>1, <4>1, <4>2, ZenonT(40) DEF Folds
      <3>2. CASE n + 1 \notin t
        <4>1. t \in SUBSET (1 .. n) /\ h[t] = g[t]
          BY <2>2, <3>2
        <4>2. CASE t = {}
          BY <4>1, <4>2 DEF Folds
        <4>3. CASE t # {}
          <5> PICK r : Is(r, t \ {Greatest(t)})
            BY DEF Is
          <5>1. r \in SUBSET (1 .. n) /\ r \in SUBSET (1 .. n + 1) /\ n + 1 \notin r
            BY <3>2, <4>1 DEF Is
          <5>2. h[r] = g[r]
            BY <2>2, <5>1
          <5> QED BY <4>1, <4>3, <5>2 DEF Folds, Is
        <4> QED BY <4>2, <4>3
      <3> QED BY <3>1, <3>2
    <2> QED BY <2>4, <2>5 DEF Has
  <1>4. \A n \in Nat : n \in T
    <2> HIDE DEF T
    <2> QED BY <1>2, <1>3, Induction
  <1>5. Has(Len(s))
    BY <1>1, <1>4
  <1> QED BY <1>5 DEF Has

\* What a fold over s has reached after each of its elements.
Traces(x, A, b, F, s) ==
    x \in [0 .. Len(s) -> A] /\ x[0] = b /\ \A k \in 1 .. Len(s) : x[k] = F[x[k - 1]][s[k]]

\* Two folds agree as long as their sequences do.
Agree(s, r, n) == /\ n \in Nat /\ Len(s) \in Nat /\ Len(r) \in Nat
                  /\ n <= Len(s) /\ n <= Len(r) /\ \A k \in 1 .. n : s[k] = r[k]

LEMMA TracesAgree ==
    ASSUME NEW A, NEW b, NEW F, NEW s, NEW r, NEW x, NEW y, NEW n,
           Traces(x, A, b, F, s), Traces(y, A, b, F, r), Agree(s, r, n)
    PROVE  x[n] = y[n]
  <1>0. /\ n \in Nat /\ Len(s) \in Nat /\ Len(r) \in Nat
        /\ n <= Len(s) /\ n <= Len(r) /\ \A k \in 1 .. n : s[k] = r[k]
    BY DEF Agree
  <1> DEFINE T == {k \in Nat : k <= n => x[k] = y[k]}
  <1>1. 0 \in T
    BY DEF Traces
  <1>2. ASSUME NEW k \in Nat, k \in T PROVE k + 1 \in T
    <2> SUFFICES ASSUME k + 1 <= n PROVE x[k + 1] = y[k + 1]
      OBVIOUS
    <2>1. /\ k + 1 \in 1 .. Len(s) /\ k + 1 \in 1 .. Len(r) /\ k + 1 \in 1 .. n
          /\ (k + 1) - 1 = k /\ k <= n
      BY <1>0
    <2>2. x[k] = y[k]
      BY <1>2, <2>1
    <2>3. s[k + 1] = r[k + 1]
      BY <1>0, <2>1
    <2>4. ASSUME NEW z, NEW q, Traces(z, A, b, F, q), k + 1 \in 1 .. Len(q)
          PROVE  z[k + 1] = F[z[k]][q[k + 1]]
      <3>1. z[k + 1] = F[z[(k + 1) - 1]][q[k + 1]]
        BY <2>4 DEF Traces
      <3> QED BY <2>1, <3>1
    <2>5. x[k + 1] = F[x[k]][s[k + 1]] /\ y[k + 1] = F[y[k]][r[k + 1]]
      BY <2>1, <2>4, Zenon
    <2> QED BY ONLY <2>2, <2>3, <2>5, Zenon
  <1>3. n \in T
    <2> HIDE DEF T
    <2> QED BY <1>0, <1>1, <1>2, Induction
  <1> QED BY <1>0, <1>3

\* One step of a fold whose operator is F where F is defined.
Stepped(g, A, b, F, s, t) ==
    /\ t = {} => g[t] = b
    /\ t # {} /\ g[t \ {Greatest(t)}] \in A
         => g[t] = F[g[t \ {Greatest(t)}]][s[Greatest(t)]]

Iterates(g, A, B, b, F, s) ==
    /\ F \in [A -> [B -> A]] /\ b \in A /\ s \in Seq(B)
    /\ \A t \in SUBSET (1 .. Len(s)) : Stepped(g, A, b, F, s, t)

\* What such a fold ends in.
EndsAt(r, A, b, F, s) == \E x : Traces(x, A, b, F, s) /\ x[Len(s)] = r

\* A fold is a trace.
LEMMA FoldTraces ==
    ASSUME NEW A, NEW B, NEW F, NEW b, NEW s, NEW g, Iterates(g, A, B, b, F, s)
    PROVE  EndsAt(g[1 .. Len(s)], A, b, F, s)
  <1>0. /\ F \in [A -> [B -> A]] /\ b \in A /\ s \in Seq(B)
        /\ \A t \in SUBSET (1 .. Len(s)) : Stepped(g, A, b, F, s, t)
    BY DEF Iterates
  <1> DEFINE x == [k \in 0 .. Len(s) |-> g[1 .. k]]
             T == {k \in Nat : k <= Len(s) => g[1 .. k] \in A}
  <1>1. Len(s) \in Nat /\ \A i \in 1 .. Len(s) : s[i] \in B
    BY <1>0, LenProperties, ElementOfSeq
  <1>2. g[1 .. 0] = b
    <2>1. 1 .. 0 = {} /\ 1 .. 0 \in SUBSET (1 .. Len(s))
      BY FirstIndices
    <2> QED BY <1>0, <2>1 DEF Stepped
  <1>3. ASSUME NEW k \in Nat, k + 1 <= Len(s), g[1 .. k] \in A
        PROVE  g[1 .. k + 1] = F[g[1 .. k]][s[k + 1]] /\ s[k + 1] \in B
    <2>1. 1 .. k + 1 \in SUBSET (1 .. Len(s)) /\ k + 1 \in 1 .. Len(s)
      BY <1>1, <1>3
    <2>2. /\ 1 .. k + 1 # {} /\ Greatest(1 .. k + 1) = k + 1
          /\ (1 .. k + 1) \ {k + 1} = 1 .. k
      BY FirstIndices
    <2> QED BY <1>0, <1>1, <1>3, <2>1, <2>2 DEF Stepped
  <1>4. ASSUME NEW k \in Nat, k \in T PROVE k + 1 \in T
    <2> SUFFICES ASSUME k + 1 <= Len(s) PROVE g[1 .. k + 1] \in A
      OBVIOUS
    <2>1. g[1 .. k] \in A
      BY <1>1, <1>4
    <2>2. g[1 .. k + 1] = F[g[1 .. k]][s[k + 1]] /\ s[k + 1] \in B
      BY <1>3, <2>1
    <2> QED BY <1>0, <2>1, <2>2
  <1>5. \A k \in Nat : k \in T
    <2>1. 0 \in T
      BY <1>0, <1>2
    <2> HIDE DEF T
    <2> QED BY <1>4, <2>1, Induction
  <1>6. \A k \in 0 .. Len(s) : g[1 .. k] \in A
    BY <1>1, <1>5
  <1>7. ASSUME NEW k \in 1 .. Len(s) PROVE x[k] = F[x[k - 1]][s[k]]
    <2>1. k - 1 \in Nat /\ (k - 1) + 1 = k /\ k <= Len(s) /\ k - 1 \in 0 .. Len(s) /\ k \in 0 .. Len(s)
      BY <1>1
    <2>2. g[1 .. k] = F[g[1 .. k - 1]][s[k]]
      BY <1>3, <1>6, <2>1
    <2> QED BY <2>1, <2>2
  <1>8. /\ x \in [0 .. Len(s) -> A] /\ x[0] = b /\ x[Len(s)] = g[1 .. Len(s)]
    BY <1>1, <1>2, <1>6
  <1>9. Traces(x, A, b, F, s)
    BY <1>7, <1>8 DEF Traces
  <1> QED BY <1>8, <1>9 DEF EndsAt

\* Every fold has a trace.
LEMMA TraceExists ==
    ASSUME NEW A, NEW B, NEW F \in [A -> [B -> A]], NEW b \in A, NEW s \in Seq(B)
    PROVE  \E x : Traces(x, A, b, F, s)
  <1> PICK g \in [SUBSET (1 .. Len(s)) -> A] :
         \A t \in SUBSET (1 .. Len(s)) : Folds(g, b, F, s, t)
    BY FoldExists
  <1>1. Iterates(g, A, B, b, F, s)
    BY DEF Iterates, Stepped, Folds
  <1> QED BY <1>1, FoldTraces DEF EndsAt

\* A fold over nothing is what it starts from, and one more element is one
\* more step.
LEMMA EndsEmpty ==
    ASSUME NEW A, NEW b, NEW F, NEW r, EndsAt(r, A, b, F, <<>>)
    PROVE  r = b
  <1>1. Len(<<>>) = 0
    OBVIOUS
  <1> QED BY <1>1 DEF EndsAt, Traces

LEMMA EndsMore ==
    ASSUME NEW A, NEW B, NEW b, NEW F, NEW s, NEW e, NEW u, NEW r, NEW q,
           s \in Seq(B), e \in B, Is(u, Append(s, e)),
           EndsAt(r, A, b, F, s), EndsAt(q, A, b, F, u)
    PROVE  r \in A /\ q = F[r][e]
  <1> PICK x : Traces(x, A, b, F, s) /\ x[Len(s)] = r
    BY DEF EndsAt
  <1> PICK y : Traces(y, A, b, F, u) /\ y[Len(u)] = q
    BY DEF EndsAt
  <1>1. /\ Len(s) \in Nat /\ Len(u) = Len(s) + 1 /\ u[Len(s) + 1] = e
        /\ \A k \in 1 .. Len(s) : u[k] = s[k]
    BY AppendProperties, LenProperties DEF Is
  <1>2. Agree(s, u, Len(s))
    BY <1>1 DEF Agree
  <1>3. x[Len(s)] = y[Len(s)]
    BY <1>2, TracesAgree
  <1>4. Len(s) \in 0 .. Len(s) /\ Len(s) + 1 \in 1 .. Len(u) /\ (Len(s) + 1) - 1 = Len(s)
    BY <1>1
  <1>5. x[Len(s)] \in A
    BY <1>4 DEF Traces
  <1>6. y[Len(s) + 1] = F[y[(Len(s) + 1) - 1]][u[Len(s) + 1]]
    BY <1>4 DEF Traces
  <1> QED BY <1>1, <1>3, <1>4, <1>5, <1>6
\* What appending an element does.
LEMMA Grown ==
    ASSUME NEW S, NEW s \in Seq(S), NEW e \in S, NEW u, u = Append(s, e)
    PROVE  /\ u \in Seq(S) /\ DOMAIN s = 1 .. Len(s) /\ DOMAIN u = 1 .. Len(s) + 1
           /\ Len(s) \in Nat /\ Len(u) = Len(s) + 1 /\ u[Len(s) + 1] = e
           /\ \A i \in 1 .. Len(s) : u[i] = s[i] /\ s[i] \in S /\ i \in 1 .. Len(s) + 1
           /\ \A i \in 1 .. Len(s) + 1 : i = Len(s) + 1 \/ i \in 1 .. Len(s)
           /\ Len(s) + 1 \notin 1 .. Len(s) /\ Len(s) + 1 \in 1 .. Len(s) + 1
  <1>1. /\ u \in Seq(S) /\ Len(u) = Len(s) + 1 /\ u[Len(s) + 1] = e
        /\ \A i \in 1 .. Len(s) : u[i] = s[i]
    BY AppendProperties
  <1>2. DOMAIN s = 1 .. Len(s) /\ DOMAIN u = 1 .. Len(u) /\ Len(s) \in Nat
    BY <1>1, LenProperties
  <1>3. \A n \in Nat : /\ \A i \in 1 .. n + 1 : i = n + 1 \/ i \in 1 .. n
                       /\ n + 1 \notin 1 .. n /\ n + 1 \in 1 .. n + 1
                       /\ \A i \in 1 .. n : i \in 1 .. n + 1
    OBVIOUS
  <1>4. \A i \in 1 .. Len(s) : s[i] \in S
    BY ElementOfSeq
  <1> QED BY ONLY <1>1, <1>2, <1>3, <1>4

\* P holds on of a number of elements and the value reached after them.
Preserves(P, A, F, s) ==
    \A k \in Nat, v \in A :
        k + 1 \in 1 .. Len(s) /\ <<k, v>> \in P => <<k + 1, F[v][s[k + 1]]>> \in P

\* What each step preserves is true of what the fold ends in.
LEMMA FoldInduction ==
    ASSUME NEW A, NEW B, NEW b, NEW F, NEW s, NEW r, NEW P, s \in Seq(B),
           EndsAt(r, A, b, F, s), <<0, b>> \in P, Preserves(P, A, F, s)
    PROVE  r \in A /\ <<Len(s), r>> \in P
  <1> PICK x : Traces(x, A, b, F, s) /\ x[Len(s)] = r
    BY DEF EndsAt
  <1>1. Len(s) \in Nat /\ \A i \in 1 .. Len(s) : s[i] \in B
    BY LenProperties, ElementOfSeq
  <1> DEFINE T == {k \in Nat : k <= Len(s) => <<k, x[k]>> \in P}
  <1>2. 0 \in T
    BY DEF Traces
  <1>3. ASSUME NEW k \in Nat, k \in T PROVE k + 1 \in T
    <2> SUFFICES ASSUME k + 1 <= Len(s) PROVE <<k + 1, x[k + 1]>> \in P
      OBVIOUS
    <2>1. /\ k < Len(s) /\ k <= Len(s) /\ k + 1 \in 1 .. Len(s) /\ (k + 1) - 1 = k
          /\ k \in 0 .. Len(s)
      BY <1>1
    <2>2. <<k, x[k]>> \in P
      BY <1>3, <2>1
    <2>3. x[k] \in A
      BY <2>1 DEF Traces
    <2>4. x[k + 1] = F[x[(k + 1) - 1]][s[k + 1]]
      BY <2>1 DEF Traces
    <2> PICK v : Is(v, x[k])
      BY DEF Is
    <2>6. <<k + 1, F[v][s[k + 1]]>> \in P
      BY <2>1, <2>2, <2>3 DEF Is, Preserves
    <2> QED BY <2>1, <2>4, <2>6 DEF Is
  <1>4. \A k \in Nat : k \in T
    <2> HIDE DEF T
    <2> QED BY <1>2, <1>3, Induction
  <1>5. Len(s) \in 0 .. Len(s) /\ Len(s) <= Len(s)
    BY <1>1
  <1>6. r \in A
    BY <1>5 DEF Traces
  <1> QED BY <1>1, <1>4, <1>5, <1>6

=============================================================================

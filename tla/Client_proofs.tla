----------------------------- MODULE Client_proofs -----------------------------
(***************************************************************************)
(* Proofs about the terminal client, whatever the sizes, capacities and    *)
(* settings: output leaves a reader where they are, and the wheel does     *)
(* what its notches do (TranscriptView); the cached heights are right, a   *)
(* child is shown once and an answer stands whole (TranscriptRows); a      *)
(* recalled prompt is the recorded one and the draft comes back            *)
(* (PromptEditor); what the client shows of the session and of the file    *)
(* comes to rest on what they are (ClientStatus).  A step of one part      *)
(* leaves the others alone, so each invariant is that of one part.         *)
(***************************************************************************)
EXTENDS MCClient, Folding, SequenceTheorems, TLAPS

-----------------------------------------------------------------------------
(* What a channel still holds of one kind.                                  *)

\* No element of the sequence is in K.
Silent(s, K) == \A i \in DOMAIN s : s[i] \notin K

\* The last element of K that the sequence holds is in V.
EndsIn(s, K, V) ==
    \A i \in DOMAIN s :
        s[i] \in K /\ (\A j \in DOMAIN s : s[j] \in K => j <= i) => s[i] \in V

LEMMA ChannelGrows ==
    ASSUME NEW S, NEW s \in Seq(S), NEW t \in Seq(S), NEW K, NEW V
    PROVE  /\ s \o t \in Seq(S)
           /\ Silent(s \o t, K) <=> Silent(s, K) /\ Silent(t, K)
           /\ EndsIn(s, K, V) /\ Silent(t, K) => EndsIn(s \o t, K, V)
           /\ EndsIn(t, K, V) /\ ~Silent(t, K) => EndsIn(s \o t, K, V)
  <1> PICK u : Is(u, s \o t)
    BY DEF Is
  <1>1. /\ u \in Seq(S)
        /\ DOMAIN s = 1 .. Len(s) /\ DOMAIN t = 1 .. Len(t) /\ Len(s) \in Nat /\ Len(t) \in Nat
        /\ DOMAIN u = 1 .. Len(s) + Len(t)
        /\ \A i \in 1 .. Len(s) + Len(t) : u[i] = IF i <= Len(s) THEN s[i] ELSE t[i - Len(s)]
    BY ONLY s \in Seq(S), t \in Seq(S), Is(u, s \o t), ConcatProperties, LenProperties DEF Is
  <1>2. \A i \in DOMAIN s : i \in DOMAIN u /\ u[i] = s[i]
    BY ONLY <1>1
  <1>3. \A i \in DOMAIN t : Len(s) + i \in DOMAIN u /\ u[Len(s) + i] = t[i]
    BY ONLY <1>1
  <1>4. \A i \in DOMAIN u : i \in DOMAIN s \/ \E j \in DOMAIN t : i = Len(s) + j
    <2> SUFFICES ASSUME NEW i \in DOMAIN u, i \notin DOMAIN s
                 PROVE  i - Len(s) \in DOMAIN t /\ i = Len(s) + (i - Len(s))
      OBVIOUS
    <2> QED BY ONLY <1>1, i \in DOMAIN u, i \notin DOMAIN s
  <1>5. Silent(u, K) <=> Silent(s, K) /\ Silent(t, K)
    BY ONLY <1>2, <1>3, <1>4 DEF Silent
  <1>6. ASSUME EndsIn(s, K, V), Silent(t, K) PROVE EndsIn(u, K, V)
    <2> SUFFICES ASSUME NEW i \in DOMAIN u, u[i] \in K, \A j \in DOMAIN u : u[j] \in K => j <= i
                 PROVE  u[i] \in V
      BY DEF EndsIn
    <2>1. i \in DOMAIN s
      BY <1>3, <1>4, <1>6 DEF Silent
    <2> QED BY <1>2, <1>6, <2>1 DEF EndsIn
  <1>7. ASSUME EndsIn(t, K, V), ~Silent(t, K) PROVE EndsIn(u, K, V)
    <2> SUFFICES ASSUME NEW i \in DOMAIN u, u[i] \in K, \A j \in DOMAIN u : u[j] \in K => j <= i
                 PROVE  u[i] \in V
      BY DEF EndsIn
    <2> PICK k \in DOMAIN t : t[k] \in K
      BY <1>7 DEF Silent
    <2>1. Len(s) + k <= i
      BY <1>3
    <2> PICK j \in DOMAIN t : i = Len(s) + j
      <3>1. i \notin DOMAIN s
        BY ONLY <1>1, <2>1, k \in DOMAIN t
      <3> QED BY <1>4, <3>1
    <2>2. t[j] = u[i] /\ \A m \in DOMAIN t : t[m] \in K => m <= j
      <3> SUFFICES ASSUME NEW m \in DOMAIN t, t[m] \in K PROVE m <= j
        BY <1>3
      <3>1. Len(s) + m <= Len(s) + j
        BY <1>3
      <3> QED BY ONLY <1>1, <3>1, m \in DOMAIN t, j \in DOMAIN t
    <2> QED BY <1>7, <2>2 DEF EndsIn
  <1> QED BY <1>1, <1>5, <1>6, <1>7 DEF Is

LEMMA ChannelShrinks ==
    ASSUME NEW S, NEW s \in Seq(S), s # <<>>, NEW K, NEW V
    PROVE  /\ Tail(s) \in Seq(S) /\ Head(s) \in S
           /\ Silent(s, K) <=> Silent(Tail(s), K) /\ Head(s) \notin K
           /\ EndsIn(s, K, V) => EndsIn(Tail(s), K, V)
           /\ EndsIn(s, K, V) /\ Silent(Tail(s), K) /\ Head(s) \in K => Head(s) \in V
  <1> PICK t, h : Is(t, Tail(s)) /\ Is(h, Head(s))
    BY DEF Is
  <1>1. /\ t \in Seq(S) /\ h \in S /\ h = s[1]
        /\ DOMAIN s = 1 .. Len(s) /\ Len(s) \in Nat /\ Len(s) # 0
        /\ DOMAIN t = 1 .. Len(s) - 1
        /\ \A i \in 1 .. Len(s) - 1 : t[i] = s[i + 1]
    BY ONLY s \in Seq(S), s # <<>>, Is(t, Tail(s)), Is(h, Head(s)), HeadTailProperties,
            LenProperties, EmptySeq DEF Is
  <1>2. 1 \in DOMAIN s /\ s[1] = h
    BY ONLY <1>1
  <1>3. \A i \in DOMAIN t : i + 1 \in DOMAIN s /\ s[i + 1] = t[i]
    BY ONLY <1>1
  <1>4. \A i \in DOMAIN s : i = 1 \/ \E j \in DOMAIN t : i = j + 1
    <2> SUFFICES ASSUME NEW i \in DOMAIN s, i # 1
                 PROVE  i - 1 \in DOMAIN t /\ i = (i - 1) + 1
      OBVIOUS
    <2> QED BY ONLY <1>1, i \in DOMAIN s, i # 1
  <1>5. Silent(s, K) <=> Silent(t, K) /\ h \notin K
    BY ONLY <1>2, <1>3, <1>4 DEF Silent
  <1>6. ASSUME EndsIn(s, K, V) PROVE EndsIn(t, K, V)
    <2> SUFFICES ASSUME NEW i \in DOMAIN t, t[i] \in K, \A j \in DOMAIN t : t[j] \in K => j <= i
                 PROVE  t[i] \in V
      BY DEF EndsIn
    <2>1. ASSUME NEW k \in DOMAIN s, s[k] \in K PROVE k <= i + 1
      <3>1. CASE k = 1
        BY ONLY <1>1, <3>1, i \in DOMAIN t
      <3>2. CASE k # 1
        <4> PICK j \in DOMAIN t : k = j + 1
          BY <1>4, <3>2
        <4>1. j <= i
          BY <1>3, <2>1
        <4> QED BY ONLY <1>1, <4>1, i \in DOMAIN t, j \in DOMAIN t, k = j + 1
      <3> QED BY <3>1, <3>2
    <2> QED BY <1>3, <1>6, <2>1 DEF EndsIn
  <1>7. ASSUME EndsIn(s, K, V), Silent(t, K), h \in K PROVE h \in V
    <2>1. \A k \in DOMAIN s : s[k] \in K => k <= 1
      BY <1>3, <1>4, <1>7 DEF Silent
    <2> QED BY <1>2, <1>7, <2>1 DEF EndsIn
  <1> QED BY <1>1, <1>5, <1>6, <1>7 DEF Is

LEMMA OneMessage ==
    ASSUME NEW S, NEW e \in S, NEW K, NEW V
    PROVE  /\ <<e>> \in Seq(S) /\ (Silent(<<e>>, K) <=> e \notin K)
           /\ e \in V => EndsIn(<<e>>, K, V)
  <1> PICK s : Is(s, <<e>>)
    BY DEF Is
  <1>1. s \in Seq(S) /\ DOMAIN s = 1 .. 1 /\ s[1] = e
    BY ONLY e \in S, Is(s, <<e>>) DEF Is
  <1>2. (Silent(s, K) <=> e \notin K) /\ (e \in V => EndsIn(s, K, V))
    BY ONLY <1>1 DEF Silent, EndsIn
  <1> QED BY ONLY <1>1, <1>2, Is(s, <<e>>) DEF Is

LEMMA NoMessage ==
    ASSUME NEW S, NEW K, NEW V
    PROVE  <<>> \in Seq(S) /\ Silent(<<>>, K) /\ EndsIn(<<>>, K, V)
  <1>1. <<>> \in Seq(S) /\ DOMAIN <<>> = 1 .. 0
    BY EmptySeq, LenProperties
  <1> QED BY <1>1 DEF Silent, EndsIn

LEMMA AppendedMessage ==
    ASSUME NEW S, NEW s \in Seq(S), NEW e \in S
    PROVE  Append(s, e) = s \o <<e>> /\ <<e>> \in Seq(S)
  <1>1. <<e>> \in Seq(S)
    OBVIOUS
  <1> QED BY <1>1, AppendIsConcat

-----------------------------------------------------------------------------
(* The viewport.                                                            *)

LEMMA SameGreatest ==
    ASSUME NEW t
    PROVE  View!Max(t) = Greatest(t) /\ Rows!Max(t) = Greatest(t)
  BY DEF View!Max, Rows!Max, Greatest

\* A viewport is not past the bottom it knows, and at it when it follows.
Viewport ==
    {v \in [offset : Nat, max : Nat, follow : BOOLEAN] :
        v.offset <= v.max /\ (v.follow => v.offset = v.max)}

\* The selection of a pane is an item, inside the window.
Pane ==
    {l \in [len : Nat, sel : Nat, offset : Nat] :
        l.len > 0 => /\ l.sel < l.len /\ l.offset <= l.sel /\ l.sel < l.offset + Window
                     /\ l.offset <= View!AtLeast(l.len - Window, 0)}

ViewInv == rows \in Nat /\ view \in Viewport /\ list \in Pane

LEMMA Bounded ==
    /\ \A x \in Int, m \in Nat : /\ View!AtMost(View!AtLeast(x, 0), m) \in Nat
                               /\ View!AtMost(View!AtLeast(x, 0), m) <= m
    /\ \A x, m \in Nat : View!AtMost(x, m) \in Nat
    /\ \A n \in Nat : View!MaxTop(n) \in Nat
  BY ClientAssumption DEF View!AtMost, View!AtLeast, View!MaxTop

LEMMA ScrolledView ==
    ASSUME NEW v \in Viewport, NEW d \in Int
    PROVE  View!Scrolled(v, d) \in Viewport
  <1>1. v.offset \in Nat /\ v.max \in Nat
    BY DEF Viewport
  <1> PICK from, to : /\ Is(from, IF v.follow THEN v.max ELSE v.offset)
                      /\ Is(to, View!AtMost(View!AtLeast(from + d, 0), v.max))
    BY DEF Is
  <1>2. from + d \in Int
    BY <1>1 DEF Is
  <1>3. to \in Nat /\ to <= v.max
    BY <1>1, <1>2, Bounded DEF Is
  <1>4. View!Moved(v, d) = [v EXCEPT !.offset = to, !.follow = to >= v.max]
    BY DEF View!Moved, Is
  <1>5. View!Moved(v, d) \in Viewport
    <2>1. CASE to >= v.max
      <3>1. (to >= v.max) = TRUE
        BY <2>1
      <3>2. View!Moved(v, d) = [v EXCEPT !.offset = to, !.follow = TRUE]
        BY ONLY <1>4, <3>1
      <3>3. to = v.max
        BY ONLY <1>1, <1>3, <2>1
      <3> QED BY ONLY <1>3, <3>2, <3>3, v \in Viewport DEF Viewport
    <2>2. CASE ~(to >= v.max)
      <3>1. (to >= v.max) = FALSE
        BY <2>2
      <3>2. View!Moved(v, d) = [v EXCEPT !.offset = to, !.follow = FALSE]
        BY ONLY <1>4, <3>1
      <3> QED BY ONLY <1>3, <3>2, v \in Viewport DEF Viewport
    <2> QED BY <2>1, <2>2
  <1> QED BY <1>5 DEF View!Scrolled

LEMMA RunsStay ==
    ASSUME NEW r \in Seq(Int), NEW d \in Int
    PROVE  /\ View!WithNotch(r, d) \in Seq(Int)
           /\ \/ View!WithNotch(r, d) = Append(r, d)
              \/ \E f \in Seq(Int), e \in Int :
                    /\ r = Append(f, e) /\ View!SameDirection(e, d)
                    /\ View!WithNotch(r, d) = Append(f, e + d)
  <1>1. CASE r # <<>> /\ View!SameDirection(View!Last(r), d)
    <2> PICK f, e : Is(f, View!Front(r)) /\ Is(e, View!Last(r))
      BY DEF Is
    <2>1. f \in Seq(Int) /\ e \in Int /\ r = Append(f, e)
      BY <1>1 DEF Is, View!Front, View!Last
    <2>2. View!WithNotch(r, d) = Append(f, e + d)
      BY <1>1 DEF Is, View!WithNotch
    <2>3. e + d \in Int /\ View!SameDirection(e, d)
      BY <1>1, <2>1 DEF Is
    <2> QED BY <2>1, <2>2, <2>3, AppendProperties, SMTT(30)
  <1>2. CASE ~(r # <<>> /\ View!SameDirection(View!Last(r), d))
    BY <1>2 DEF View!WithNotch
  <1> QED BY <1>1, <1>2

\* The step of ScrolledBy.
Scrolls == [v \in Viewport |-> [d \in Int |-> View!Scrolled(v, d)]]

LEMMA ScrollTrace ==
    ASSUME NEW v \in Viewport, NEW s \in Seq(Int)
    PROVE  EndsAt(View!ScrolledBy(v, s), Viewport, v, Scrolls, s)
  <1>1. Scrolls \in [Viewport -> [Int -> Viewport]]
    BY ScrolledView DEF Scrolls
  <1>2. Len(s) \in Nat /\ DOMAIN s = 1 .. Len(s) /\ \A i \in 1 .. Len(s) : s[i] \in Int
    BY LenProperties, ElementOfSeq
  <1>3. \A t \in SUBSET (1 .. Len(s)) : t # {} => s[Greatest(t)] \in Int
    BY <1>2, GreatestIndex
  <1> DEFINE
        Step(g, t) == IF t = {} THEN v ELSE View!Scrolled(g[t \ {View!Max(t)}], s[View!Max(t)])
        iter == CHOOSE g : g = [t \in SUBSET (1 .. Len(s)) |-> Step(g, t)]
  <1>4. View!ScrolledBy(v, s) = iter[1 .. Len(s)]
    BY <1>2 DEF View!ScrolledBy, View!FoldLeft, View!MapThenFoldSet
  <1>5. v \in Viewport
    OBVIOUS
  <1> PICK g \in [SUBSET (1 .. Len(s)) -> Viewport] :
         \A t \in SUBSET (1 .. Len(s)) : Folds(g, v, Scrolls, s, t)
    BY <1>1, <1>5, FoldExists
  <1>6. \A r \in Viewport, d \in Int : Scrolls[r][d] = View!Scrolled(r, d)
    BY DEF Scrolls
  <1>7. ASSUME NEW t \in SUBSET (1 .. Len(s)) PROVE g[t] = Step(g, t)
    <2>1. t # {} => g[t \ {Greatest(t)}] \in Viewport
      OBVIOUS
    <2> QED BY <1>3, <1>6, <2>1, SameGreatest DEF Folds
  <1>8. g = [t \in SUBSET (1 .. Len(s)) |-> Step(g, t)]
    BY <1>7
  <1>9. iter = [t \in SUBSET (1 .. Len(s)) |-> Step(iter, t)]
    BY <1>8
  <1> HIDE DEF iter
  <1>10. ASSUME NEW t \in SUBSET (1 .. Len(s))
         PROVE  Stepped(iter, Viewport, v, Scrolls, s, t)
    <2>1. iter[t] = Step(iter, t)
      BY ONLY <1>9, t \in SUBSET (1 .. Len(s))
    <2> QED BY <1>3, <1>6, <2>1, SameGreatest DEF Stepped
  <1>11. EndsAt(iter[1 .. Len(s)], Viewport, v, Scrolls, s)
    <2>1. Iterates(iter, Viewport, Int, v, Scrolls, s)
      BY <1>1, <1>5, <1>10 DEF Iterates
    <2> QED BY <2>1, FoldTraces
  <1> QED BY <1>4, <1>11

\* The step of Squashed.
Runs == [r \in Seq(Int) |-> [d \in Int |-> View!WithNotch(r, d)]]

LEMMA RunTrace ==
    ASSUME NEW s \in Seq(Int)
    PROVE  EndsAt(View!FoldLeft(View!WithNotch, <<>>, s), Seq(Int), <<>>, Runs, s)
  <1>1. Runs \in [Seq(Int) -> [Int -> Seq(Int)]]
    BY RunsStay DEF Runs
  <1>2. Len(s) \in Nat /\ DOMAIN s = 1 .. Len(s) /\ \A i \in 1 .. Len(s) : s[i] \in Int
    BY LenProperties, ElementOfSeq
  <1>3. \A t \in SUBSET (1 .. Len(s)) : t # {} => s[Greatest(t)] \in Int
    BY <1>2, GreatestIndex
  <1> DEFINE
        Step(g, t) == IF t = {} THEN <<>> ELSE View!WithNotch(g[t \ {View!Max(t)}], s[View!Max(t)])
        iter == CHOOSE g : g = [t \in SUBSET (1 .. Len(s)) |-> Step(g, t)]
  <1>4. View!FoldLeft(View!WithNotch, <<>>, s) = iter[1 .. Len(s)]
    BY <1>2 DEF View!Squashed, View!FoldLeft, View!MapThenFoldSet
  <1>5. <<>> \in Seq(Int)
    OBVIOUS
  <1> PICK g \in [SUBSET (1 .. Len(s)) -> Seq(Int)] :
         \A t \in SUBSET (1 .. Len(s)) : Folds(g, <<>>, Runs, s, t)
    BY <1>1, <1>5, FoldExists
  <1>6. \A r \in Seq(Int), d \in Int : Runs[r][d] = View!WithNotch(r, d)
    BY DEF Runs
  <1>7. ASSUME NEW t \in SUBSET (1 .. Len(s)) PROVE g[t] = Step(g, t)
    <2>1. t # {} => g[t \ {Greatest(t)}] \in Seq(Int)
      OBVIOUS
    <2> QED BY <1>3, <1>6, <2>1, SameGreatest DEF Folds
  <1>8. g = [t \in SUBSET (1 .. Len(s)) |-> Step(g, t)]
    BY <1>7
  <1>9. iter = [t \in SUBSET (1 .. Len(s)) |-> Step(iter, t)]
    BY <1>8
  <1> HIDE DEF iter
  <1>10. ASSUME NEW t \in SUBSET (1 .. Len(s))
         PROVE  Stepped(iter, Seq(Int), <<>>, Runs, s, t)
    <2>1. iter[t] = Step(iter, t)
      BY ONLY <1>9, t \in SUBSET (1 .. Len(s))
    <2> QED BY <1>3, <1>6, <2>1, SameGreatest DEF Stepped
  <1>11. EndsAt(iter[1 .. Len(s)], Seq(Int), <<>>, Runs, s)
    <2>1. Iterates(iter, Seq(Int), Int, <<>>, Runs, s)
      BY <1>1, <1>5, <1>10 DEF Iterates
    <2> QED BY <2>1, FoldTraces
  <1> QED BY <1>4, <1>11

LEMMA ScrolledFurther ==
    ASSUME NEW v \in Viewport, NEW s \in Seq(Int), NEW e \in Int
    PROVE  /\ View!ScrolledBy(v, s) \in Viewport
           /\ View!ScrolledBy(v, Append(s, e)) = View!Scrolled(View!ScrolledBy(v, s), e)
  <1> PICK r : Is(r, Append(s, e))
    BY DEF Is
  <1>1. /\ r \in Seq(Int) /\ Len(s) \in Nat /\ Len(r) = Len(s) + 1 /\ r[Len(s) + 1] = e
        /\ \A k \in 1 .. Len(s) : s[k] = r[k]
    BY AppendProperties, LenProperties DEF Is
  <1> PICK x : Traces(x, Viewport, v, Scrolls, s) /\ x[Len(s)] = View!ScrolledBy(v, s)
    BY ScrollTrace DEF EndsAt
  <1> PICK y : Traces(y, Viewport, v, Scrolls, r) /\ y[Len(r)] = View!ScrolledBy(v, r)
    BY <1>1, ScrollTrace DEF EndsAt
  <1>2. x[Len(s)] = y[Len(s)]
    <2>1. Agree(s, r, Len(s))
      BY <1>1 DEF Agree
    <2> QED BY <2>1, TracesAgree
  <1>3. x[Len(s)] \in Viewport
    <2>1. Len(s) \in 0 .. Len(s) /\ x \in [0 .. Len(s) -> Viewport]
      BY <1>1 DEF Traces
    <2> QED BY ONLY <2>1
  <1>4. y[Len(r)] = Scrolls[y[Len(s)]][e]
    <2>1. Len(r) \in 1 .. Len(r) /\ Len(r) - 1 = Len(s)
      BY <1>1
    <2>2. y[Len(r)] = Scrolls[y[Len(r) - 1]][r[Len(r)]]
      BY <2>1 DEF Traces
    <2>3. r[Len(r)] = e
      BY <1>1
    <2> QED BY ONLY <2>1, <2>2, <2>3
  <1>5. Scrolls[x[Len(s)]][e] = View!Scrolled(x[Len(s)], e)
    <2>1. \A a \in Viewport : Scrolls[a][e] = View!Scrolled(a, e)
      BY DEF Scrolls
    <2> QED BY <1>3, <2>1
  <1> QED BY <1>2, <1>3, <1>4, <1>5 DEF Is

LEMMA NoScroll ==
    ASSUME NEW v \in Viewport
    PROVE  View!ScrolledBy(v, <<>>) = v
  <1> PICK s : Is(s, <<>>)
    BY DEF Is
  <1>1. s \in Seq(Int) /\ Len(s) = 0
    BY EmptySeq DEF Is
  <1> PICK x : Traces(x, Viewport, v, Scrolls, s) /\ x[Len(s)] = View!ScrolledBy(v, s)
    BY <1>1, ScrollTrace DEF EndsAt
  <1> QED BY <1>1 DEF Traces, Is

Clamped(n, m) == IF n < 0 THEN 0 ELSE IF n > m THEN m ELSE n

LEMMA WhereScrolled ==
    ASSUME NEW v \in Viewport, NEW n \in Int
    PROVE  /\ View!Scrolled(v, n).max = v.max
           /\ View!Scrolled(v, n).offset = Clamped(v.offset + n, v.max)
           /\ n = 0 => View!Scrolled(v, n).follow = v.follow
           /\ n > 0 => View!Scrolled(v, n).follow = (v.offset + n >= v.max)
           /\ n < 0 => View!Scrolled(v, n).follow = (v.follow /\ v.offset = 0)
  <1>1. v.offset \in Nat /\ v.max \in Nat /\ v.follow \in BOOLEAN /\ v.offset <= v.max
        /\ (v.follow => v.offset = v.max)
    BY DEF Viewport
  <1> PICK to : Is(to, Clamped(v.offset + n, v.max))
    BY DEF Is
  <1>2. to \in Nat /\ to <= v.max
    BY <1>1 DEF Is, Clamped
  <1>3. View!AtMost(View!AtLeast((IF v.follow THEN v.max ELSE v.offset) + n, 0), v.max) = to
    BY <1>1 DEF Is, Clamped, View!AtMost, View!AtLeast
  <1>4. View!Moved(v, n) = [v EXCEPT !.offset = to, !.follow = to >= v.max]
    BY <1>3 DEF View!Moved
  <1>5. View!Moved(v, n).max = v.max /\ View!Moved(v, n).offset = to
        /\ View!Moved(v, n).follow = (to >= v.max)
    BY ONLY <1>4, v \in Viewport DEF Viewport
  <1>6. View!Stuck(v, n) => to = v.offset
    BY <1>1 DEF Is, Clamped, View!Stuck
  <1>7. /\ View!Stuck(v, n) /\ n > 0 => v.follow = (v.offset + n >= v.max)
        /\ View!Stuck(v, n) /\ n < 0 => v.follow = (v.follow /\ v.offset = 0)
    BY <1>1 DEF View!Stuck
  <1>8. /\ View!Stuck(v, n) \/ n # 0
        /\ n > 0 => (to >= v.max) = (v.offset + n >= v.max)
        /\ ~View!Stuck(v, n) /\ n < 0 => (to >= v.max) = (v.follow /\ v.offset = 0)
    BY <1>1 DEF View!Stuck, Is, Clamped
  <1> QED BY <1>5, <1>6, <1>7, <1>8 DEF View!Scrolled, Is

\* Two movements in one direction move as far as their sum does.
LEMMA SameWay ==
    ASSUME NEW v \in Viewport, NEW d \in Int, NEW e \in Int, View!SameDirection(d, e)
    PROVE  View!Scrolled(v, d + e) = View!Scrolled(View!Scrolled(v, d), e)
  <1>1. v.offset \in Nat /\ v.max \in Nat /\ v.follow \in BOOLEAN /\ v.offset <= v.max
        /\ (v.follow => v.offset = v.max)
    BY DEF Viewport
  <1> PICK a, b, c : /\ Is(a, View!Scrolled(v, d)) /\ Is(b, View!Scrolled(a, e))
                     /\ Is(c, View!Scrolled(v, d + e))
    BY DEF Is
  <1>2. a \in Viewport /\ d + e \in Int
    BY ScrolledView DEF Is
  <1>3. b \in Viewport /\ c \in Viewport
    BY <1>2, ScrolledView DEF Is
  <1>4. a.max = v.max /\ b.max = v.max /\ c.max = v.max
    BY <1>2, WhereScrolled DEF Is
  <1>5. /\ a.offset = Clamped(v.offset + d, v.max)
        /\ d = 0 => a.follow = v.follow
        /\ d > 0 => a.follow = (v.offset + d >= v.max)
        /\ d < 0 => a.follow = (v.follow /\ v.offset = 0)
    BY WhereScrolled DEF Is
  <1>6. /\ b.offset = Clamped(a.offset + e, v.max)
        /\ e = 0 => b.follow = a.follow
        /\ e > 0 => b.follow = (a.offset + e >= v.max)
        /\ e < 0 => b.follow = (a.follow /\ a.offset = 0)
    BY <1>2, <1>4, WhereScrolled DEF Is
  <1>7. /\ c.offset = Clamped(v.offset + (d + e), v.max)
        /\ d + e = 0 => c.follow = v.follow
        /\ d + e > 0 => c.follow = (v.offset + (d + e) >= v.max)
        /\ d + e < 0 => c.follow = (v.follow /\ v.offset = 0)
    BY <1>2, WhereScrolled DEF Is
  <1>8. (d < 0) <=> (e < 0)
    BY DEF View!SameDirection
  <1>9. b.offset = c.offset
    BY ONLY <1>1, <1>5, <1>6, <1>7, <1>8, d \in Int, e \in Int DEF Clamped
  <1>10. b.follow = c.follow
    <2>1. a.offset \in Nat /\ a.follow \in BOOLEAN /\ b.follow \in BOOLEAN /\ c.follow \in BOOLEAN
      BY <1>2, <1>3 DEF Viewport
    <2>2. CASE d < 0
      BY ONLY <1>1, <1>5, <1>6, <1>7, <1>8, <2>1, <2>2, d \in Int, e \in Int DEF Clamped
    <2>3. CASE d >= 0
      BY ONLY <1>1, <1>5, <1>6, <1>7, <1>8, <2>1, <2>3, d \in Int, e \in Int DEF Clamped
    <2> QED BY <2>2, <2>3
  <1>11. b = c
    BY <1>3, <1>4, <1>9, <1>10 DEF Viewport
  <1> QED BY <1>11 DEF Is

\* A squashed sequence of movements moves like the sequence.
LEMMA SquashedMoves ==
    ASSUME NEW v \in Viewport, NEW s \in Seq(Int)
    PROVE  View!ScrolledBy(v, View!FoldLeft(View!WithNotch, <<>>, s)) = View!ScrolledBy(v, s)
  <1> PICK z : Traces(z, Viewport, v, Scrolls, s) /\ z[Len(s)] = View!ScrolledBy(v, s)
    BY ScrollTrace DEF EndsAt
  <1> PICK q : /\ Traces(q, Seq(Int), <<>>, Runs, s)
               /\ q[Len(s)] = View!FoldLeft(View!WithNotch, <<>>, s)
    BY RunTrace DEF EndsAt
  <1> DEFINE T == {k \in Nat : k <= Len(s) => View!ScrolledBy(v, q[k]) = z[k]}
  <1>1. Len(s) \in Nat /\ \A i \in 1 .. Len(s) : s[i] \in Int
    BY LenProperties, ElementOfSeq
  <1>2. 0 \in T
    BY NoScroll DEF Traces
  <1>3. ASSUME NEW k \in Nat, k \in T PROVE k + 1 \in T
    <2> SUFFICES ASSUME k + 1 <= Len(s) PROVE View!ScrolledBy(v, q[k + 1]) = z[k + 1]
      OBVIOUS
    <2>1. /\ k \in 0 .. Len(s) /\ k + 1 \in 1 .. Len(s) /\ (k + 1) - 1 = k /\ k <= Len(s)
      BY <1>1
    <2>2. z \in [0 .. Len(s) -> Viewport] /\ q \in [0 .. Len(s) -> Seq(Int)]
      BY DEF Traces
    <2> PICK d, a, r : Is(d, s[k + 1]) /\ Is(a, z[k]) /\ Is(r, q[k])
      BY DEF Is
    <2>3. d \in Int /\ a \in Viewport /\ r \in Seq(Int) /\ View!ScrolledBy(v, r) = a
      BY <1>1, <1>3, <2>1, <2>2 DEF Is
    <2>4. z[k + 1] = Scrolls[z[(k + 1) - 1]][s[k + 1]] /\ q[k + 1] = Runs[q[(k + 1) - 1]][s[k + 1]]
      BY <2>1 DEF Traces
    <2>5. z[k + 1] = View!Scrolled(a, d)
      <3>1. Scrolls[a][d] = View!Scrolled(a, d)
        BY <2>3 DEF Scrolls
      <3> QED BY <2>1, <2>4, <3>1 DEF Is
    <2>6. q[k + 1] = View!WithNotch(r, d)
      <3>1. Runs[r][d] = View!WithNotch(r, d)
        BY <2>3 DEF Runs
      <3> QED BY <2>1, <2>4, <3>1 DEF Is
    <2>7. CASE View!WithNotch(r, d) = Append(r, d)
      BY <2>3, <2>5, <2>6, <2>7, ScrolledFurther
    <2>8. ASSUME NEW f \in Seq(Int), NEW e \in Int, r = Append(f, e), View!SameDirection(e, d),
                 View!WithNotch(r, d) = Append(f, e + d)
          PROVE  View!ScrolledBy(v, q[k + 1]) = z[k + 1]
      <3> PICK u : Is(u, View!ScrolledBy(v, f))
        BY DEF Is
      <3>1. u \in Viewport /\ e + d \in Int
        BY <2>3, ScrolledFurther DEF Is
      <3>2. a = View!Scrolled(u, e)
        BY <2>3, <2>8, ScrolledFurther DEF Is
      <3>3. View!ScrolledBy(v, q[k + 1]) = View!Scrolled(u, e + d)
        BY <2>6, <2>8, <3>1, ScrolledFurther DEF Is
      <3>4. View!Scrolled(u, e + d) = View!Scrolled(View!Scrolled(u, e), d)
        BY <2>3, <2>8, <3>1, SameWay
      <3> QED BY <2>5, <3>2, <3>3, <3>4
    <2>9. \/ View!WithNotch(r, d) = Append(r, d)
          \/ \E f \in Seq(Int), e \in Int :
                /\ r = Append(f, e) /\ View!SameDirection(e, d)
                /\ View!WithNotch(r, d) = Append(f, e + d)
      BY <2>3, RunsStay
    <2> QED BY ONLY <2>7, <2>8, <2>9
  <1>4. \A k \in Nat : k \in T
    <2> HIDE DEF T
    <2> QED BY <1>2, <1>3, Induction
  <1> QED BY <1>1, <1>4

\* A batch of notches moves the view as its squashed form does.
LEMMA Batch ==
    ASSUME NEW v \in Viewport, NEW n \in Nat, NEW b \in [1 .. n -> {1, -1}]
    PROVE  /\ View!ScrolledBy(v, View!Squashed(b)) = View!ScrolledBy(v, View!Notches(b))
           /\ View!ScrolledBy(v, View!Squashed(b)) \in Viewport
  <1> PICK s : Is(s, View!Notches(b))
    BY DEF Is
  <1>1. s \in Seq(Int)
    <2>1. DOMAIN b = 1 .. n /\ \A i \in 1 .. n : Notch * b[i] \in Int
      BY ClientAssumption
    <2>2. s = [i \in 1 .. n |-> Notch * b[i]]
      BY <2>1 DEF View!Notches, Is
    <2> QED BY ONLY <2>1, <2>2, n \in Nat
  <1>2. View!Squashed(b) = View!FoldLeft(View!WithNotch, <<>>, s)
    BY DEF View!Squashed, Is
  <1>3. View!ScrolledBy(v, s) \in Viewport
    BY <1>1, ScrolledFurther
  <1> QED BY <1>1, <1>2, <1>3, SquashedMoves DEF Is
LEMMA UpdatedView ==
    ASSUME NEW v \in Viewport, NEW m \in Nat
    PROVE  /\ View!Updated(v, m) \in Viewport
           /\ ~v.follow /\ v.offset <= m
                => View!Updated(v, m).offset = v.offset /\ ~View!Updated(v, m).follow
  <1>1. v.offset \in Nat /\ v.max \in Nat
    BY DEF Viewport
  <1> PICK to : Is(to, IF v.follow THEN m ELSE View!AtMost(v.offset, m))
    BY DEF Is
  <1>2. to \in Nat /\ to <= m
    BY <1>1 DEF Is, View!AtMost
  <1>3. (~v.follow /\ v.offset <= m => to = v.offset) /\ (v.follow => to = m)
    BY <1>1 DEF Is, View!AtMost
  <1>4. View!Updated(v, m) = [v EXCEPT !.max = m, !.offset = to]
    BY DEF View!Updated, Is
  <1> QED BY ONLY <1>2, <1>3, <1>4, v \in Viewport, m \in Nat DEF Viewport

LEMMA PlacedView ==
    ASSUME NEW v \in Viewport
    PROVE  View!PinnedToBottom(v) \in Viewport /\ View!Held(v) \in Viewport
  <1> PICK m : Is(m, v.max)
    BY DEF Is
  <1>1. m \in Nat /\ m <= m /\ m = v.max
    BY DEF Viewport, Is
  <1>2. /\ View!PinnedToBottom(v) = [v EXCEPT !.follow = TRUE, !.offset = m]
        /\ View!Held(v) = [v EXCEPT !.follow = FALSE, !.offset = m]
    BY DEF View!PinnedToBottom, View!Held, Is
  <1>3. [v EXCEPT !.follow = TRUE, !.offset = m] \in Viewport
    BY ONLY <1>1, v \in Viewport DEF Viewport
  <1>4. [v EXCEPT !.follow = FALSE, !.offset = m] \in Viewport
    BY ONLY <1>1, v \in Viewport DEF Viewport
  <1> QED BY <1>2, <1>3, <1>4

LEMMA PickedPane ==
    ASSUME NEW l \in Pane, NEW d \in {1, -1}
    PROVE  View!Selected(l, d) \in Pane
  <1>1. l.len \in Nat /\ l.sel \in Nat /\ l.offset \in Nat /\ Window \in Nat \ {0}
    BY ClientAssumption DEF Pane
  <1>2. CASE l.len = 0
    BY <1>2 DEF View!Selected
  <1>3. CASE l.len # 0
    <2> PICK sel : Is(sel, (l.sel + d) % l.len)
      BY DEF Is
    <2>1. sel \in Nat /\ sel < l.len
      BY <1>1, <1>3 DEF Is
    <2> PICK offset : Is(offset, View!Follow(l.offset, sel, l.len))
      BY DEF Is
    <2>2. /\ offset \in Nat /\ offset <= sel /\ sel < offset + Window
          /\ offset <= View!AtLeast(l.len - Window, 0)
      BY <1>1, <2>1 DEF Is, View!Follow, View!AtMost, View!AtLeast
    <2>3. View!Selected(l, d) = [l EXCEPT !.sel = sel, !.offset = offset]
      BY <1>3 DEF View!Selected, Is
    <2> QED BY ONLY <2>1, <2>2, <2>3, l \in Pane DEF Pane
  <1> QED BY <1>2, <1>3

LEMMA NewPane ==
    ASSUME NEW n \in Nat
    PROVE  View!Relisted(n) \in Pane
  BY ClientAssumption DEF View!Relisted, Pane, View!AtLeast

LEMMA ViewStep ==
    ASSUME ViewInv, View!Next \/ UNCHANGED mcViewVars
    PROVE  ViewInv'
  <1> USE ClientAssumption
  <1>1. view \in Viewport /\ rows \in Nat /\ list \in Pane
    BY DEF ViewInv
  <1>2. ASSUME NEW d \in Int PROVE View!Scrolled(view, d) \in Viewport
    BY <1>1, ScrolledView
  <1>3. CASE View!Output
    BY <1>1, <1>3 DEF View!Output, ViewInv
  <1>4. CASE View!Draw
    BY <1>1, <1>4, Bounded, UpdatedView DEF View!Draw, ViewInv
  <1>5. CASE View!Wheel
    <2>1. PICK b \in {<<1>>, <<-1>>} : /\ view' = View!ScrolledBy(view, View!Squashed(b))
                                       /\ rows' = rows /\ list' = list
      BY <1>5 DEF View!Wheel, View!Look
    <2>2. b \in [1 .. 1 -> {1, -1}]
      OBVIOUS
    <2> QED BY <1>1, <2>1, <2>2, Batch DEF ViewInv
  <1>6. CASE View!PageKey
    <2>1. PICK d \in {Page, -Page} : view' = View!Scrolled(view, d) /\ rows' = rows /\ list' = list
      BY <1>6 DEF View!PageKey, View!Look
    <2>2. view' \in Viewport
      BY <1>2, <2>1
    <2> QED BY ONLY <1>1, <2>1, <2>2 DEF ViewInv
  <1>7. CASE View!ToBottom \/ View!Hold
    <2>1. /\ rows' = rows /\ list' = list
          /\ view' = View!PinnedToBottom(view) \/ view' = View!Held(view)
      BY <1>7 DEF View!ToBottom, View!Hold, View!Look
    <2>2. view' \in Viewport
      BY <1>1, <2>1, PlacedView
    <2> QED BY ONLY <1>1, <2>1, <2>2 DEF ViewInv
  <1>8. CASE View!Move \/ View!Relist
    <2>1. /\ rows' = rows /\ view' = view
          /\ \/ \E d \in {1, -1} : list' = View!Selected(list, d)
             \/ \E n \in 0 .. MaxItems : list' = View!Relisted(n)
      BY <1>8 DEF View!Move, View!Relist, View!Pick
    <2> QED BY <1>1, <2>1, PickedPane, NewPane DEF ViewInv
  <1>9. CASE UNCHANGED mcViewVars
    BY <1>9 DEF mcViewVars, ViewInv
  <1> QED BY <1>3, <1>4, <1>5, <1>6, <1>7, <1>8, <1>9 DEF View!Next

LEMMA ViewHolds == MCSpec => []ViewInv
  <1>1. MCInit => ViewInv
    <2> SUFFICES ASSUME MCInit PROVE ViewInv
      OBVIOUS
    <2>1. rows = 0 /\ view = [offset |-> 0, max |-> 0, follow |-> TRUE] /\ list = View!Relisted(0)
      BY DEF MCInit, View!Init, View!Relisted
    <2>2. view \in Viewport
      BY ONLY <2>1 DEF Viewport
    <2> QED BY <2>1, <2>2, NewPane DEF ViewInv
  <1>2. ViewInv /\ [MCNext]_clientVars => ViewInv'
    BY ViewStep DEF MCNext, clientVars
  <1> QED BY <1>1, <1>2, PTL DEF MCSpec

\* Output and redraws leave a reader where they are (Viewport::update).
THEOREM ReadersStay == MCSpec => ReaderUndisturbed
  <1> USE ClientAssumption
  <1>1. ViewInv /\ [MCNext]_clientVars
          => [did' # "user" /\ ~view.follow /\ view.offset <= View!MaxTop(rows')
                => view'.offset = view.offset /\ ~view'.follow]_View!vars
    <2> SUFFICES ASSUME ViewInv, View!Next, did' # "user", ~view.follow,
                        view.offset <= View!MaxTop(rows')
                 PROVE  view'.offset = view.offset /\ ~view'.follow
      BY DEF MCNext, clientVars, mcViewVars, View!vars
    <2>1. CASE View!Output
      BY <2>1 DEF View!Output
    <2>2. CASE View!Draw
      BY <2>2, Bounded, UpdatedView DEF View!Draw, ViewInv
    <2> QED BY <2>1, <2>2 DEF View!Next, View!Wheel, View!PageKey, View!ToBottom, View!Hold,
            View!Move, View!Relist, View!Look, View!Pick
  <1> QED BY <1>1, ViewHolds, PTL DEF MCSpec, ReaderUndisturbed, View!ReaderUndisturbed

\* Whatever the viewport, a squashed batch of notches moves it like the batch
\* (squash), and a selection is among the rows shown (follow, popup_rows).
THEOREM TheWheelIsFaithful == MCSpec => []ScrollingIsFaithful
  <1> USE ClientAssumption
  <1>1. ViewInv => ScrollingIsFaithful
    <2> SUFFICES ASSUME ViewInv PROVE View!SquashIsFaithful /\ View!SelectionIsShown
      BY DEF ScrollingIsFaithful, View!ScrollingIsFaithful
    <2>1. view \in Viewport /\ list \in Pane
      BY DEF ViewInv
    <2>2. View!SquashIsFaithful
      <3>1. ASSUME NEW batch \in UNION {[1 .. n -> {1, -1}] : n \in 0 .. MaxBatch}
            PROVE  View!ScrolledBy(view, View!Squashed(batch))
                     = View!ScrolledBy(view, View!Notches(batch))
        <4> PICK n \in 0 .. MaxBatch : batch \in [1 .. n -> {1, -1}]
          OBVIOUS
        <4>1. n \in Nat
          OBVIOUS
        <4> QED BY <2>1, <4>1, Batch
      <3>2. view.follow => view.offset = view.max
        BY <2>1 DEF Viewport
      <3> QED BY <3>1, <3>2 DEF View!SquashIsFaithful
    <2>3. View!SelectionIsShown
      <3>1. list.len \in Nat /\ list.sel \in Nat /\ list.offset \in Nat
        BY <2>1 DEF Pane
      <3>2. list.len > 0 => /\ list.sel < list.len /\ list.offset <= list.sel
                            /\ list.sel < list.offset + Window
                            /\ list.offset <= View!AtLeast(list.len - Window, 0)
        BY <2>1 DEF Pane
      <3>3. list.sel \in View!PopupStart(list.sel) .. View!PopupStart(list.sel) + Window - 1
        BY <3>1 DEF View!PopupStart, View!AtLeast
      <3>4. list.len > 0 => list.sel \in list.offset .. list.offset + Window - 1
        BY <3>1, <3>2
      <3> QED BY <3>2, <3>3, <3>4 DEF View!SelectionIsShown
    <2> QED BY <2>2, <2>3
  <1> QED BY <1>1, ViewHolds, PTL

-----------------------------------------------------------------------------
(* The heights of the rows.                                                 *)

Lines == [voice : {"assistant", "other"}, owner : Nat, text : Seq(Nat)]

LEMMA HeightTyped ==
    ASSUME NEW r \in Lines, NEW w \in Nat \ {0}
    PROVE  Rows!RowHeight(r, w) \in Int
  <1>1. Len(r.text) \in Nat
    BY LenProperties DEF Lines
  <1> QED BY <1>1 DEF Rows!RowHeight

\* The heights of n rows, each added to the one before.
Measured(e, n, lines, w) ==
    /\ e \in Seq(Int) /\ Len(e) = n + 1 /\ n <= Len(lines) /\ e[1] = 0
    /\ \A k \in 1 .. n : e[k + 1] = e[k] + Rows!RowHeight(lines[k], w)

\* There is one such sequence.
LEMMA MeasuredOnce ==
    ASSUME NEW n \in Nat, NEW lines, NEW w, NEW e, NEW f,
           Measured(e, n, lines, w), Measured(f, n, lines, w)
    PROVE  e = f
  <1> DEFINE T == {k \in Nat : k <= n => e[k + 1] = f[k + 1]}
  <1>1. 0 \in T
    BY DEF Measured
  <1>2. ASSUME NEW k \in Nat, k \in T PROVE k + 1 \in T
    <2> SUFFICES ASSUME k + 1 <= n PROVE e[(k + 1) + 1] = f[(k + 1) + 1]
      OBVIOUS
    <2>1. k <= n /\ k + 1 \in 1 .. n
      OBVIOUS
    <2>2. e[k + 1] = f[k + 1]
      BY <1>2, <2>1
    <2>3. /\ e[(k + 1) + 1] = e[k + 1] + Rows!RowHeight(lines[k + 1], w)
          /\ f[(k + 1) + 1] = f[k + 1] + Rows!RowHeight(lines[k + 1], w)
      BY <2>1 DEF Measured
    <2> QED BY ONLY <2>2, <2>3
  <1>3. \A k \in Nat : k \in T
    <2> HIDE DEF T
    <2> QED BY <1>1, <1>2, Induction
  <1>4. e \in Seq(Int) /\ f \in Seq(Int) /\ Len(e) = n + 1 /\ Len(f) = n + 1
    BY DEF Measured
  <1>5. ASSUME NEW i \in 1 .. n + 1 PROVE e[i] = f[i]
    <2>1. i - 1 \in Nat /\ i - 1 <= n /\ (i - 1) + 1 = i
      OBVIOUS
    <2> QED BY <1>3, <2>1
  <1> QED BY <1>4, <1>5, SeqEqual

LEMMA Remeasures ==
    ASSUME NEW w \in Nat \ {0}, NEW e \in Seq(Int), e # <<>>, NEW r \in Lines
    PROVE  /\ Rows!Last(e) + Rows!RowHeight(r, w) \in Int
           /\ Append(e, Rows!Last(e) + Rows!RowHeight(r, w)) \in Seq(Int) \ {<<>>}
  <1> PICK h : Is(h, Rows!RowHeight(r, w))
    BY DEF Is
  <1>1. h \in Int
    BY HeightTyped DEF Is
  <1>2. Len(e) \in 1 .. Len(e)
    BY LenProperties, EmptySeq
  <1>3. Rows!Last(e) \in Int
    BY <1>2, ElementOfSeq DEF Rows!Last
  <1>4. Rows!Last(e) + h \in Int
    BY <1>1, <1>3
  <1>5. Append(e, Rows!Last(e) + h) \in Seq(Int) /\ Append(e, Rows!Last(e) + h) # <<>>
    BY <1>4, AppendProperties
  <1> QED BY <1>4, <1>5 DEF Is

\* The step and the fold of ensure_row_offsets.
Adds(w) ==
    [e \in Seq(Int) \ {<<>>} |->
        [r \in Lines |-> Append(e, Rows!Last(e) + Rows!RowHeight(r, w))]]

Remeasured(kept, s, w) ==
    Rows!FoldLeft(LAMBDA acc, row : Append(acc, Rows!Last(acc) + Rows!RowHeight(row, w)), kept, s)

LEMMA MeasureTrace ==
    ASSUME NEW w \in Nat \ {0}, NEW kept \in Seq(Int) \ {<<>>}, NEW s \in Seq(Lines)
    PROVE  EndsAt(Remeasured(kept, s, w), Seq(Int) \ {<<>>}, kept, Adds(w), s)
  <1> DEFINE A == Seq(Int) \ {<<>>}
  <1>1. Adds(w) \in [A -> [Lines -> A]]
    BY Remeasures DEF Adds
  <1>2. Len(s) \in Nat /\ DOMAIN s = 1 .. Len(s) /\ \A i \in 1 .. Len(s) : s[i] \in Lines
    BY LenProperties, ElementOfSeq
  <1>3. \A t \in SUBSET (1 .. Len(s)) : t # {} => s[Greatest(t)] \in Lines
    BY <1>2, GreatestIndex
  <1> DEFINE
        Op(e, r) == Append(e, Rows!Last(e) + Rows!RowHeight(r, w))
        Step(g, t) == IF t = {} THEN kept ELSE Op(g[t \ {Rows!Max(t)}], s[Rows!Max(t)])
        iter == CHOOSE g : g = [t \in SUBSET (1 .. Len(s)) |-> Step(g, t)]
  <1>4. Remeasured(kept, s, w) = iter[1 .. Len(s)]
    BY <1>2 DEF Remeasured, Rows!FoldLeft, Rows!MapThenFoldSet
  <1>5. kept \in A
    OBVIOUS
  <1> PICK g \in [SUBSET (1 .. Len(s)) -> A] :
         \A t \in SUBSET (1 .. Len(s)) : Folds(g, kept, Adds(w), s, t)
    <2> HIDE DEF A
    <2> QED BY <1>1, <1>5, FoldExists
  <1>6. \A r \in A, d \in Lines : Adds(w)[r][d] = Op(r, d)
    BY DEF Adds
  <1> HIDE DEF A, Op
  <1>7. ASSUME NEW t \in SUBSET (1 .. Len(s)) PROVE g[t] = Step(g, t)
    <2>1. t # {} => g[t \ {Greatest(t)}] \in A
      OBVIOUS
    <2> QED BY <1>3, <1>6, <2>1, SameGreatest DEF Folds
  <1>8. g = [t \in SUBSET (1 .. Len(s)) |-> Step(g, t)]
    BY <1>7
  <1>9. iter = [t \in SUBSET (1 .. Len(s)) |-> Step(iter, t)]
    BY <1>8
  <1> HIDE DEF iter
  <1>10. ASSUME NEW t \in SUBSET (1 .. Len(s))
         PROVE  Stepped(iter, A, kept, Adds(w), s, t)
    <2>1. iter[t] = Step(iter, t)
      BY ONLY <1>9, t \in SUBSET (1 .. Len(s))
    <2> QED BY <1>3, <1>6, <2>1, SameGreatest DEF Stepped
  <1>11. EndsAt(iter[1 .. Len(s)], A, kept, Adds(w), s)
    <2>1. Iterates(iter, A, Lines, kept, Adds(w), s)
      BY <1>1, <1>5, <1>10 DEF Iterates
    <2> QED BY <2>1, FoldTraces
  <1> QED BY <1>4, <1>11 DEF A

\* Measuring goes on from what is measured already.
LEMMA MeasuringGoesOn ==
    ASSUME NEW w \in Nat \ {0}, NEW n \in Nat, NEW lines \in Seq(Lines), NEW s \in Seq(Lines),
           NEW kept, Measured(kept, n, lines, w),
           Len(lines) = n + Len(s), \A k \in 1 .. Len(s) : s[k] = lines[n + k]
    PROVE  Measured(Remeasured(kept, s, w), Len(lines), lines, w)
  <1>1. Len(s) \in Nat /\ \A i \in 1 .. Len(s) : s[i] \in Lines
    BY LenProperties, ElementOfSeq
  <1>2. kept \in Seq(Int) \ {<<>>}
    BY EmptySeq DEF Measured
  <1> PICK x : /\ Traces(x, Seq(Int) \ {<<>>}, kept, Adds(w), s)
               /\ x[Len(s)] = Remeasured(kept, s, w)
    BY <1>2, MeasureTrace DEF EndsAt
  <1> DEFINE T == {j \in Nat : j <= Len(s) => Measured(x[j], n + j, lines, w)}
  <1>3. 0 \in T
    BY DEF Traces
  <1>4. ASSUME NEW j \in Nat, j \in T PROVE j + 1 \in T
    <2> SUFFICES ASSUME j + 1 <= Len(s) PROVE Measured(x[j + 1], n + (j + 1), lines, w)
      OBVIOUS
    <2>1. j <= Len(s) /\ j + 1 \in 1 .. Len(s) /\ (j + 1) - 1 = j /\ j \in 0 .. Len(s)
      BY <1>1
    <2> PICK e, r, f : Is(e, x[j]) /\ Is(r, s[j + 1]) /\ Is(f, x[j + 1])
      BY DEF Is
    <2>2. /\ e \in Seq(Int) \ {<<>>} /\ r \in Lines /\ r = lines[n + (j + 1)]
          /\ Measured(e, n + j, lines, w)
      BY <1>1, <1>4, <2>1 DEF Is, Traces
    <2>3. f = Adds(w)[e][r]
      <3>1. x[j + 1] = Adds(w)[x[(j + 1) - 1]][s[j + 1]]
        BY <2>1 DEF Traces
      <3> QED BY <2>1, <3>1 DEF Is
    <2>4. f = Append(e, Rows!Last(e) + Rows!RowHeight(r, w))
      BY <2>2, <2>3 DEF Adds
    <2> PICK h : Is(h, Rows!RowHeight(r, w))
      BY DEF Is
    <2>5. e \in Seq(Int) /\ Len(e) = (n + j) + 1 /\ Rows!Last(e) = e[(n + j) + 1]
          /\ e[(n + j) + 1] + h \in Int
      BY <2>2, Remeasures DEF Is, Measured, Rows!Last
    <2>6. /\ f \in Seq(Int) /\ Len(f) = ((n + j) + 1) + 1
          /\ \A i \in 1 .. (n + j) + 1 : f[i] = e[i]
          /\ f[((n + j) + 1) + 1] = e[(n + j) + 1] + h
      <3> PICK v : Is(v, e[(n + j) + 1] + h)
        BY DEF Is
      <3>1. f = Append(e, v) /\ v \in Int
        BY <2>4, <2>5 DEF Is
      <3>2. /\ f \in Seq(Int) /\ Len(f) = Len(e) + 1 /\ f[Len(e) + 1] = v
            /\ \A i \in 1 .. Len(e) : f[i] = e[i]
        BY ONLY <2>5, <3>1, AppendProperties
      <3> QED BY ONLY <2>5, <3>2, Is(v, e[(n + j) + 1] + h) DEF Is
    <2>7. n + (j + 1) = (n + j) + 1 /\ n + (j + 1) <= Len(lines)
      BY ONLY <1>1, n \in Nat, j \in Nat, j + 1 <= Len(s), Len(lines) = n + Len(s)
    <2>8. ASSUME NEW k \in 1 .. (n + j) + 1
          PROVE  f[k + 1] = f[k] + Rows!RowHeight(lines[k], w)
      <3>1. CASE k = (n + j) + 1
        BY <2>2, <2>6, <2>7, <3>1 DEF Is
      <3>2. CASE k # (n + j) + 1
        <4>1. k \in 1 .. n + j /\ k \in 1 .. (n + j) + 1 /\ k + 1 \in 1 .. (n + j) + 1
          BY <3>2
        <4>2. e[k + 1] = e[k] + Rows!RowHeight(lines[k], w)
          BY <2>2, <4>1 DEF Measured
        <4> QED BY <2>6, <4>1, <4>2
      <3> QED BY <3>1, <3>2
    <2>9. f[1] = 0
      <3>1. e[1] = 0 /\ 1 \in 1 .. (n + j) + 1
        BY <2>2 DEF Measured
      <3> QED BY <2>6, <3>1
    <2>10. Measured(f, (n + j) + 1, lines, w)
      BY ONLY <2>6, <2>7, <2>8, <2>9 DEF Measured
    <2> QED BY <2>7, <2>10 DEF Is
  <1>5. \A j \in Nat : j \in T
    <2> HIDE DEF T
    <2> QED BY <1>3, <1>4, Induction
  <1>6. Measured(x[Len(s)], n + Len(s), lines, w)
    BY <1>1, <1>5
  <1> QED BY <1>6

\* What the cache holds up to its first stale row is right.
Fresh(k) == k <= Len(transcript) /\ (dirty = Rows!None \/ k <= dirty)

CacheInv ==
    /\ offsets \in Seq(Int) /\ dirty \in Nat \cup {Rows!None}
    /\ offsets # <<>> => offsets[1] = 0
    /\ dirty = Rows!None => Len(offsets) = Len(transcript) + 1
    /\ \A k \in 1 .. Len(offsets) - 1 :
           Fresh(k) => offsets[k + 1] = offsets[k] + Rows!RowHeight(transcript[k], width)

LEMMA ExactIsMeasured ==
    ASSUME NEW lines \in Seq(Lines), NEW w \in Nat \ {0}
    PROVE  Measured(Rows!Exact(lines, w), Len(lines), lines, w)
  <1> PICK e : Is(e, <<0>>)
    BY DEF Is
  <1>1. e \in Seq(Int) /\ Len(e) = 1 /\ e[1] = 0 /\ Len(lines) \in Nat
    BY LenProperties DEF Is
  <1>2. Measured(e, 0, lines, w)
    BY ONLY <1>1 DEF Measured
  <1>3. Measured(Remeasured(e, lines, w), Len(lines), lines, w)
    BY <1>1, <1>2, MeasuringGoesOn
  <1>4. Rows!Exact(lines, w) = Remeasured(e, lines, w)
    BY DEF Is, Rows!Exact, Remeasured
  <1> QED BY <1>3, <1>4

\* What is kept of the offsets when the repair starts at a row.
Kept(start) ==
    IF offsets = <<>> THEN <<0>>
    ELSE SubSeq(offsets, 1, IF start < Len(offsets) THEN start + 1 ELSE Len(offsets))

LEMMA KeptIsMeasured ==
    ASSUME CacheInv, transcript \in Seq(Lines), NEW w \in Nat \ {0},
           NEW start \in Nat, start <= Len(transcript),
           \/ start = 0
           \/ /\ Len(offsets) = Len(transcript) + 1 /\ width = w
              /\ dirty = Rows!None \/ start <= dirty
    PROVE  Measured(Kept(start), start, transcript, w)
  <1>1. /\ offsets \in Seq(Int) /\ Len(offsets) \in Nat /\ Len(transcript) \in Nat
        /\ offsets # <<>> => offsets[1] = 0 /\ Len(offsets) # 0
    BY LenProperties, EmptySeq DEF CacheInv
  <1>2. CASE offsets = <<>>
    <2>1. start = 0
      BY <1>2, <1>1, EmptySeq
    <2> PICK e : Is(e, <<0>>)
      BY DEF Is
    <2>2. e \in Seq(Int) /\ Len(e) = 1 /\ e[1] = 0
      BY DEF Is
    <2>3. Measured(e, 0, transcript, w)
      BY ONLY <1>1, <2>2 DEF Measured
    <2> QED BY <1>2, <2>1, <2>3 DEF Kept, Is
  <1>3. CASE offsets # <<>>
    <2>1. start < Len(offsets) /\ start + 1 \in 1 .. Len(offsets)
      BY <1>1, <1>3
    <2> PICK e : Is(e, SubSeq(offsets, 1, start + 1))
      BY DEF Is
    <2>2. Kept(start) = e
      BY <1>3, <2>1 DEF Kept, Is
    <2>3. e \in Seq(Int) /\ Len(e) = start + 1 /\ \A i \in 1 .. start + 1 : e[i] = offsets[i]
      BY ONLY <1>1, <2>1, Is(e, SubSeq(offsets, 1, start + 1)), start \in Nat DEF Is
    <2>4. e[1] = 0
      BY <1>1, <1>3, <2>3
    <2>5. ASSUME NEW k \in 1 .. start
          PROVE  e[k + 1] = e[k] + Rows!RowHeight(transcript[k], w)
      <3>1. k \in 1 .. Len(offsets) - 1 /\ k \in 1 .. start + 1 /\ k + 1 \in 1 .. start + 1 /\ width = w
        BY <1>1, <2>1
      <3>2. Fresh(k)
        BY <1>1 DEF Fresh, CacheInv, Rows!None
      <3>3. offsets[k + 1] = offsets[k] + Rows!RowHeight(transcript[k], width)
        BY <3>1, <3>2 DEF CacheInv
      <3> QED BY <2>3, <3>1, <3>3
    <2>6. Measured(e, start, transcript, w)
      BY <2>3, <2>4, <2>5 DEF Measured
    <2> QED BY <2>2, <2>6
  <1> QED BY <1>2, <1>3

LEMMA RepairIsMeasured ==
    ASSUME CacheInv, transcript \in Seq(Lines), NEW w \in Nat \ {0}, NEW from \in Nat,
           \/ from = 0
           \/ /\ Len(offsets) = Len(transcript) + 1 /\ width = w
              /\ dirty = Rows!None \/ from <= dirty
    PROVE  Measured(Rows!Repaired(from, w), Len(transcript), transcript, w)
  <1> PICK start : Is(start, IF from < Len(transcript) THEN from ELSE Len(transcript))
    BY DEF Is
  <1>1. /\ start \in Nat /\ start <= Len(transcript) /\ start <= from /\ Len(transcript) \in Nat
    BY LenProperties DEF Is
  <1>2. Measured(Kept(start), start, transcript, w)
    <2>1. \/ start = 0
          \/ /\ Len(offsets) = Len(transcript) + 1 /\ width = w
             /\ dirty = Rows!None \/ start <= dirty
      BY <1>1 DEF CacheInv, Rows!None
    <2> QED BY <1>1, <2>1, KeptIsMeasured
  <1> PICK s : Is(s, SubSeq(transcript, start + 1, Len(transcript)))
    BY DEF Is
  <1>3. /\ s \in Seq(Lines) /\ Len(transcript) = start + Len(s)
        /\ \A k \in 1 .. Len(s) : s[k] = transcript[start + k]
    BY ONLY <1>1, transcript \in Seq(Lines), Is(s, SubSeq(transcript, start + 1, Len(transcript))) DEF Is
  <1>4. Measured(Remeasured(Kept(start), s, w), Len(transcript), transcript, w)
    BY <1>1, <1>2, <1>3, MeasuringGoesOn
  <1>5. Rows!Repaired(from, w) = Remeasured(Kept(start), s, w)
    BY DEF Rows!Repaired, Remeasured, Kept, Is
  <1> QED BY <1>4, <1>5

LEMMA HeightsExact ==
    ASSUME CacheInv, transcript \in Seq(Lines)
    PROVE  Rows!HeightsAreExact
  <1> SUFFICES ASSUME NEW w \in Widths
               PROVE  Rows!Repaired(IF Rows!StaleFrom(w) = Rows!None THEN Len(transcript)
                                    ELSE Rows!StaleFrom(w), w) = Rows!Exact(transcript, w)
    BY DEF Rows!HeightsAreExact
  <1> PICK from : Is(from, IF Rows!StaleFrom(w) = Rows!None THEN Len(transcript)
                           ELSE Rows!StaleFrom(w))
    BY DEF Is
  <1>1. w \in Nat \ {0} /\ Len(transcript) \in Nat
    BY ClientAssumption, LenProperties
  <1>2. /\ from \in Nat
        /\ \/ from = 0
           \/ /\ Len(offsets) = Len(transcript) + 1 /\ width = w
              /\ dirty = Rows!None \/ from <= dirty
    BY <1>1 DEF Is, Rows!StaleFrom, Rows!None, CacheInv
  <1>3. Measured(Rows!Repaired(from, w), Len(transcript), transcript, w)
    BY <1>1, <1>2, RepairIsMeasured
  <1>4. Measured(Rows!Exact(transcript, w), Len(transcript), transcript, w)
    BY <1>1, ExactIsMeasured
  <1>5. Rows!Repaired(from, w) = Rows!Exact(transcript, w)
    BY <1>1, <1>3, <1>4, MeasuredOnce
  <1> QED BY <1>5 DEF Is

LEMMA MeasureKeeps ==
    ASSUME CacheInv, transcript \in Seq(Lines), Rows!Measure
    PROVE  CacheInv'
  <1> PICK w \in Widths :
         /\ width' = w /\ dirty' = Rows!None /\ transcript' = transcript
         /\ offsets' = IF Rows!StaleFrom(w) = Rows!None THEN offsets
                       ELSE Rows!Repaired(Rows!StaleFrom(w), w)
    BY DEF Rows!Measure
  <1>1. w \in Nat \ {0} /\ Len(transcript) \in Nat
    BY ClientAssumption, LenProperties
  <1>2. CASE Rows!StaleFrom(w) = Rows!None
    <2>1. dirty = Rows!None /\ width = w
      BY <1>2 DEF Rows!StaleFrom, Rows!None
    <2>2. offsets' = offsets /\ dirty' = dirty /\ width' = width
      BY <1>2, <2>1
    <2> QED BY <2>2 DEF CacheInv, Fresh
  <1>3. CASE Rows!StaleFrom(w) # Rows!None
    <2> PICK from : Is(from, Rows!StaleFrom(w))
      BY DEF Is
    <2>1. /\ from \in Nat
          /\ \/ from = 0
             \/ Len(offsets) = Len(transcript) + 1 /\ width = w /\ from <= dirty
      BY <1>1, <1>3 DEF Is, Rows!StaleFrom, Rows!None, CacheInv
    <2>2. Measured(offsets', Len(transcript), transcript, w)
      BY <1>1, <1>3, <2>1, RepairIsMeasured DEF Is
    <2>3. /\ offsets' \in Seq(Int) /\ Len(offsets') = Len(transcript') + 1 /\ offsets'[1] = 0
          /\ \A k \in 1 .. Len(transcript) :
                offsets'[k + 1] = offsets'[k] + Rows!RowHeight(transcript'[k], width')
      BY <2>2 DEF Measured
    <2>4. \A k \in 1 .. Len(offsets') - 1 : k \in 1 .. Len(transcript)
      BY <1>1, <2>3
    <2> QED BY <2>3, <2>4 DEF CacheInv, Fresh
  <1> QED BY <1>2, <1>3

\* A change that calls every row stale from the first it changes.
LEMMA CacheKept ==
    ASSUME CacheInv, transcript \in Seq(Lines), transcript' \in Seq(Lines),
           NEW n \in Nat, n <= Len(transcript), n <= Len(transcript'),
           \A k \in 1 .. n : transcript'[k] = transcript[k],
           dirty' = Rows!Earlier(n), offsets' = offsets, width' = width
    PROVE  CacheInv'
  <1>1. /\ dirty' \in Nat /\ dirty' <= n /\ dirty' # Rows!None
        /\ dirty = Rows!None \/ dirty' <= dirty
    BY DEF CacheInv, Rows!Earlier, Rows!None
  <1>2. Len(offsets) \in Nat /\ Len(transcript) \in Nat
    BY LenProperties DEF CacheInv
  <1>3. ASSUME NEW k \in 1 .. Len(offsets') - 1, Fresh(k)'
        PROVE  offsets'[k + 1] = offsets'[k] + Rows!RowHeight(transcript'[k], width')
    <2>1. k <= dirty'
      BY <1>1, <1>3 DEF Fresh
    <2>2. k \in 1 .. n /\ Fresh(k) /\ k \in 1 .. Len(offsets) - 1
      BY <1>1, <1>2, <2>1 DEF Fresh, CacheInv, Rows!None
    <2>3. offsets[k + 1] = offsets[k] + Rows!RowHeight(transcript[k], width)
      BY <2>2 DEF CacheInv
    <2>4. transcript'[k] = transcript[k]
      BY <2>2
    <2> QED BY <2>3, <2>4
  <1> QED BY <1>1, <1>3 DEF CacheInv

-----------------------------------------------------------------------------
(* Whose the rows are.                                                      *)

\* A child has one row at most.
OneEach(lines) ==
    \A i, j \in DOMAIN lines : lines[i].owner = lines[j].owner /\ lines[i].owner # 0 => i = j

\* The rows are some of the old ones, by their owners, and rows of nobody.
Drawn(lines, old) ==
    /\ lines \in Seq(Lines) /\ OneEach(lines)
    /\ \A i \in DOMAIN lines :
           lines[i].owner = 0 \/ \E j \in DOMAIN old : old[j].owner = lines[i].owner

LEMMA RowTyped ==
    ASSUME NEW voice \in {"assistant", "other"}, NEW owner \in Nat, NEW text \in Seq(Nat)
    PROVE  /\ Rows!Row(voice, owner, text) \in Lines
           /\ Rows!Row(voice, owner, text).owner = owner
           /\ Rows!Row(voice, owner, text).text = text
  <1>1. Rows!Row(voice, owner, text) = [voice |-> voice, owner |-> owner, text |-> text]
    BY DEF Rows!Row
  <1> QED BY ONLY <1>1, voice \in {"assistant", "other"}, owner \in Nat, text \in Seq(Nat) DEF Lines

\* What appending a row does.
LEMMA OneMore ==
    ASSUME NEW s \in Seq(Lines), NEW r \in Lines, NEW u, u = Append(s, r)
    PROVE  /\ u \in Seq(Lines) /\ DOMAIN s = 1 .. Len(s) /\ DOMAIN u = 1 .. Len(s) + 1
           /\ Len(s) \in Nat /\ Len(u) = Len(s) + 1 /\ u[Len(s) + 1] = r
           /\ \A i \in 1 .. Len(s) : u[i] = s[i]
           /\ \A i \in DOMAIN u : i = Len(s) + 1 \/ i \in DOMAIN s
           /\ Len(s) + 1 \notin DOMAIN s
  <1>1. /\ u \in Seq(Lines) /\ Len(u) = Len(s) + 1 /\ u[Len(s) + 1] = r
        /\ \A i \in 1 .. Len(s) : u[i] = s[i]
    BY AppendProperties
  <1>2. DOMAIN s = 1 .. Len(s) /\ DOMAIN u = 1 .. Len(u) /\ Len(s) \in Nat
    BY <1>1, LenProperties
  <1>3. \A n \in Nat : \A i \in 1 .. n + 1 : i = n + 1 \/ i \in 1 .. n
    OBVIOUS
  <1>4. \A n \in Nat : n + 1 \notin 1 .. n
    OBVIOUS
  <1> QED BY ONLY <1>1, <1>2, <1>3, <1>4

LEMMA OneEachMore ==
    ASSUME NEW s \in Seq(Lines), NEW r \in Lines, NEW u, u = Append(s, r), OneEach(s),
           r.owner = 0 \/ \A i \in DOMAIN s : s[i].owner # r.owner
    PROVE  OneEach(u)
  <1> PICK n : Is(n, Len(s) + 1)
    BY DEF Is
  <1>1. /\ \A i \in DOMAIN u : i = n \/ i \in DOMAIN s
        /\ \A i \in DOMAIN s : u[i] = s[i]
        /\ u[n] = r
    BY OneMore DEF Is
  <1> SUFFICES ASSUME NEW i \in DOMAIN u, NEW j \in DOMAIN u,
                      u[i].owner = u[j].owner, u[i].owner # 0
               PROVE  i = j
    BY DEF OneEach
  <1>2. CASE i \in DOMAIN s /\ j \in DOMAIN s
    BY <1>1, <1>2 DEF OneEach
  <1>3. CASE i = n /\ j \in DOMAIN s
    BY <1>1, <1>3
  <1>4. CASE i \in DOMAIN s /\ j = n
    BY <1>1, <1>4
  <1> QED BY <1>1, <1>2, <1>3, <1>4

LEMMA DrawnMore ==
    ASSUME NEW s, NEW old, Drawn(s, old), NEW r \in Lines, r.owner = 0
    PROVE  /\ Drawn(Append(s, r), old) /\ Len(Append(s, r)) = Len(s) + 1
           /\ Len(s) \in Nat /\ \A i \in 1 .. Len(s) : Append(s, r)[i] = s[i]
  <1> PICK u : Is(u, Append(s, r))
    BY DEF Is
  <1>1. s \in Seq(Lines) /\ u = Append(s, r) /\ OneEach(s)
    BY DEF Drawn, Is
  <1>2. OneEach(u)
    BY <1>1, OneEachMore
  <1>3. /\ u \in Seq(Lines) /\ Len(u) = Len(s) + 1 /\ u[Len(s) + 1] = r
        /\ Len(s) \in Nat /\ DOMAIN s = 1 .. Len(s)
        /\ \A i \in 1 .. Len(s) : u[i] = s[i]
        /\ \A i \in DOMAIN u : i = Len(s) + 1 \/ i \in DOMAIN s
    BY <1>1, OneMore
  <1>4. \A i \in DOMAIN u : u[i].owner = 0 \/ \E j \in DOMAIN old : old[j].owner = u[i].owner
    BY <1>3 DEF Drawn
  <1> QED BY <1>2, <1>3, <1>4 DEF Drawn, Is

LEMMA DrawnPrefix ==
    ASSUME NEW old \in Seq(Lines), OneEach(old), NEW n \in Nat, n <= Len(old)
    PROVE  /\ Drawn(SubSeq(old, 1, n), old) /\ Len(SubSeq(old, 1, n)) = n
           /\ \A i \in 1 .. n : SubSeq(old, 1, n)[i] = old[i]
  <1> PICK u : Is(u, SubSeq(old, 1, n))
    BY DEF Is
  <1>1. u \in Seq(Lines) /\ Len(u) = n /\ \A i \in 1 .. n : u[i] = old[i]
    BY ONLY old \in Seq(Lines), n \in Nat, n <= Len(old), Is(u, SubSeq(old, 1, n)) DEF Is
  <1>2. DOMAIN u = 1 .. n /\ \A i \in DOMAIN u : i \in DOMAIN old
    BY <1>1, LenProperties
  <1> QED BY <1>1, <1>2 DEF Drawn, OneEach, Is

LEMMA DrawnSame ==
    ASSUME NEW old \in Seq(Lines), OneEach(old)
    PROVE  Drawn(old, old) /\ Drawn(<<>>, old)
  <1>1. Drawn(old, old)
    BY DEF Drawn
  <1>2. <<>> \in Seq(Lines) /\ DOMAIN <<>> = {}
    BY EmptySeq
  <1> QED BY <1>1, <1>2 DEF Drawn, OneEach

\* Sequences of one and two rows put after others.
LEMMA JoinOne ==
    ASSUME NEW s \in Seq(Lines), NEW a \in Lines
    PROVE  s \o <<a>> = Append(s, a) /\ Append(s, a) \in Seq(Lines)
  BY AppendIsConcat, AppendProperties

LEMMA JoinTwo ==
    ASSUME NEW s \in Seq(Lines), NEW a \in Lines, NEW b \in Lines
    PROVE  /\ s \o (<<a>> \o <<b>>) = Append(Append(s, a), b)
           /\ <<a>> \o <<b>> = <<a, b>>
           /\ Len(<<a>> \o <<b>>) = 2
  <1>1. <<a>> \in Seq(Lines) /\ <<b>> \in Seq(Lines)
    OBVIOUS
  <1>2. s \o (<<a>> \o <<b>>) = (s \o <<a>>) \o <<b>>
    BY <1>1, ConcatAssociative
  <1>3. (s \o <<a>>) \o <<b>> = Append(Append(s, a), b)
    BY JoinOne
  <1>4. <<a>> \o <<b>> = <<a, b>>
    <2> PICK u, v : Is(u, <<a>> \o <<b>>) /\ Is(v, <<a, b>>)
      BY DEF Is
    <2>1. /\ Len(<<a>>) = 1 /\ <<a>>[1] = a /\ Len(<<b>>) = 1 /\ <<b>>[1] = b
          /\ 1 \in 1 .. 2 /\ 2 \in 1 .. 2 /\ 1 <= 1 /\ ~(2 <= 1) /\ 2 - 1 = 1 /\ 1 + 1 = 2
      OBVIOUS
    <2>2. u \in Seq(Lines) /\ Len(u) = 2 /\ u[1] = a /\ u[2] = b
      BY <1>1, <2>1, ConcatProperties DEF Is
    <2>3. v \in Seq(Lines) /\ Len(v) = 2 /\ v[1] = a /\ v[2] = b
      BY ONLY a \in Lines, b \in Lines, Is(v, <<a, b>>) DEF Is
    <2>4. \A i \in 1 .. 2 : i = 1 \/ i = 2
      OBVIOUS
    <2>5. u = v
      BY ONLY <2>2, <2>3, <2>4, SeqEqual
    <2> QED BY <2>2, <2>5 DEF Is
  <1> QED BY <1>2, <1>3, <1>4

-----------------------------------------------------------------------------
(* Hiding the rows of a child.                                              *)

Drops(id) ==
    [kept \in Seq(Lines) |->
        [r \in Lines |-> IF r.owner = id THEN kept ELSE Append(kept, r)]]

LEMMA WithoutTrace ==
    ASSUME NEW id, NEW s \in Seq(Lines)
    PROVE  EndsAt(Rows!Without(s, id), Seq(Lines), <<>>, Drops(id), s)
  <1>1. Drops(id) \in [Seq(Lines) -> [Lines -> Seq(Lines)]]
    BY AppendProperties DEF Drops
  <1>2. Len(s) \in Nat /\ DOMAIN s = 1 .. Len(s) /\ \A i \in 1 .. Len(s) : s[i] \in Lines
    BY LenProperties, ElementOfSeq
  <1>3. \A t \in SUBSET (1 .. Len(s)) : t # {} => s[Greatest(t)] \in Lines
    BY <1>2, GreatestIndex
  <1> DEFINE
        Op(kept, r) == IF r.owner = id THEN kept ELSE Append(kept, r)
        Step(g, t) == IF t = {} THEN <<>> ELSE Op(g[t \ {Rows!Max(t)}], s[Rows!Max(t)])
        iter == CHOOSE g : g = [t \in SUBSET (1 .. Len(s)) |-> Step(g, t)]
  <1>4. Rows!Without(s, id) = iter[1 .. Len(s)]
    BY <1>2 DEF Rows!Without, Rows!FoldLeft, Rows!MapThenFoldSet
  <1>5. <<>> \in Seq(Lines)
    BY EmptySeq
  <1> PICK g \in [SUBSET (1 .. Len(s)) -> Seq(Lines)] :
         \A t \in SUBSET (1 .. Len(s)) : Folds(g, <<>>, Drops(id), s, t)
    BY <1>1, <1>5, FoldExists
  <1>6. \A r \in Seq(Lines), d \in Lines : Drops(id)[r][d] = Op(r, d)
    BY DEF Drops
  <1> HIDE DEF Op
  <1>7. ASSUME NEW t \in SUBSET (1 .. Len(s)) PROVE g[t] = Step(g, t)
    <2>1. t # {} => g[t \ {Greatest(t)}] \in Seq(Lines)
      OBVIOUS
    <2> QED BY <1>3, <1>6, <2>1, SameGreatest DEF Folds
  <1>8. g = [t \in SUBSET (1 .. Len(s)) |-> Step(g, t)]
    BY <1>7
  <1>9. iter = [t \in SUBSET (1 .. Len(s)) |-> Step(iter, t)]
    BY <1>8
  <1> HIDE DEF iter
  <1>10. ASSUME NEW t \in SUBSET (1 .. Len(s))
         PROVE  Stepped(iter, Seq(Lines), <<>>, Drops(id), s, t)
    <2>1. iter[t] = Step(iter, t)
      BY ONLY <1>9, t \in SUBSET (1 .. Len(s))
    <2> QED BY <1>3, <1>6, <2>1, SameGreatest DEF Stepped
  <1>11. EndsAt(iter[1 .. Len(s)], Seq(Lines), <<>>, Drops(id), s)
    <2>1. Iterates(iter, Seq(Lines), Lines, <<>>, Drops(id), s)
      BY <1>1, <1>5, <1>10 DEF Iterates
    <2> QED BY <2>1, FoldTraces
  <1> QED BY <1>4, <1>11

\* What is left of the first j rows when those of a child are dropped.
Sifted(kept, j, lines, id) ==
    /\ kept \in Seq(Lines) /\ OneEach(kept)
    /\ \A i \in DOMAIN kept :
           kept[i].owner # id /\ \E m \in 1 .. j : lines[m].owner = kept[i].owner

LEMMA RowsWithout ==
    ASSUME NEW id, NEW lines \in Seq(Lines), OneEach(lines)
    PROVE  /\ Drawn(Rows!Without(lines, id), lines)
           /\ \A i \in DOMAIN Rows!Without(lines, id) : Rows!Without(lines, id)[i].owner # id
  <1> PICK x : /\ Traces(x, Seq(Lines), <<>>, Drops(id), lines)
               /\ x[Len(lines)] = Rows!Without(lines, id)
    BY WithoutTrace DEF EndsAt
  <1>1. /\ Len(lines) \in Nat /\ DOMAIN lines = 1 .. Len(lines)
        /\ \A i \in 1 .. Len(lines) : lines[i] \in Lines
    BY LenProperties, ElementOfSeq
  <1> DEFINE T == {j \in Nat : j <= Len(lines) => Sifted(x[j], j, lines, id)}
  <1>2. 0 \in T
    <2>1. x[0] \in Seq(Lines) /\ DOMAIN x[0] = {}
      BY EmptySeq DEF Traces
    <2> QED BY <2>1 DEF Sifted, OneEach
  <1>3. ASSUME NEW j \in Nat, j \in T PROVE j + 1 \in T
    <2> SUFFICES ASSUME j + 1 <= Len(lines) PROVE Sifted(x[j + 1], j + 1, lines, id)
      OBVIOUS
    <2>1. j <= Len(lines) /\ j + 1 \in 1 .. Len(lines) /\ (j + 1) - 1 = j /\ j \in 0 .. Len(lines)
      BY <1>1
    <2> PICK e, r, f : Is(e, x[j]) /\ Is(r, lines[j + 1]) /\ Is(f, x[j + 1])
      BY DEF Is
    <2>2. e \in Seq(Lines) /\ r \in Lines /\ r = lines[j + 1] /\ Sifted(e, j, lines, id)
      BY <1>1, <1>3, <2>1 DEF Is, Sifted
    <2>3. f = Drops(id)[e][r]
      <3>1. x[j + 1] = Drops(id)[x[(j + 1) - 1]][lines[j + 1]]
        BY <2>1 DEF Traces
      <3> QED BY <2>1, <3>1 DEF Is
    <2>4. f = IF r.owner = id THEN e ELSE Append(e, r)
      BY <2>2, <2>3 DEF Drops
    <2>5. \A m \in 1 .. j : m \in 1 .. j + 1 /\ m \in 1 .. Len(lines) /\ m # j + 1
      BY <2>1
    <2>6. CASE r.owner = id
      BY <2>2, <2>4, <2>5, <2>6 DEF Sifted, Is
    <2>7. CASE r.owner # id
      <3>1. f = Append(e, r)
        BY <2>4, <2>7
      <3>2. r.owner = 0 \/ \A i \in DOMAIN e : e[i].owner # r.owner
        BY <1>1, <2>1, <2>2, <2>5, ZenonT(40) DEF Sifted, OneEach
      <3>3. OneEach(f)
        BY <2>2, <3>1, <3>2, OneEachMore DEF Sifted
      <3>4. /\ f \in Seq(Lines) /\ f[Len(e) + 1] = r /\ DOMAIN e = 1 .. Len(e)
            /\ \A i \in 1 .. Len(e) : f[i] = e[i]
            /\ \A i \in DOMAIN f : i = Len(e) + 1 \/ i \in DOMAIN e
        BY <2>2, <3>1, OneMore
      <3>5. ASSUME NEW i \in DOMAIN f
            PROVE  f[i].owner # id /\ \E m \in 1 .. j + 1 : lines[m].owner = f[i].owner
        <4>1. CASE i = Len(e) + 1
          <5>1. j + 1 \in 1 .. j + 1
            BY <2>1
          <5> QED BY <2>2, <2>7, <3>4, <4>1, <5>1
        <4>2. CASE i \in DOMAIN e
          BY <2>2, <2>5, <3>4, <4>2 DEF Sifted
        <4> QED BY <3>4, <4>1, <4>2
      <3>6. Sifted(f, j + 1, lines, id)
        BY <3>3, <3>4, <3>5 DEF Sifted
      <3> QED BY <3>6 DEF Is
    <2> QED BY <2>6, <2>7
  <1>4. \A j \in Nat : j \in T
    <2> HIDE DEF T
    <2> QED BY <1>2, <1>3, Induction
  <1>5. Sifted(Rows!Without(lines, id), Len(lines), lines, id)
    BY <1>1, <1>4
  <1> QED BY <1>1, <1>5 DEF Sifted, Drawn

-----------------------------------------------------------------------------
(* What the steps do to the rows.                                           *)

Views == [id : Nat \ {0}, long : BOOLEAN, expanded : BOOLEAN]

\* Views have ids of their own, handed out before.
ViewsOk ==
    /\ subagents \in Seq(Views)
    /\ nextSubagent \in Nat \ {0}
    /\ \A k \in DOMAIN subagents : subagents[k].id < nextSubagent
    /\ \A k, l \in DOMAIN subagents : subagents[k].id = subagents[l].id => k = l

\* A child's row is there once, and its view, if it is kept, says so.
OwnersOk ==
    /\ transcript \in Seq(Lines) /\ OneEach(transcript)
    /\ \A i \in DOMAIN transcript :
         /\ transcript[i].owner < nextSubagent
         /\ \A k \in DOMAIN subagents :
              subagents[k].id = transcript[i].owner => subagents[k].expanded

\* The text kept for the rendered block is what was heard.
TextOk ==
    /\ heard \in Seq(Nat) /\ streaming = heard /\ streamStart \in Nat \cup {Rows!None}
    /\ heard # <<>> => streamStart # Rows!None

RowsInv == CacheInv /\ ViewsOk /\ OwnersOk /\ TextOk

LEMMA ViewTyped ==
    ASSUME NEW v \in Views
    PROVE  v.id \in Nat /\ v.id # 0
  BY ONLY v \in Views DEF Views

LEMMA ViewIds ==
    ASSUME ViewsOk
    PROVE  /\ \A k \in DOMAIN subagents : subagents[k].id \in Nat /\ subagents[k].id # 0
           /\ nextSubagent \in Nat /\ nextSubagent > 0
  <1>1. \A k \in DOMAIN subagents : subagents[k] \in Views
    BY LenProperties, ElementOfSeq DEF ViewsOk
  <1> QED BY <1>1, ViewTyped DEF ViewsOk

\* The first n rows stay and the others are stale.
Redrawn(n) ==
    /\ Drawn(transcript', transcript)
    /\ n \in Nat /\ n <= Len(transcript) /\ n <= Len(transcript')
    /\ \A k \in 1 .. n : transcript'[k] = transcript[k]
    /\ dirty' = Rows!Earlier(n) /\ offsets' = offsets /\ width' = width

LEMMA RedrawnKeeps ==
    ASSUME RowsInv, NEW n, Redrawn(n), subagents' = subagents, nextSubagent' = nextSubagent
    PROVE  CacheInv' /\ ViewsOk' /\ OwnersOk'
  <1>1. CacheInv'
    BY CacheKept DEF RowsInv, OwnersOk, Redrawn, Drawn
  <1>2. ViewsOk'
    BY DEF RowsInv, ViewsOk
  <1>3. OwnersOk'
    <2>1. transcript' \in Seq(Lines) /\ OneEach(transcript')
      BY DEF Redrawn, Drawn
    <2>2. ASSUME NEW i \in DOMAIN transcript'
          PROVE  /\ transcript'[i].owner < nextSubagent'
                 /\ \A k \in DOMAIN subagents' :
                      subagents'[k].id = transcript'[i].owner => subagents'[k].expanded
      <3> PICK o : Is(o, transcript'[i].owner)
        BY DEF Is
      <3>1. CASE o = 0
        <4>1. /\ nextSubagent \in Nat /\ nextSubagent > 0
              /\ \A k \in DOMAIN subagents : subagents[k].id # 0
          BY ViewIds DEF RowsInv
        <4> QED BY <3>1, <4>1 DEF Is
      <3>2. CASE o # 0
        <4> PICK j \in DOMAIN transcript : transcript[j].owner = o
          BY <3>2 DEF Redrawn, Drawn, Is
        <4> QED BY DEF RowsInv, OwnersOk, Is
      <3> QED BY <3>1, <3>2
    <2> QED BY <2>1, <2>2 DEF OwnersOk
  <1> QED BY <1>1, <1>2, <1>3

LEMMA MarkTyped ==
    ASSUME NEW voice \in {"assistant", "other"}
    PROVE  \E r \in Lines : Rows!Mark(voice) = <<r>> /\ r.owner = 0 /\ r.text = <<0>>
  <1> PICK t : Is(t, <<0>>)
    BY DEF Is
  <1>1. t \in Seq(Nat)
    BY DEF Is
  <1> PICK r : Is(r, Rows!Row(voice, 0, t))
    BY DEF Is
  <1>2. r \in Lines /\ r.owner = 0 /\ r.text = t
    BY ONLY <1>1, RowTyped, Is(r, Rows!Row(voice, 0, t)), voice \in {"assistant", "other"} DEF Is
  <1>3. Rows!Mark(voice) = <<r>>
    BY DEF Rows!Mark, Is
  <1> QED BY <1>2, <1>3 DEF Is

LEMMA RowAdded ==
    ASSUME RowsInv, NEW r \in Lines, r.owner = 0, transcript' = Append(transcript, r),
           dirty' = Rows!Earlier(Len(transcript)), offsets' = offsets, width' = width
    PROVE  Redrawn(Len(transcript))
  <1>1. transcript \in Seq(Lines) /\ OneEach(transcript)
    BY DEF RowsInv, OwnersOk
  <1>2. Drawn(transcript, transcript)
    BY <1>1, DrawnSame
  <1>3. /\ Drawn(transcript', transcript) /\ Len(transcript') = Len(transcript) + 1
        /\ Len(transcript) \in Nat
        /\ \A i \in 1 .. Len(transcript) : transcript'[i] = transcript[i]
    BY <1>2, DrawnMore
  <1> QED BY <1>3 DEF Redrawn

LEMMA Marked ==
    ASSUME RowsInv, NEW voice \in {"assistant", "other"}, Rows!Appended(Rows!Mark(voice)),
           offsets' = offsets, width' = width
    PROVE  Redrawn(Len(transcript))
  <1> PICK r \in Lines : Rows!Mark(voice) = <<r>> /\ r.owner = 0
    BY MarkTyped
  <1>1. transcript' = transcript \o <<r>> /\ dirty' = Rows!Earlier(Len(transcript))
    BY DEF Rows!Appended
  <1>2. transcript \in Seq(Lines)
    BY DEF RowsInv, OwnersOk
  <1>3. transcript' = Append(transcript, r)
    BY <1>1, <1>2, JoinOne
  <1> QED BY <1>1, <1>3, RowAdded

LEMMA LogKeeps ==
    ASSUME RowsInv,
           \/ \E voice \in {"assistant", "other"} : Rows!Log(voice)
           \/ Rows!ToolOutput
    PROVE  RowsInv'
  <1>1. PICK voice \in {"assistant", "other"} :
           /\ Rows!Appended(Rows!Mark(voice))
           /\ streamStart' = streamStart /\ streaming' = streaming /\ subagents' = subagents
           /\ nextSubagent' = nextSubagent /\ offsets' = offsets /\ width' = width
           /\ heard' = heard
    BY DEF Rows!Log, Rows!ToolOutput, Rows!cacheVars
  <1>2. Redrawn(Len(transcript))
    BY <1>1, Marked
  <1>3. TextOk'
    BY <1>1 DEF RowsInv, TextOk
  <1> QED BY <1>1, <1>2, <1>3, RedrawnKeeps DEF RowsInv

LEMMA SubagentKeeps ==
    ASSUME RowsInv, Rows!SubagentFinished
    PROVE  RowsInv'
  <1>1. /\ streamStart' = streamStart /\ streaming' = streaming /\ nextSubagent' = nextSubagent + 1
        /\ offsets' = offsets /\ width' = width /\ heard' = heard
        /\ Rows!Appended(Rows!Mark("other"))
    BY DEF Rows!SubagentFinished, Rows!cacheVars
  <1>2. Redrawn(Len(transcript))
    BY <1>1, Marked
  <1>3. /\ subagents \in Seq(Views) /\ nextSubagent \in Nat \ {0}
        /\ \A k \in DOMAIN subagents : /\ subagents[k].id < nextSubagent
                                       /\ subagents[k].id \in Nat /\ subagents[k].id # 0
        /\ \A k, l \in DOMAIN subagents : subagents[k].id = subagents[l].id => k = l
    BY ViewIds DEF RowsInv, ViewsOk
  <1> PICK all, v : /\ v \in Views /\ v.id = nextSubagent /\ Is(all, Append(subagents, v))
                    /\ subagents' = all \/ subagents' = Tail(all)
    <2> PICK long \in BOOLEAN :
            subagents' = LET all == Append(subagents, Rows!View(nextSubagent, long))
                         IN  IF Len(all) > MaxViews THEN Tail(all) ELSE all
      BY DEF Rows!SubagentFinished
    <2>1. Rows!View(nextSubagent, long) \in Views /\ Rows!View(nextSubagent, long).id = nextSubagent
      BY <1>3 DEF Rows!View, Views
    <2> QED BY <2>1 DEF Is
  <1>4. /\ all \in Seq(Views) /\ Len(all) = Len(subagents) + 1 /\ all[Len(subagents) + 1] = v
        /\ \A k \in 1 .. Len(subagents) : all[k] = subagents[k]
        /\ Len(subagents) \in Nat /\ DOMAIN subagents = 1 .. Len(subagents)
        /\ DOMAIN all = 1 .. Len(subagents) + 1
    <2>1. /\ all \in Seq(Views) /\ Len(all) = Len(subagents) + 1 /\ all[Len(subagents) + 1] = v
          /\ \A k \in 1 .. Len(subagents) : all[k] = subagents[k]
      BY <1>3, AppendProperties DEF Is
    <2> QED BY <1>3, <2>1, LenProperties
  <1>5. /\ \A k \in DOMAIN all : k = Len(subagents) + 1 \/ k \in DOMAIN subagents
        /\ Len(subagents) + 1 \notin DOMAIN subagents
    BY ONLY <1>4
  <1>6. /\ \A k \in DOMAIN all : all[k].id < nextSubagent + 1
        /\ \A k, l \in DOMAIN all : all[k].id = all[l].id => k = l
    <2> PICK n : Is(n, Len(subagents) + 1)
      BY DEF Is
    <2>1. /\ all[n].id = nextSubagent /\ \A k \in DOMAIN subagents : all[k] = subagents[k]
          /\ \A k \in DOMAIN all : k = n \/ k \in DOMAIN subagents
      BY <1>4, <1>5 DEF Is
    <2>2. \A k \in DOMAIN subagents : /\ all[k].id < nextSubagent /\ all[k].id \in Nat
                                      /\ all[k].id # nextSubagent
      BY <1>3, <2>1
    <2>3. \A k \in DOMAIN all : all[k].id < nextSubagent + 1
      <3> SUFFICES ASSUME NEW k \in DOMAIN all PROVE all[k].id < nextSubagent + 1
        OBVIOUS
      <3>1. CASE k = n
        BY <1>3, <2>1, <3>1
      <3>2. CASE k \in DOMAIN subagents
        BY <1>3, <2>2, <3>2
      <3> QED BY <2>1, <3>1, <3>2
    <2>4. ASSUME NEW k \in DOMAIN all, NEW l \in DOMAIN all, all[k].id = all[l].id
          PROVE  k = l
      BY <1>3, <2>1, <2>2, <2>4
    <2> QED BY <2>3, <2>4
  <1>7. /\ subagents' \in Seq(Views)
        /\ \A k \in DOMAIN subagents' : \E l \in DOMAIN all : subagents'[k] = all[l]
        /\ \A k, l \in DOMAIN subagents' : subagents'[k].id = subagents'[l].id => k = l
    <2>1. CASE subagents' = all
      BY <1>4, <1>6, <2>1
    <2>2. CASE subagents' = Tail(all)
      <3>1. /\ subagents' \in Seq(Views) /\ DOMAIN subagents' = 1 .. Len(subagents)
            /\ \A k \in 1 .. Len(subagents) : subagents'[k] = all[k + 1]
        BY ONLY <1>4, <2>2, HeadTailProperties, LenProperties, EmptySeq
      <3>2. \A k \in 1 .. Len(subagents) : k + 1 \in DOMAIN all
        BY <1>4
      <3>3. \A k, l \in 1 .. Len(subagents) : k + 1 = l + 1 => k = l
        BY <1>4
      <3> QED BY <1>6, <3>1, <3>2, <3>3
    <2> QED BY <2>1, <2>2
  <1>8. ViewsOk'
    BY <1>1, <1>3, <1>6, <1>7 DEF ViewsOk
  <1>9. OwnersOk'
    <2>1. transcript' \in Seq(Lines) /\ OneEach(transcript')
      BY <1>2 DEF Redrawn, Drawn
    <2>2. ASSUME NEW i \in DOMAIN transcript'
          PROVE  /\ transcript'[i].owner < nextSubagent'
                 /\ \A k \in DOMAIN subagents' :
                      subagents'[k].id = transcript'[i].owner => subagents'[k].expanded
      <3> PICK o : Is(o, transcript'[i].owner)
        BY DEF Is
      <3>1. o = 0 \/ \E j \in DOMAIN transcript : transcript[j].owner = o
        BY <1>2 DEF Redrawn, Drawn, Is
      <3>2. o \in Nat /\ o < nextSubagent
        <4>1. transcript'[i] \in Lines
          BY <2>1, LenProperties, ElementOfSeq
        <4>2. o \in Nat
          BY <4>1 DEF Lines, Is
        <4>3. CASE o = 0
          BY <1>3, <4>3
        <4>4. CASE o # 0
          <5> PICK j \in DOMAIN transcript : transcript[j].owner = o
            BY <3>1, <4>4
          <5>1. transcript[j].owner < nextSubagent
            BY ONLY RowsInv, j \in DOMAIN transcript DEF RowsInv, OwnersOk
          <5> QED BY ONLY <4>2, <5>1, transcript[j].owner = o
        <4> QED BY <4>2, <4>3, <4>4
      <3>3. ASSUME NEW k \in DOMAIN subagents', subagents'[k].id = o
            PROVE  subagents'[k].expanded
        <4> PICK l \in DOMAIN all : subagents'[k] = all[l]
          BY <1>7
        <4> PICK n : Is(n, Len(subagents) + 1)
          BY DEF Is
        <4>0. /\ all[n].id = nextSubagent /\ (l = n \/ l \in DOMAIN subagents)
              /\ \A j \in DOMAIN subagents : all[j] = subagents[j]
          BY <1>4, <1>5 DEF Is
        <4>1. l \in DOMAIN subagents /\ all[l] = subagents[l] /\ o # 0
          BY <1>3, <3>2, <3>3, <4>0
        <4> QED BY <3>1, <3>3, <4>1 DEF RowsInv, OwnersOk
      <3> QED BY <1>1, <1>3, <3>2, <3>3 DEF Is
    <2> QED BY <2>1, <2>2 DEF OwnersOk
  <1>10. CacheInv'
    BY <1>2, CacheKept DEF RowsInv, OwnersOk, Redrawn, Drawn
  <1>11. TextOk'
    BY <1>1 DEF RowsInv, TextOk
  <1> QED BY <1>8, <1>9, <1>10, <1>11 DEF RowsInv

LEMMA ClearKeeps ==
    ASSUME RowsInv, Rows!Clear
    PROVE  RowsInv'
  <1>1. /\ transcript' = <<>> /\ dirty' = Rows!Earlier(0) /\ streamStart' = streamStart
        /\ streaming' = streaming /\ subagents' = subagents /\ nextSubagent' = nextSubagent
        /\ offsets' = offsets /\ width' = width /\ heard' = heard
    BY DEF Rows!Clear, Rows!cacheVars
  <1>2. transcript \in Seq(Lines) /\ OneEach(transcript) /\ Len(transcript) \in Nat
    BY LenProperties DEF RowsInv, OwnersOk
  <1>3. Redrawn(0)
    <2>1. Drawn(transcript', transcript)
      BY <1>1, <1>2, DrawnSame
    <2>2. Len(transcript') = 0
      BY <1>1, EmptySeq
    <2> QED BY <1>1, <1>2, <2>1, <2>2 DEF Redrawn
  <1>4. TextOk'
    BY <1>1 DEF RowsInv, TextOk
  <1> QED BY <1>1, <1>3, <1>4, RedrawnKeeps DEF RowsInv

LEMMA ResumedKeeps ==
    ASSUME RowsInv, Rows!SessionResumed
    PROVE  RowsInv'
  <1> PICK last \in {"assistant", "other"} : transcript' = Rows!Mark("other") \o Rows!Mark(last)
    BY DEF Rows!SessionResumed
  <1>1. /\ dirty' = Rows!Earlier(0) /\ streamStart' = streamStart
        /\ streaming' = streaming /\ subagents' = subagents /\ nextSubagent' = nextSubagent
        /\ offsets' = offsets /\ width' = width /\ heard' = heard
    BY DEF Rows!SessionResumed, Rows!cacheVars
  <1>2. transcript \in Seq(Lines) /\ OneEach(transcript) /\ Len(transcript) \in Nat
    BY LenProperties DEF RowsInv, OwnersOk
  <1> PICK a, b : /\ a \in Lines /\ a.owner = 0 /\ Rows!Mark("other") = <<a>>
                  /\ b \in Lines /\ b.owner = 0 /\ Rows!Mark(last) = <<b>>
    BY MarkTyped
  <1>3. transcript' = Append(Append(<<>>, a), b)
    <2>1. <<>> \in Seq(Lines) /\ <<>> \o (<<a>> \o <<b>>) = Append(Append(<<>>, a), b)
      BY EmptySeq, JoinTwo
    <2>2. <<a>> \o <<b>> \in Seq(Lines)
      OBVIOUS
    <2>3. <<>> \o (<<a>> \o <<b>>) = <<a>> \o <<b>>
      BY <2>2, ConcatEmptySeq
    <2> QED BY ONLY <2>1, <2>3, transcript' = Rows!Mark("other") \o Rows!Mark(last),
                    Rows!Mark("other") = <<a>>, Rows!Mark(last) = <<b>>
  <1>4. Drawn(transcript', transcript) /\ Len(transcript') \in Nat
    <2>1. Drawn(<<>>, transcript)
      BY <1>2, DrawnSame
    <2>2. Drawn(Append(<<>>, a), transcript)
      BY <2>1, DrawnMore
    <2>3. Drawn(Append(Append(<<>>, a), b), transcript)
      BY <2>2, DrawnMore
    <2> QED BY <1>3, <2>3, LenProperties DEF Drawn
  <1>5. Redrawn(0)
    BY <1>1, <1>2, <1>4 DEF Redrawn
  <1>6. TextOk'
    BY <1>1 DEF RowsInv, TextOk
  <1> QED BY <1>1, <1>5, <1>6, RedrawnKeeps DEF RowsInv

LEMMA ExpandOutputKeeps ==
    ASSUME RowsInv, Rows!ExpandOutput
    PROVE  RowsInv'
  <1>1. /\ transcript' = transcript \o (Rows!Mark("other") \o Rows!Mark("assistant"))
        /\ dirty' = Rows!Earlier(Len(transcript)) /\ streamStart' = streamStart
        /\ streaming' = streaming /\ subagents' = subagents /\ nextSubagent' = nextSubagent
        /\ offsets' = offsets /\ width' = width /\ heard' = heard
    BY DEF Rows!ExpandOutput, Rows!cacheVars, Rows!Appended
  <1>2. transcript \in Seq(Lines) /\ OneEach(transcript) /\ Len(transcript) \in Nat
    BY LenProperties DEF RowsInv, OwnersOk
  <1> PICK a, b : /\ a \in Lines /\ a.owner = 0 /\ Rows!Mark("other") = <<a>>
                  /\ b \in Lines /\ b.owner = 0 /\ Rows!Mark("assistant") = <<b>>
    BY MarkTyped
  <1>3. transcript' = Append(Append(transcript, a), b)
    BY <1>1, <1>2, JoinTwo, ZenonT(40)
  <1>4. Redrawn(Len(transcript))
    <2>1. Drawn(transcript, transcript)
      BY <1>2, DrawnSame
    <2> PICK u : Is(u, Append(transcript, a))
      BY DEF Is
    <2>2. /\ Drawn(u, transcript) /\ Len(u) = Len(transcript) + 1
          /\ \A i \in 1 .. Len(transcript) : u[i] = transcript[i]
      BY <2>1, DrawnMore DEF Is
    <2>3. transcript' = Append(u, b)
      BY <1>3 DEF Is
    <2>4. /\ Drawn(transcript', transcript) /\ Len(transcript') = Len(u) + 1
          /\ \A i \in 1 .. Len(u) : transcript'[i] = u[i]
      BY <2>2, <2>3, DrawnMore
    <2>5. \A i \in 1 .. Len(transcript) : transcript'[i] = transcript[i]
      BY ONLY <1>2, <2>2, <2>4
    <2> QED BY ONLY <1>1, <1>2, <2>2, <2>4, <2>5 DEF Redrawn
  <1>5. TextOk'
    BY <1>1 DEF RowsInv, TextOk
  <1> QED BY <1>1, <1>4, <1>5, RedrawnKeeps DEF RowsInv

LEMMA MeasuredKeeps ==
    ASSUME RowsInv, Rows!Measure
    PROVE  RowsInv'
  <1>1. CacheInv'
    BY MeasureKeeps DEF RowsInv, OwnersOk
  <1>2. /\ transcript' = transcript /\ streamStart' = streamStart /\ streaming' = streaming
        /\ subagents' = subagents /\ nextSubagent' = nextSubagent /\ heard' = heard
    BY DEF Rows!Measure
  <1> QED BY <1>1, <1>2 DEF RowsInv, ViewsOk, OwnersOk, TextOk

LEMMA TokenKeeps ==
    ASSUME RowsInv, Rows!TokenDelta
    PROVE  RowsInv'
  <1> PICK token : Is(token, Len(heard) + 1)
    BY DEF Is
  <1>1. /\ heard' = Append(heard, token) /\ streaming' = Append(streaming, token)
        /\ dirty' = Rows!Earlier(Rows!StaleByToken)
        /\ streamStart' = IF streamStart # Rows!None THEN streamStart
                          ELSE IF Rows!ExtendsLast THEN Len(transcript) - 1 ELSE Len(transcript)
        /\ subagents' = subagents /\ nextSubagent' = nextSubagent
        /\ offsets' = offsets /\ width' = width
    BY DEF Rows!TokenDelta, Rows!Streamed, Rows!cacheVars, Is
  <1>2. heard \in Seq(Nat) /\ streaming = heard /\ token \in Nat
    BY LenProperties DEF RowsInv, TextOk, Is
  <1>3. transcript \in Seq(Lines) /\ OneEach(transcript) /\ Len(transcript) \in Nat
    BY LenProperties DEF RowsInv, OwnersOk
  <1>4. Rows!ExtendsLast => Len(transcript) \in 1 .. Len(transcript)
    BY <1>3, EmptySeq DEF Rows!ExtendsLast
  <1>5. TextOk'
    <2>1. heard' \in Seq(Nat) /\ streaming' = heard' /\ heard' # <<>>
      BY <1>1, <1>2, AppendProperties
    <2>2. streamStart' \in Nat /\ streamStart' # Rows!None
      BY <1>1, <1>3, <1>4 DEF RowsInv, TextOk, Rows!None
    <2> QED BY <2>1, <2>2 DEF TextOk
  <1>6. \E n : Redrawn(n)
    <2>1. CASE Rows!ExtendsLast
      <3> PICK n : Is(n, Len(transcript))
        BY DEF Is
      <3>1. n \in Nat /\ n # 0 /\ n - 1 \in Nat /\ DOMAIN transcript = 1 .. n /\ n = Len(transcript)
        BY <1>3, <1>4, <2>1, LenProperties DEF Is
      <3> PICK e : Is(e, transcript[n])
        BY DEF Is
      <3>2. e \in Lines
        BY <1>3, <3>1, ElementOfSeq DEF Is
      <3> PICK f : Is(f, [e EXCEPT !.text = Append(@, token)])
        BY DEF Is
      <3>3. f \in Lines /\ f.owner = e.owner
        <4>1. e.text \in Seq(Nat)
          BY <3>2 DEF Lines
        <4>2. Append(e.text, token) \in Seq(Nat)
          BY <1>2, <4>1, AppendProperties
        <4> PICK t : Is(t, Append(e.text, token))
          BY DEF Is
        <4>3. t \in Seq(Nat) /\ f = [e EXCEPT !.text = t]
          BY <4>2 DEF Is
        <4> QED BY ONLY <3>2, <4>3 DEF Lines
      <3>4. transcript' = [transcript EXCEPT ![n] = f]
        BY <2>1 DEF Rows!TokenDelta, Is
      <3>5. /\ transcript' \in Seq(Lines) /\ DOMAIN transcript' = DOMAIN transcript
            /\ transcript'[n] = f /\ Len(transcript') = Len(transcript)
            /\ \A k \in 1 .. n - 1 : transcript'[k] = transcript[k]
        BY ONLY <1>3, <3>1, <3>3, <3>4, ExceptSeq, ElementOfSeq, LenProperties
      <3>6. \A k \in DOMAIN transcript : k = n \/ k \in 1 .. n - 1
        BY <3>1
      <3>7. \A k \in DOMAIN transcript : transcript'[k].owner = transcript[k].owner
        BY <3>3, <3>5, <3>6 DEF Is
      <3>8. Drawn(transcript', transcript)
        BY <1>3, <3>5, <3>7 DEF Drawn, OneEach
      <3>9. dirty' = Rows!Earlier(n - 1)
        BY <1>1, <2>1 DEF Rows!StaleByToken, Is
      <3> QED BY <1>1, <3>1, <3>5, <3>8, <3>9 DEF Redrawn
    <2>2. CASE ~Rows!ExtendsLast
      <3> PICK t : Is(t, <<token>>)
        BY DEF Is
      <3>1. t \in Seq(Nat)
        BY <1>2 DEF Is
      <3> PICK r : Is(r, Rows!Row("assistant", 0, t))
        BY DEF Is
      <3>2. r \in Lines /\ r.owner = 0
        BY ONLY <3>1, RowTyped, Is(r, Rows!Row("assistant", 0, t)) DEF Is
      <3>3. transcript' = Append(transcript, r)
        BY <2>2 DEF Rows!TokenDelta, Is
      <3>4. dirty' = Rows!Earlier(Len(transcript))
        BY <1>1, <2>2 DEF Rows!StaleByToken
      <3> QED BY <1>1, <3>2, <3>3, <3>4, RowAdded
    <2> QED BY <2>1, <2>2
  <1> QED BY <1>1, <1>5, <1>6, RedrawnKeeps DEF RowsInv

\* The rendered block is one row, or two that share the text.
LEMMA RenderedRows ==
    ASSUME NEW text \in Seq(Nat), NEW block \in Rows!Rendered(text), NEW kept \in Seq(Lines)
    PROVE  \/ \E a \in Lines :
                a.owner = 0 /\ a.text = text /\ kept \o block = Append(kept, a)
           \/ \E a \in Lines, b \in Lines, i \in 1 .. Len(text) - 1 :
                /\ a.owner = 0 /\ a.text = SubSeq(text, 1, i)
                /\ b.owner = 0 /\ b.text = SubSeq(text, i + 1, Len(text))
                /\ kept \o block = Append(Append(kept, a), b)
  <1>1. \/ block = <<Rows!Row("assistant", 0, text)>>
        \/ \E i \in 1 .. Len(text) - 1 :
             block = <<Rows!Row("assistant", 0, SubSeq(text, 1, i)),
                       Rows!Row("assistant", 0, SubSeq(text, i + 1, Len(text)))>>
    BY DEF Rows!Rendered
  <1>2. CASE block = <<Rows!Row("assistant", 0, text)>>
    <2> PICK a : Is(a, Rows!Row("assistant", 0, text))
      BY DEF Is
    <2>1. a \in Lines /\ a.owner = 0 /\ a.text = text
      BY ONLY RowTyped, text \in Seq(Nat), Is(a, Rows!Row("assistant", 0, text)) DEF Is
    <2>2. block = <<a>>
      BY <1>2 DEF Is
    <2>3. kept \o block = Append(kept, a)
      BY <2>1, <2>2, JoinOne
    <2> QED BY <2>1, <2>3
  <1>3. ASSUME NEW i \in 1 .. Len(text) - 1,
               block = <<Rows!Row("assistant", 0, SubSeq(text, 1, i)),
                         Rows!Row("assistant", 0, SubSeq(text, i + 1, Len(text)))>>
        PROVE  \E a \in Lines, b \in Lines :
                 /\ a.owner = 0 /\ a.text = SubSeq(text, 1, i)
                 /\ b.owner = 0 /\ b.text = SubSeq(text, i + 1, Len(text))
                 /\ kept \o block = Append(Append(kept, a), b)
    <2> PICK t, u : Is(t, SubSeq(text, 1, i)) /\ Is(u, SubSeq(text, i + 1, Len(text)))
      BY DEF Is
    <2>1. t \in Seq(Nat) /\ u \in Seq(Nat)
      BY ONLY text \in Seq(Nat), i \in 1 .. Len(text) - 1,
              Is(t, SubSeq(text, 1, i)), Is(u, SubSeq(text, i + 1, Len(text))) DEF Is
    <2> PICK a, b : Is(a, Rows!Row("assistant", 0, t)) /\ Is(b, Rows!Row("assistant", 0, u))
      BY DEF Is
    <2>2. /\ a \in Lines /\ a.owner = 0 /\ a.text = t
          /\ b \in Lines /\ b.owner = 0 /\ b.text = u
      BY ONLY RowTyped, <2>1, Is(a, Rows!Row("assistant", 0, t)),
              Is(b, Rows!Row("assistant", 0, u)) DEF Is
    <2>3. block = <<a, b>>
      BY ONLY <1>3, Is(a, Rows!Row("assistant", 0, t)), Is(b, Rows!Row("assistant", 0, u)),
              Is(t, SubSeq(text, 1, i)), Is(u, SubSeq(text, i + 1, Len(text))) DEF Is
    <2>4. kept \o block = Append(Append(kept, a), b)
      BY <2>2, <2>3, JoinTwo, SMTT(40)
    <2> QED BY <2>2, <2>4 DEF Is
  <1> QED BY <1>1, <1>2, <1>3

\* Everything up to n is kept, and rows of nobody follow.
Continues(lines, n) ==
    /\ Drawn(lines, transcript)
    /\ n \in Nat /\ n <= Len(transcript) /\ n <= Len(lines)
    /\ \A k \in 1 .. n : lines[k] = transcript[k]

LEMMA ContinuesMore ==
    ASSUME NEW lines, NEW n, Continues(lines, n), NEW r \in Lines, r.owner = 0
    PROVE  Continues(Append(lines, r), n)
  <1> PICK u : Is(u, Append(lines, r))
    BY DEF Is
  <1>1. /\ Drawn(u, transcript) /\ Len(u) = Len(lines) + 1 /\ Len(lines) \in Nat
        /\ \A i \in 1 .. Len(lines) : u[i] = lines[i]
    BY DrawnMore DEF Continues, Is
  <1>2. \A k \in 1 .. n : u[k] = transcript[k]
    BY ONLY <1>1, Continues(lines, n) DEF Continues
  <1>3. n <= Len(u)
    BY <1>1 DEF Continues
  <1> QED BY <1>1, <1>2, <1>3 DEF Continues, Is

\* The rows of a completed turn: what was kept, the block, a mark.
LEMMA CompletedRows ==
    ASSUME RowsInv, Rows!TurnCompleted, streamStart # Rows!None, streaming # <<>>
    PROVE  \E kept, n : \E block \in Rows!Rendered(heard), m \in Lines :
             /\ Continues(kept, n) /\ Len(kept) = n /\ m.owner = 0 /\ m.text = <<0>>
             /\ transcript' = Append(kept \o block, m)
             /\ dirty' = Rows!Earlier(n)
  <1> PICK kept : Is(kept, IF streamStart < Len(transcript)
                           THEN SubSeq(transcript, 1, streamStart) ELSE transcript)
    BY DEF Is
  <1>1. /\ transcript \in Seq(Lines) /\ OneEach(transcript) /\ Len(transcript) \in Nat
        /\ streaming = heard /\ heard \in Seq(Nat) /\ streamStart \in Nat
    BY LenProperties DEF RowsInv, OwnersOk, TextOk
  <1> PICK block \in Rows!Rendered(heard) :
         /\ transcript' = kept \o block \o Rows!Mark("other")
         /\ dirty' = Rows!Earlier(Len(kept))
    BY <1>1 DEF Rows!TurnCompleted, Is
  <1>2. Continues(kept, Len(kept))
    <2>1. CASE streamStart < Len(transcript)
      <3>1. kept = SubSeq(transcript, 1, streamStart)
        BY <2>1 DEF Is
      <3>2. /\ Drawn(kept, transcript) /\ Len(kept) = streamStart
            /\ \A i \in 1 .. streamStart : kept[i] = transcript[i]
        BY <1>1, <2>1, <3>1, DrawnPrefix
      <3> QED BY <1>1, <2>1, <3>2 DEF Continues
    <2>2. CASE ~(streamStart < Len(transcript))
      <3>1. kept = transcript /\ Drawn(transcript, transcript)
        BY <1>1, <2>2, DrawnSame DEF Is
      <3> QED BY <1>1, <3>1 DEF Continues
    <2> QED BY <2>1, <2>2
  <1> PICK m \in Lines : Rows!Mark("other") = <<m>> /\ m.owner = 0 /\ m.text = <<0>>
    BY MarkTyped
  <1>3. kept \o block \in Seq(Lines)
    <2>1. kept \in Seq(Lines)
      BY <1>2 DEF Continues, Drawn
    <2>2. \/ \E a \in Lines : kept \o block = Append(kept, a)
          \/ \E a \in Lines, b \in Lines : kept \o block = Append(Append(kept, a), b)
      BY <1>1, <2>1, RenderedRows
    <2>3. ASSUME NEW a \in Lines, kept \o block = Append(kept, a)
          PROVE  kept \o block \in Seq(Lines)
      BY ONLY <2>1, <2>3, AppendProperties
    <2>4. ASSUME NEW a \in Lines, NEW b \in Lines, kept \o block = Append(Append(kept, a), b)
          PROVE  kept \o block \in Seq(Lines)
      <3>1. Append(kept, a) \in Seq(Lines)
        BY ONLY <2>1, a \in Lines, AppendProperties
      <3> QED BY ONLY <2>4, <3>1, AppendProperties
    <2> QED BY ONLY <2>2, <2>3, <2>4
  <1>4. transcript' = Append(kept \o block, m)
    BY <1>3, JoinOne
  <1>5. m.owner = 0 /\ m.text = <<0>> /\ dirty' = Rows!Earlier(Len(kept))
    OBVIOUS
  <1> PICK n : Is(n, Len(kept))
    BY DEF Is
  <1>6. Continues(kept, n) /\ Len(kept) = n /\ dirty' = Rows!Earlier(n)
    BY ONLY <1>2, <1>5, Is(n, Len(kept)) DEF Is
  <1> HIDE DEF Is
  <1>7. /\ Continues(kept, n) /\ Len(kept) = n /\ m.owner = 0 /\ m.text = <<0>>
        /\ transcript' = Append(kept \o block, m)
        /\ dirty' = Rows!Earlier(n)
    BY ONLY <1>4, <1>5, <1>6
  <1> QED BY ONLY <1>7, m \in Lines, block \in Rows!Rendered(heard), Zenon

LEMMA CompletedKeeps ==
    ASSUME RowsInv, Rows!TurnCompleted
    PROVE  RowsInv'
  <1>1. /\ streamStart' = Rows!None /\ streaming' = <<>> /\ heard' = <<>>
        /\ subagents' = subagents /\ nextSubagent' = nextSubagent
        /\ offsets' = offsets /\ width' = width
    BY DEF Rows!TurnCompleted, Rows!cacheVars
  <1>2. TextOk'
    <2>1. <<>> \in Seq(Nat)
      BY EmptySeq
    <2> QED BY <1>1, <2>1 DEF TextOk, Rows!None
  <1>3. \E n : Redrawn(n)
    <2>1. CASE streamStart # Rows!None /\ streaming # <<>>
      <3> PICK kept, n : \E block \in Rows!Rendered(heard), m \in Lines :
             /\ Continues(kept, n) /\ m.owner = 0
             /\ transcript' = Append(kept \o block, m) /\ dirty' = Rows!Earlier(n)
        BY <2>1, CompletedRows
      <3> PICK block \in Rows!Rendered(heard), m \in Lines :
             /\ Continues(kept, n) /\ m.owner = 0
             /\ transcript' = Append(kept \o block, m) /\ dirty' = Rows!Earlier(n)
        OBVIOUS
      <3>1. heard \in Seq(Nat) /\ kept \in Seq(Lines)
        BY DEF RowsInv, TextOk, Continues, Drawn
      <3>2. \/ \E a \in Lines : a.owner = 0 /\ kept \o block = Append(kept, a)
            \/ \E a \in Lines, b \in Lines :
                 a.owner = 0 /\ b.owner = 0 /\ kept \o block = Append(Append(kept, a), b)
        BY <3>1, RenderedRows
      <3>3. Continues(kept \o block, n)
        <4>1. ASSUME NEW a \in Lines, a.owner = 0, kept \o block = Append(kept, a)
              PROVE  Continues(kept \o block, n)
          BY <4>1, ContinuesMore
        <4>2. ASSUME NEW a \in Lines, NEW b \in Lines, a.owner = 0, b.owner = 0,
                     kept \o block = Append(Append(kept, a), b)
              PROVE  Continues(kept \o block, n)
          <5>1. Continues(Append(kept, a), n)
            BY <4>2, ContinuesMore
          <5>2. Continues(Append(Append(kept, a), b), n)
            BY <4>2, <5>1, ContinuesMore
          <5> QED BY <4>2, <5>2
        <4> QED BY <3>2, <4>1, <4>2
      <3>4. Continues(transcript', n)
        BY <3>3, ContinuesMore
      <3> QED BY <1>1, <3>4 DEF Continues, Redrawn
    <2>2. CASE ~(streamStart # Rows!None /\ streaming # <<>>)
      <3>1. Rows!Appended(Rows!Mark("other"))
        BY <2>2 DEF Rows!TurnCompleted
      <3> QED BY <1>1, <3>1, Marked
    <2> QED BY <2>1, <2>2
  <1> QED BY <1>1, <1>2, <1>3, RedrawnKeeps DEF RowsInv

\* The newest view that has something to show.
LEMMA NewestIsOne ==
    ASSUME ViewsOk, Rows!Expandable # {}
    PROVE  Rows!Newest \in DOMAIN subagents
  <1>1. Len(subagents) \in Nat /\ DOMAIN subagents = 1 .. Len(subagents)
    BY LenProperties DEF ViewsOk
  <1>2. Rows!Expandable \in SUBSET (1 .. Len(subagents))
    BY <1>1 DEF Rows!Expandable
  <1>3. \E i \in Rows!Expandable : \A j \in Rows!Expandable : i >= j
    BY <1>1, <1>2, Extremes
  <1>4. \A i, j \in 1 .. Len(subagents) : i >= j <=> j <= i
    BY <1>1
  <1>5. \E i \in Rows!Expandable : \A j \in Rows!Expandable : j <= i
    BY <1>2, <1>3, <1>4
  <1> QED BY <1>1, <1>2, <1>5 DEF Rows!Newest

\* A view is shown or hidden: nothing else about the views changes.
Toggled(k, shows) ==
    /\ ViewsOk' /\ DOMAIN subagents' = DOMAIN subagents
    /\ \A l \in DOMAIN subagents :
         /\ subagents'[l].id = subagents[l].id
         /\ l # k => subagents'[l].expanded = subagents[l].expanded
    /\ subagents'[k].expanded = shows

LEMMA ViewToggles ==
    ASSUME ViewsOk, NEW k \in DOMAIN subagents, NEW shows \in BOOLEAN,
           subagents' = [subagents EXCEPT ![k].expanded = shows],
           nextSubagent' = nextSubagent
    PROVE  Toggled(k, shows)
  <1> PICK v, e : Is(v, subagents[k]) /\ Is(e, [v EXCEPT !.expanded = shows])
    BY DEF Is
  <1>1. subagents \in Seq(Views) /\ DOMAIN subagents = 1 .. Len(subagents)
    BY LenProperties DEF ViewsOk
  <1>2. v \in Views
    BY <1>1, ElementOfSeq DEF Is
  <1>3. e \in Views /\ e.id = v.id /\ e.expanded = shows
    BY ONLY <1>2, Is(e, [v EXCEPT !.expanded = shows]), shows \in BOOLEAN DEF Is, Views
  <1>4. subagents' = [subagents EXCEPT ![k] = e]
    BY DEF Is
  <1>5. /\ subagents' \in Seq(Views) /\ DOMAIN subagents' = DOMAIN subagents
        /\ subagents'[k] = e
        /\ \A l \in DOMAIN subagents : l # k => subagents'[l] = subagents[l]
    <2> HIDE DEF Views
    <2> QED BY ONLY <1>1, <1>3, <1>4, k \in DOMAIN subagents, ExceptSeq
  <1>6. \A l \in DOMAIN subagents : subagents'[l].id = subagents[l].id
    BY <1>3, <1>5 DEF Is
  <1>7. ViewsOk'
    BY <1>5, <1>6 DEF ViewsOk
  <1> QED BY <1>3, <1>5, <1>6, <1>7 DEF Toggled

LEMMA ExpandKeeps ==
    ASSUME RowsInv, Rows!Expand
    PROVE  RowsInv'
  <1> PICK k : Is(k, Rows!Newest)
    BY DEF Is
  <1>1. k \in DOMAIN subagents /\ ~subagents[k].expanded
    BY NewestIsOne DEF RowsInv, Rows!Expand, Is
  <1>2. /\ transcript' = transcript \o (Rows!Mark("other") \o <<Rows!Row("other", subagents[k].id, <<0>>)>>)
        /\ dirty' = Rows!Earlier(Len(transcript)) /\ streamStart' = streamStart
        /\ streaming' = streaming /\ nextSubagent' = nextSubagent
        /\ offsets' = offsets /\ width' = width /\ heard' = heard
    BY DEF Rows!Expand, Rows!cacheVars, Rows!Appended, Is
  <1>3. Toggled(k, TRUE)
    <2>1. subagents' = [subagents EXCEPT ![k].expanded = TRUE]
      BY DEF Rows!Expand, Rows!Shown, Is
    <2> QED BY <1>1, <1>2, <2>1, ViewToggles DEF RowsInv
  <1>4. /\ transcript \in Seq(Lines) /\ OneEach(transcript) /\ Len(transcript) \in Nat
        /\ DOMAIN transcript = 1 .. Len(transcript)
    BY LenProperties DEF RowsInv, OwnersOk
  <1> PICK id : Is(id, subagents[k].id)
    BY DEF Is
  <1>5. /\ id \in Nat /\ id # 0 /\ id < nextSubagent
        /\ \A l \in DOMAIN subagents : subagents[l].id = id => l = k
    BY <1>1, ViewIds DEF RowsInv, ViewsOk, Is
  <1>6. \A i \in DOMAIN transcript : transcript[i].owner # id
    BY <1>1 DEF RowsInv, OwnersOk, Is
  <1> PICK t : Is(t, <<0>>)
    BY DEF Is
  <1>7. t \in Seq(Nat)
    BY DEF Is
  <1> PICK b : Is(b, Rows!Row("other", id, t))
    BY DEF Is
  <1>8. b \in Lines /\ b.owner = id
    BY ONLY <1>5, <1>7, RowTyped, Is(b, Rows!Row("other", id, t)) DEF Is
  <1> PICK a \in Lines : a.owner = 0 /\ Rows!Mark("other") = <<a>>
    BY MarkTyped
  <1>9. transcript' = Append(Append(transcript, a), b)
    <2>1. transcript' = transcript \o (<<a>> \o <<b>>)
      BY <1>2 DEF Is
    <2> QED BY ONLY <1>4, <1>8, <2>1, a \in Lines, JoinTwo
  <1> PICK u : Is(u, Append(transcript, a))
    BY DEF Is
  <1>10. /\ u \in Seq(Lines) /\ OneEach(u) /\ Len(u) = Len(transcript) + 1
         /\ \A i \in 1 .. Len(transcript) : u[i] = transcript[i]
         /\ \A i \in DOMAIN u : u[i].owner = 0 \/ \E j \in DOMAIN transcript : transcript[j].owner = u[i].owner
    <2>1. Drawn(transcript, transcript)
      BY <1>4, DrawnSame
    <2>2. /\ Drawn(u, transcript) /\ Len(u) = Len(transcript) + 1
          /\ \A i \in 1 .. Len(transcript) : u[i] = transcript[i]
      BY <2>1, DrawnMore DEF Is
    <2> QED BY <2>2 DEF Drawn
  <1>11. \A i \in DOMAIN u : u[i].owner # id
    BY <1>5, <1>6, <1>10
  <1>12. transcript' = Append(u, b)
    BY <1>9 DEF Is
  <1>13. OneEach(transcript')
    BY ONLY <1>8, <1>10, <1>11, <1>12, OneEachMore
  <1> PICK n : Is(n, Len(u) + 1)
    BY DEF Is
  <1>14. /\ transcript' \in Seq(Lines) /\ Len(transcript') = Len(u) + 1
         /\ \A i \in DOMAIN transcript' : i = n \/ i \in DOMAIN u
         /\ \A i \in DOMAIN u : transcript'[i] = u[i]
         /\ transcript'[n] = b /\ DOMAIN u = 1 .. Len(u)
    BY ONLY <1>8, <1>10, <1>12, OneMore, Is(n, Len(u) + 1) DEF Is
  <1>15. \A i \in 1 .. Len(transcript) : transcript'[i] = transcript[i]
    <2>1. \A i \in 1 .. Len(transcript) : i \in 1 .. Len(u)
      BY <1>4, <1>10
    <2> QED BY <1>10, <1>14, <2>1
  <1>16. CacheInv'
    <2>1. Len(transcript) <= Len(transcript') /\ Len(transcript) <= Len(transcript)
      BY <1>4, <1>10, <1>14
    <2> QED BY <1>2, <1>4, <1>14, <1>15, <2>1, CacheKept DEF RowsInv
  <1>17. OwnersOk'
    <2>1. ASSUME NEW i \in DOMAIN transcript'
          PROVE  /\ transcript'[i].owner < nextSubagent'
                 /\ \A l \in DOMAIN subagents' :
                      subagents'[l].id = transcript'[i].owner => subagents'[l].expanded
      <3> PICK o : Is(o, transcript'[i].owner)
        BY DEF Is
      <3>1. \/ o = id \/ o = 0
            \/ \E j \in DOMAIN transcript : transcript[j].owner = o
        BY <1>8, <1>10, <1>14 DEF Is
      <3>2. CASE o = id
        <4>1. o < nextSubagent'
          BY <1>2, <1>5, <3>2
        <4>2. \A l \in DOMAIN subagents' : subagents'[l].id = o => subagents'[l].expanded
          BY <1>3, <1>5, <3>2 DEF Toggled
        <4> QED BY <4>1, <4>2 DEF Is
      <3>3. CASE o = 0
        <4>1. nextSubagent' > 0 /\ \A l \in DOMAIN subagents' : subagents'[l].id # 0
          BY <1>3, ViewIds, <1>2 DEF RowsInv, Toggled
        <4>2. 0 < nextSubagent'
          BY <1>2, ViewIds DEF RowsInv
        <4> QED BY <3>3, <4>1, <4>2 DEF Is
      <3>4. CASE \E j \in DOMAIN transcript : transcript[j].owner = o
        <4> PICK j \in DOMAIN transcript : transcript[j].owner = o
          BY <3>4
        <4>1. /\ o < nextSubagent
              /\ \A l \in DOMAIN subagents : subagents[l].id = o => subagents[l].expanded
          BY ONLY RowsInv, j \in DOMAIN transcript, transcript[j].owner = o DEF RowsInv, OwnersOk
        <4>2. \A l \in DOMAIN subagents' : subagents'[l].id = o => subagents'[l].expanded
          BY <1>3, <4>1 DEF Toggled
        <4> QED BY <1>2, <4>1, <4>2 DEF Is
      <3> QED BY <3>1, <3>2, <3>3, <3>4
    <2> QED BY <1>13, <1>14, <2>1 DEF OwnersOk
  <1>18. TextOk'
    BY <1>2 DEF RowsInv, TextOk
  <1> QED BY <1>3, <1>16, <1>17, <1>18 DEF RowsInv, Toggled

LEMMA CollapseKeeps ==
    ASSUME RowsInv, Rows!Collapse
    PROVE  RowsInv'
  <1> PICK k : Is(k, Rows!Newest)
    BY DEF Is
  <1>1. k \in DOMAIN subagents
    BY NewestIsOne DEF RowsInv, Rows!Collapse, Is
  <1> PICK id : Is(id, subagents[k].id)
    BY DEF Is
  <1>2. /\ transcript' = Rows!Without(transcript, id) \o Rows!Mark("other")
        /\ dirty' = Rows!Earlier(0) /\ streamStart' = streamStart
        /\ streaming' = streaming /\ nextSubagent' = nextSubagent
        /\ offsets' = offsets /\ width' = width /\ heard' = heard
    BY DEF Rows!Collapse, Rows!cacheVars, Is
  <1>3. Toggled(k, FALSE)
    <2>1. subagents' = [subagents EXCEPT ![k].expanded = FALSE]
      BY DEF Rows!Collapse, Is
    <2> QED BY <1>1, <1>2, <2>1, ViewToggles DEF RowsInv
  <1>4. /\ transcript \in Seq(Lines) /\ OneEach(transcript) /\ Len(transcript) \in Nat
    BY LenProperties DEF RowsInv, OwnersOk
  <1>5. id # 0
    BY <1>1, ViewIds DEF RowsInv, Is
  <1> PICK kept : Is(kept, Rows!Without(transcript, id))
    BY DEF Is
  <1>6. Drawn(kept, transcript) /\ \A i \in DOMAIN kept : kept[i].owner # id
    BY <1>4, RowsWithout DEF Is
  <1> PICK m \in Lines : Rows!Mark("other") = <<m>> /\ m.owner = 0
    BY MarkTyped
  <1>7. kept \in Seq(Lines)
    BY <1>6 DEF Drawn
  <1>8. transcript' = Append(kept, m)
    <2>1. transcript' = kept \o <<m>>
      BY <1>2 DEF Is
    <2> QED BY ONLY <1>7, <2>1, m \in Lines, JoinOne
  <1>9. Drawn(transcript', transcript)
    BY ONLY <1>6, <1>8, m \in Lines, m.owner = 0, DrawnMore
  <1>10. \A i \in DOMAIN transcript' : transcript'[i].owner # id
    <2> PICK n : Is(n, Len(kept) + 1)
      BY DEF Is
    <2>1. /\ \A i \in DOMAIN transcript' : i = n \/ i \in DOMAIN kept
          /\ \A i \in DOMAIN kept : transcript'[i] = kept[i]
          /\ transcript'[n] = m
      BY ONLY <1>7, <1>8, m \in Lines, OneMore, Is(n, Len(kept) + 1) DEF Is
    <2> QED BY ONLY <1>5, <1>6, <2>1, m.owner = 0
  <1>11. CacheInv'
    <2>1. transcript' \in Seq(Lines) /\ Len(transcript') \in Nat
      BY <1>9, LenProperties DEF Drawn
    <2>2. 0 <= Len(transcript) /\ 0 <= Len(transcript') /\ 1 .. 0 = {}
      BY <1>4, <2>1
    <2> QED BY <1>2, <1>4, <2>1, <2>2, CacheKept DEF RowsInv
  <1>12. OwnersOk'
    <2>1. ASSUME NEW i \in DOMAIN transcript'
          PROVE  /\ transcript'[i].owner < nextSubagent'
                 /\ \A l \in DOMAIN subagents' :
                      subagents'[l].id = transcript'[i].owner => subagents'[l].expanded
      <3> PICK o : Is(o, transcript'[i].owner)
        BY DEF Is
      <3>1. o # id /\ (o = 0 \/ \E j \in DOMAIN transcript : transcript[j].owner = o)
        BY <1>9, <1>10 DEF Drawn, Is
      <3>2. CASE o = 0
        <4>1. 0 < nextSubagent' /\ \A l \in DOMAIN subagents' : subagents'[l].id # 0
          BY <1>2, <1>3, ViewIds DEF RowsInv, Toggled
        <4> QED BY <3>2, <4>1 DEF Is
      <3>3. CASE \E j \in DOMAIN transcript : transcript[j].owner = o
        <4> PICK j \in DOMAIN transcript : transcript[j].owner = o
          BY <3>3
        <4>1. /\ o < nextSubagent
              /\ \A l \in DOMAIN subagents : subagents[l].id = o => subagents[l].expanded
          BY ONLY RowsInv, j \in DOMAIN transcript, transcript[j].owner = o DEF RowsInv, OwnersOk
        <4>2. subagents[k].id # o
          BY <3>1 DEF Is
        <4>3. \A l \in DOMAIN subagents' : subagents'[l].id = o => subagents'[l].expanded
          BY <1>3, <4>1, <4>2 DEF Toggled
        <4> QED BY <1>2, <4>1, <4>3 DEF Is
      <3> QED BY <3>1, <3>2, <3>3
    <2> QED BY <1>9, <2>1 DEF OwnersOk, Drawn
  <1>13. TextOk'
    BY <1>2 DEF RowsInv, TextOk
  <1> QED BY <1>3, <1>11, <1>12, <1>13 DEF RowsInv, Toggled

LEMMA RowsStart ==
    ASSUME Rows!Init
    PROVE  RowsInv
  <1>1. /\ transcript = <<>> /\ streamStart = Rows!None /\ streaming = <<>> /\ subagents = <<>>
        /\ nextSubagent = 1 /\ offsets = <<>> /\ dirty = 0 /\ heard = <<>>
    BY DEF Rows!Init
  <1>2. \A S : <<>> \in Seq(S) /\ DOMAIN <<>> = {} /\ Len(<<>>) = 0
    BY EmptySeq
  <1>3. CacheInv
    BY <1>1, <1>2 DEF CacheInv, Rows!None
  <1>4. ViewsOk
    BY <1>1, <1>2 DEF ViewsOk
  <1>5. OwnersOk
    BY <1>1, <1>2 DEF OwnersOk, OneEach
  <1>6. TextOk
    BY <1>1, <1>2 DEF TextOk, Rows!None
  <1> QED BY <1>3, <1>4, <1>5, <1>6 DEF RowsInv

LEMMA RowsStep ==
    ASSUME RowsInv, Rows!Next
    PROVE  RowsInv'
  <1>1. CASE Rows!Submit \/ \E voice \in {"other", "assistant"} : Rows!Log(voice)
    BY <1>1, LogKeeps DEF Rows!Submit
  <1>2. CASE Rows!ToolOutput
    BY <1>2, LogKeeps
  <1>3. CASE Rows!SubagentFinished
    BY <1>3, SubagentKeeps
  <1>4. CASE Rows!TokenDelta
    BY <1>4, TokenKeeps
  <1>5. CASE Rows!TurnCompleted
    BY <1>5, CompletedKeeps
  <1>6. CASE Rows!SessionResumed
    BY <1>6, ResumedKeeps
  <1>7. CASE Rows!Clear
    BY <1>7, ClearKeeps
  <1>8. CASE Rows!Expand
    BY <1>8, ExpandKeeps
  <1>9. CASE Rows!Collapse
    BY <1>9, CollapseKeeps
  <1>10. CASE Rows!ExpandOutput
    BY <1>10, ExpandOutputKeeps
  <1>11. CASE Rows!Measure
    BY <1>11, MeasuredKeeps
  <1> QED BY <1>1, <1>2, <1>3, <1>4, <1>5, <1>6, <1>7, <1>8, <1>9, <1>10, <1>11
          DEF Rows!Next, Rows!User, Rows!Server

LEMMA RowsStay ==
    ASSUME RowsInv, UNCHANGED mcRowVars
    PROVE  RowsInv'
  <1>1. /\ transcript' = transcript /\ streamStart' = streamStart /\ streaming' = streaming
        /\ subagents' = subagents /\ nextSubagent' = nextSubagent /\ offsets' = offsets
        /\ width' = width /\ dirty' = dirty /\ heard' = heard
    BY DEF mcRowVars
  <1> QED BY <1>1 DEF RowsInv, CacheInv, Fresh, ViewsOk, OwnersOk, TextOk

LEMMA RowsInvHolds == MCSpec => []RowsInv
  <1>1. MCInit => RowsInv
    BY RowsStart DEF MCInit
  <1>2. RowsInv /\ [MCNext]_clientVars => RowsInv'
    BY RowsStep, RowsStay DEF MCNext, clientVars
  <1> QED BY <1>1, <1>2, PTL DEF MCSpec

LEMMA RowsInvSuffices ==
    ASSUME RowsInv
    PROVE  RowsAreTrue
  <1>1. Rows!HeightsAreExact
    BY HeightsExact DEF RowsInv, OwnersOk
  <1>2. ASSUME NEW id \in 1 .. nextSubagent - 1
        PROVE  LET owned == {i \in DOMAIN transcript : transcript[i].owner = id}
               IN  /\ \A i, j \in owned : i = j
                   /\ owned # {} => \A k \in DOMAIN subagents :
                                        subagents[k].id = id => subagents[k].expanded
    <2>1. id # 0
      BY ViewIds DEF RowsInv
    <2> QED BY <2>1 DEF RowsInv, OwnersOk, OneEach
  <1>3. Rows!ShownOnce
    BY <1>2 DEF Rows!ShownOnce
  <1> QED BY <1>1, <1>3 DEF RowsAreTrue, Rows!RowsAreTrue

\* Whatever is logged, streamed, cut, cleared, resumed, shown and hidden, and in
\* panes of whatever widths: a repair of the cached heights measures every row
\* right, and a child's rows are shown once and only while its view says so.
THEOREM TheRowsAreTrue == MCSpec => []RowsAreTrue
  BY RowsInvHolds, RowsInvSuffices, PTL

-----------------------------------------------------------------------------
(* The words of the rows.                                                   *)

Joins == [said \in Seq(Nat) |-> [text \in Seq(Nat) |-> said \o text]]

Texts(lines) == [i \in DOMAIN lines |-> lines[i].text]

\* Flattening a sequence is a fold.
LEMMA FlattenTrace ==
    ASSUME NEW s \in Seq(Seq(Nat))
    PROVE  EndsAt(Rows!FlattenSeq(s), Seq(Nat), <<>>, Joins, s)
  <1>1. Joins \in [Seq(Nat) -> [Seq(Nat) -> Seq(Nat)]] /\ <<>> \in Seq(Nat)
    BY ConcatProperties, EmptySeq DEF Joins
  <1> PICK x : Traces(x, Seq(Nat), <<>>, Joins, s)
    BY <1>1, TraceExists
  <1>2. /\ Len(s) \in Nat /\ DOMAIN s = 1 .. Len(s)
        /\ \A i \in 1 .. Len(s) : s[i] \in Seq(Nat)
    BY LenProperties, ElementOfSeq
  <1>3. CASE Len(s) = 0
    <2>1. s = <<>> /\ Rows!FlattenSeq(s) = s /\ x[0] = <<>>
      BY <1>3, EmptySeq DEF Rows!FlattenSeq, Traces
    <2> QED BY <1>3, <2>1 DEF EndsAt
  <1>4. CASE Len(s) # 0
    <2> DEFINE
          Step(f, i) == IF i = 1 THEN s[i] ELSE f[i - 1] \o s[i]
          flat == CHOOSE f : f = [i \in 1 .. Len(s) |-> Step(f, i)]
    <2>1. Rows!FlattenSeq(s) = flat[Len(s)]
      BY <1>4 DEF Rows!FlattenSeq
    <2>2. \A k \in 1 .. Len(s) : k - 1 \in 0 .. Len(s) /\ (k # 1 => k - 1 \in 1 .. Len(s))
      BY <1>2
    <2>3. \A k \in 1 .. Len(s) : x[k] = x[k - 1] \o s[k] /\ x[k - 1] \in Seq(Nat)
      <3> SUFFICES ASSUME NEW k \in 1 .. Len(s)
                   PROVE  x[k] = x[k - 1] \o s[k] /\ x[k - 1] \in Seq(Nat)
        OBVIOUS
      <3>1. x[k - 1] \in Seq(Nat) /\ s[k] \in Seq(Nat) /\ x[k] = Joins[x[k - 1]][s[k]]
        BY <1>2, <2>2 DEF Traces
      <3>2. \A p, q \in Seq(Nat) : Joins[p][q] = p \o q
        BY DEF Joins
      <3> QED BY ONLY <3>1, <3>2
    <2> PICK f : Is(f, [i \in 1 .. Len(s) |-> x[i]])
      BY DEF Is
    <2>4. \A i \in 1 .. Len(s) : f[i] = x[i]
      BY DEF Is
    <2>5. ASSUME NEW i \in 1 .. Len(s) PROVE x[i] = Step(f, i)
      <3>1. CASE i = 1
        <4>1. x[i - 1] = <<>>
          BY <3>1 DEF Traces
        <4>2. <<>> \o s[i] = s[i]
          BY <1>2, ConcatEmptySeq
        <4> QED BY <2>3, <3>1, <4>1, <4>2
      <3>2. CASE i # 1
        BY <2>2, <2>3, <2>4, <3>2
      <3> QED BY <3>1, <3>2
    <2>6. f = [i \in 1 .. Len(s) |-> Step(f, i)]
      <3>1. f = [i \in 1 .. Len(s) |-> x[i]]
        BY DEF Is
      <3> HIDE DEF Step
      <3> QED BY ONLY <2>5, <3>1
    <2>7. flat = [i \in 1 .. Len(s) |-> Step(flat, i)]
      BY <2>6
    <2> HIDE DEF flat
    <2>8. \A i \in 1 .. Len(s) : flat[i] = Step(flat, i)
      BY ONLY <2>7
    <2> DEFINE T == {k \in Nat : k + 1 <= Len(s) => flat[k + 1] = x[k + 1]}
    <2>9. 0 \in T
      <3>1. 1 \in 1 .. Len(s)
        BY <1>2, <1>4
      <3>2. flat[1] = s[1] /\ x[1] = s[1]
        BY <2>5, <2>8, <3>1
      <3> QED BY <3>2
    <2>10. ASSUME NEW k \in Nat, k \in T PROVE k + 1 \in T
      <3> SUFFICES ASSUME (k + 1) + 1 <= Len(s) PROVE flat[(k + 1) + 1] = x[(k + 1) + 1]
        OBVIOUS
      <3> PICK n : n = (k + 1) + 1
        OBVIOUS
      <3>1. n \in 1 .. Len(s) /\ n # 1 /\ n - 1 = k + 1 /\ k + 1 <= Len(s) /\ n - 1 \in 1 .. Len(s)
        BY <1>2
      <3>2. flat[n - 1] = x[n - 1]
        BY <2>10, <3>1
      <3>3. flat[n] = flat[n - 1] \o s[n] /\ x[n] = x[n - 1] \o s[n]
        BY <2>3, <2>8, <3>1
      <3> QED BY ONLY <3>2, <3>3, n = (k + 1) + 1
    <2>11. \A k \in Nat : k \in T
      <3> HIDE DEF T
      <3> QED BY <2>9, <2>10, Induction
    <2> PICK k : k = Len(s) - 1
      OBVIOUS
    <2>12. k \in Nat /\ k + 1 = Len(s) /\ k + 1 <= Len(s)
      BY <1>2, <1>4
    <2>13. k + 1 <= Len(s) => flat[k + 1] = x[k + 1]
      BY ONLY <2>11, <2>12
    <2>14. flat[Len(s)] = x[Len(s)]
      BY ONLY <2>12, <2>13
    <2> QED BY <2>1, <2>14 DEF EndsAt
  <1> QED BY <1>3, <1>4

LEMMA TextsTyped ==
    ASSUME NEW lines \in Seq(Lines)
    PROVE  /\ Texts(lines) \in Seq(Seq(Nat)) /\ Len(Texts(lines)) = Len(lines)
           /\ \A i \in 1 .. Len(lines) : Texts(lines)[i] = lines[i].text
  <1>1. /\ Len(lines) \in Nat /\ DOMAIN lines = 1 .. Len(lines)
        /\ \A i \in 1 .. Len(lines) : lines[i] \in Lines
    BY LenProperties, ElementOfSeq
  <1>2. \A r \in Lines : r.text \in Seq(Nat)
    BY DEF Lines
  <1> PICK s : Is(s, Texts(lines))
    BY DEF Is
  <1>3. s = [i \in 1 .. Len(lines) |-> lines[i].text]
    BY <1>1 DEF Is, Texts
  <1>4. s \in [1 .. Len(lines) -> Seq(Nat)]
    BY <1>1, <1>2, <1>3
  <1>5. s \in Seq(Seq(Nat)) /\ DOMAIN s = 1 .. Len(lines)
    BY <1>1, <1>4, SeqDef
  <1>6. Len(s) = Len(lines)
    BY <1>1, <1>5, LenProperties
  <1>7. \A i \in 1 .. Len(lines) : s[i] = lines[i].text
    BY <1>3
  <1> QED BY <1>5, <1>6, <1>7 DEF Is

\* A row adds its words.
LEMMA WordsMore ==
    ASSUME NEW lines \in Seq(Lines), NEW r \in Lines
    PROVE  /\ Rows!Words(lines) \in Seq(Nat)
           /\ Rows!Words(Append(lines, r)) = Rows!Words(lines) \o r.text
  <1> PICK u : Is(u, Append(lines, r))
    BY DEF Is
  <1>1. /\ u \in Seq(Lines) /\ Len(u) = Len(lines) + 1 /\ u[Len(lines) + 1] = r
        /\ \A i \in 1 .. Len(lines) : u[i] = lines[i]
        /\ Len(lines) \in Nat
    BY OneMore DEF Is
  <1> PICK s, q : Is(s, Texts(lines)) /\ Is(q, Texts(u))
    BY DEF Is
  <1>2. /\ s \in Seq(Seq(Nat)) /\ Len(s) = Len(lines)
        /\ \A i \in 1 .. Len(lines) : s[i] = lines[i].text
    BY TextsTyped DEF Is
  <1>3. /\ q \in Seq(Seq(Nat)) /\ Len(q) = Len(u)
        /\ \A i \in 1 .. Len(u) : q[i] = u[i].text
    BY <1>1, TextsTyped DEF Is
  <1>4. EndsAt(Rows!Words(lines), Seq(Nat), <<>>, Joins, s)
        /\ EndsAt(Rows!Words(u), Seq(Nat), <<>>, Joins, q)
    <2>1. Rows!Words(lines) = Rows!FlattenSeq(s) /\ Rows!Words(u) = Rows!FlattenSeq(q)
      BY DEF Rows!Words, Texts, Is
    <2> QED BY <1>2, <1>3, <2>1, FlattenTrace
  <1> PICK x : Traces(x, Seq(Nat), <<>>, Joins, s) /\ x[Len(s)] = Rows!Words(lines)
    BY <1>4 DEF EndsAt
  <1> PICK y : Traces(y, Seq(Nat), <<>>, Joins, q) /\ y[Len(q)] = Rows!Words(u)
    BY <1>4 DEF EndsAt
  <1> PICK n : n = Len(lines)
    OBVIOUS
  <1>5. /\ n \in Nat /\ Len(q) = n + 1 /\ Len(s) = n /\ n + 1 \in 1 .. Len(q)
        /\ (n + 1) - 1 = n /\ n \in 0 .. Len(q) /\ n \in 0 .. Len(s)
    BY <1>1, <1>2, <1>3
  <1>6. Agree(s, q, n)
    <2>1. \A i \in 1 .. n : i \in 1 .. Len(u) /\ u[i] = lines[i]
      BY <1>1
    <2>2. \A i \in 1 .. n : s[i] = q[i]
      BY <1>2, <1>3, <2>1
    <2> QED BY <1>5, <2>2 DEF Agree
  <1>7. x[n] = y[n]
    BY <1>6, TracesAgree
  <1>8. x[n] \in Seq(Nat)
    BY <1>5 DEF Traces
  <1>9. q[n + 1] = r.text /\ r.text \in Seq(Nat)
    BY <1>1, <1>3, <1>5 DEF Lines
  <1>10. y[n + 1] = Joins[y[n]][q[n + 1]]
    BY <1>5 DEF Traces
  <1>11. \A p, t \in Seq(Nat) : Joins[p][t] = p \o t
    BY DEF Joins
  <1>12. y[n + 1] = x[n] \o r.text
    BY ONLY <1>7, <1>8, <1>9, <1>10, <1>11
  <1> QED BY <1>5, <1>8, <1>12 DEF Is

LEMMA SuffixJoined ==
    ASSUME NEW s \in Seq(Nat), NEW t \in Seq(Nat)
    PROVE  Rows!IsSuffix(t, s \o t)
  <1> PICK u : Is(u, s \o t)
    BY DEF Is
  <1>1. /\ u \in Seq(Nat) /\ Len(u) = Len(s) + Len(t) /\ Len(s) \in Nat /\ Len(t) \in Nat
        /\ \A i \in 1 .. Len(s) + Len(t) : u[i] = IF i <= Len(s) THEN s[i] ELSE t[i - Len(s)]
    BY ConcatProperties, LenProperties DEF Is
  <1> PICK a, b : Is(a, Rows!Reverse(t)) /\ Is(b, Rows!Reverse(u))
    BY DEF Is
  <1>2. /\ a = [i \in 1 .. Len(t) |-> t[(Len(t) - i) + 1]]
        /\ b = [i \in 1 .. Len(u) |-> u[(Len(u) - i) + 1]]
    BY DEF Is, Rows!Reverse
  <1>3. a \in Seq(Nat) /\ b \in Seq(Nat) /\ Len(a) = Len(t) /\ Len(b) = Len(u)
    <2>1. /\ \A i \in 1 .. Len(t) : t[(Len(t) - i) + 1] \in Nat
          /\ \A i \in 1 .. Len(u) : u[(Len(u) - i) + 1] \in Nat
      <3>1. /\ \A i \in 1 .. Len(t) : (Len(t) - i) + 1 \in 1 .. Len(t)
            /\ \A i \in 1 .. Len(u) : (Len(u) - i) + 1 \in 1 .. Len(u)
        BY <1>1
      <3> QED BY <1>1, <3>1, ElementOfSeq
    <2>2. a \in [1 .. Len(t) -> Nat] /\ b \in [1 .. Len(u) -> Nat]
      BY <1>2, <2>1
    <2>3. \A n \in Nat : \A f \in [1 .. n -> Nat] : f \in Seq(Nat) /\ Len(f) = n
      BY ONLY SeqDef, LenProperties
    <2>4. Len(t) \in Nat /\ Len(u) \in Nat
      BY <1>1
    <2>5. a \in Seq(Nat) /\ Len(a) = Len(t)
      BY ONLY <2>2, <2>3, <2>4
    <2>6. b \in Seq(Nat) /\ Len(b) = Len(u)
      BY ONLY <2>2, <2>3, <2>4
    <2> QED BY <2>5, <2>6
  <1>4. \A i \in 1 .. Len(t) : a[i] = b[i]
    <2> SUFFICES ASSUME NEW i \in 1 .. Len(t) PROVE a[i] = b[i]
      OBVIOUS
    <2> PICK j : j = (Len(u) - i) + 1
      OBVIOUS
    <2>1. /\ i \in 1 .. Len(u) /\ j \in 1 .. Len(s) + Len(t) /\ ~(j <= Len(s))
          /\ j - Len(s) = (Len(t) - i) + 1
      BY <1>1
    <2>2. u[j] = t[(Len(t) - i) + 1]
      BY <1>1, <2>1
    <2> QED BY <1>2, <2>1, <2>2
  <1> PICK c, d : Is(c, SubSeq(a, 1, Len(a))) /\ Is(d, SubSeq(b, 1, Len(a)))
    BY DEF Is
  <1> PICK n : n = Len(a)
    OBVIOUS
  <1>5. n \in Nat /\ n <= Len(a) /\ n <= Len(b) /\ n = Len(t)
    BY <1>1, <1>3
  <1>6. Is(c, SubSeq(a, 1, n)) /\ Is(d, SubSeq(b, 1, n))
    OBVIOUS
  <1>7. /\ c \in Seq(Nat) /\ Len(c) = Len(t) /\ \A i \in 1 .. Len(t) : c[i] = a[i]
        /\ d \in Seq(Nat) /\ Len(d) = Len(t) /\ \A i \in 1 .. Len(t) : d[i] = b[i]
    BY ONLY <1>3, <1>5, <1>6, SMTT(40) DEF Is
  <1>8. c = d
    BY ONLY <1>4, <1>7, SeqEqual
  <1> QED BY <1>8, <1>5 DEF Is, Rows!IsSuffix, Rows!IsPrefix

LEMMA JoinThree ==
    ASSUME NEW p \in Seq(Nat), NEW q \in Seq(Nat), NEW r \in Seq(Nat)
    PROVE  (p \o q) \o r = p \o (q \o r)
  BY ConcatAssociative, SMTT(60)

LEMMA ChangedOnlyByEnd ==
    ASSUME TextOk, Rows!Next, heard # <<>>, heard' = <<>>
    PROVE  Rows!TurnCompleted
  <1>1. CASE heard' = heard
    BY <1>1
  <1>2. CASE Rows!TokenDelta
    <2>1. heard' = Append(heard, Len(heard) + 1) /\ heard \in Seq(Nat) /\ Len(heard) + 1 \in Nat
      BY <1>2, LenProperties DEF Rows!TokenDelta, TextOk
    <2>2. heard' # <<>>
      BY <2>1, AppendProperties
    <2> QED BY <2>2
  <1>3. \/ heard' = heard \/ Rows!TokenDelta \/ Rows!TurnCompleted
    BY DEF Rows!Next, Rows!User, Rows!Server, Rows!Submit, Rows!Log, Rows!Clear, Rows!Expand,
       Rows!Collapse, Rows!ExpandOutput, Rows!ToolOutput, Rows!SubagentFinished,
       Rows!SessionResumed, Rows!Measure
  <1> QED BY <1>1, <1>2, <1>3

\* The rendered block says what was heard.
LEMMA BlockSays ==
    ASSUME NEW text \in Seq(Nat), NEW block \in Rows!Rendered(text), NEW kept \in Seq(Lines)
    PROVE  /\ kept \o block \in Seq(Lines)
           /\ Rows!Words(kept \o block) = Rows!Words(kept) \o text
           /\ Rows!Words(kept) \in Seq(Nat)
  <1> PICK w : Is(w, Rows!Words(kept))
    BY DEF Is
  <1> PICK u : Is(u, kept \o block)
    BY DEF Is
  <1>1. \A r \in Lines : /\ Append(kept, r) \in Seq(Lines) /\ w \in Seq(Nat)
                         /\ Rows!Words(Append(kept, r)) = w \o r.text
    BY WordsMore, AppendProperties DEF Is
  <1>2. \/ \E a \in Lines : a.text = text /\ u = Append(kept, a)
        \/ \E a \in Lines, b \in Lines, i \in 1 .. Len(text) - 1 :
             /\ a.text = SubSeq(text, 1, i) /\ b.text = SubSeq(text, i + 1, Len(text))
             /\ u = Append(Append(kept, a), b)
    BY RenderedRows DEF Is
  <1>3. ASSUME NEW a \in Lines, a.text = text, u = Append(kept, a)
        PROVE  u \in Seq(Lines) /\ Rows!Words(u) = w \o text /\ w \in Seq(Nat)
    BY ONLY <1>1, <1>3
  <1>4. ASSUME NEW a \in Lines, NEW b \in Lines, NEW i \in 1 .. Len(text) - 1,
               a.text = SubSeq(text, 1, i), b.text = SubSeq(text, i + 1, Len(text)),
               u = Append(Append(kept, a), b)
        PROVE  u \in Seq(Lines) /\ Rows!Words(u) = w \o text /\ w \in Seq(Nat)
    <2> PICK v : Is(v, Append(kept, a))
      BY DEF Is
    <2>1. v \in Seq(Lines) /\ w \in Seq(Nat) /\ Rows!Words(v) = w \o a.text
      BY ONLY <1>1, a \in Lines, Is(v, Append(kept, a)) DEF Is
    <2>2. u = Append(v, b)
      BY ONLY <1>4, Is(v, Append(kept, a)) DEF Is
    <2>3. u \in Seq(Lines) /\ Rows!Words(u) = Rows!Words(v) \o b.text
      BY ONLY <2>1, <2>2, b \in Lines, WordsMore, AppendProperties
    <2>4. a.text \in Seq(Nat) /\ b.text \in Seq(Nat)
      BY ONLY a \in Lines, b \in Lines DEF Lines
    <2>5. a.text \o b.text = text
      <3> PICK c, d, e : Is(c, a.text) /\ Is(d, b.text) /\ Is(e, c \o d)
        BY DEF Is
      <3>1. Is(c, SubSeq(text, 1, i)) /\ Is(d, SubSeq(text, i + 1, Len(text)))
        BY ONLY <1>4, Is(c, a.text), Is(d, b.text) DEF Is
      <3>2. /\ c \in Seq(Nat) /\ Len(c) = i /\ \A k \in 1 .. i : c[k] = text[k]
            /\ d \in Seq(Nat) /\ Len(d) = Len(text) - i
            /\ \A k \in 1 .. Len(text) - i : d[k] = text[i + k]
            /\ Len(text) \in Nat
        BY ONLY <3>1, text \in Seq(Nat), i \in 1 .. Len(text) - 1, SMTT(40) DEF Is
      <3>3. /\ e \in Seq(Nat) /\ Len(e) = Len(c) + Len(d)
            /\ \A k \in 1 .. Len(c) + Len(d) : e[k] = IF k <= Len(c) THEN c[k] ELSE d[k - Len(c)]
        BY ONLY <3>2, ConcatProperties, Is(e, c \o d), ZenonT(40) DEF Is
      <3>4. Len(e) = Len(text) /\ \A k \in 1 .. Len(text) : e[k] = text[k]
        <4>1. Len(c) + Len(d) = Len(text)
          BY ONLY <3>2, i \in 1 .. Len(text) - 1
        <4>2. ASSUME NEW k \in 1 .. Len(text) PROVE e[k] = text[k]
          <5>1. CASE k <= i
            <6>1. k \in 1 .. i /\ k \in 1 .. Len(c) + Len(d) /\ k <= Len(c)
              BY ONLY <3>2, <4>1, <5>1, i \in 1 .. Len(text) - 1, k \in 1 .. Len(text)
            <6> QED BY ONLY <3>2, <3>3, <6>1
          <5>2. CASE ~(k <= i)
            <6>1. k - i \in 1 .. Len(text) - i /\ i + (k - i) = k
              BY ONLY <3>2, <5>2, i \in 1 .. Len(text) - 1, k \in 1 .. Len(text)
            <6> QED BY ONLY <3>2, <3>3, <4>1, <5>2, <6>1, k \in 1 .. Len(text)
          <5> QED BY <5>1, <5>2
        <4> QED BY <3>3, <4>1, <4>2
      <3>5. e = text
        BY ONLY <3>3, <3>4, text \in Seq(Nat), SeqEqual
      <3> QED BY <3>5 DEF Is
    <2>6. (w \o a.text) \o b.text = w \o (a.text \o b.text)
      <3> PICK c, d : Is(c, a.text) /\ Is(d, b.text)
        BY DEF Is
      <3>1. w \in Seq(Nat) /\ c \in Seq(Nat) /\ d \in Seq(Nat)
        BY <2>1, <2>4 DEF Is
      <3>2. (w \o c) \o d = w \o (c \o d)
        BY ONLY <3>1, JoinThree, ZenonT(40)
      <3> QED BY <3>2 DEF Is
    <2> QED BY ONLY <2>1, <2>3, <2>5, <2>6
  <1>5. u \in Seq(Lines) /\ Rows!Words(u) = w \o text /\ w \in Seq(Nat)
    BY ONLY <1>2, <1>3, <1>4
  <1> QED BY <1>5 DEF Is

LEMMA AnswerStands ==
    ASSUME RowsInv, Rows!Next, heard # <<>>, heard' = <<>>
    PROVE  Rows!IsSuffix(Append(heard, 0), Rows!Words(transcript'))
  <1>1. /\ heard \in Seq(Nat) /\ streaming = heard /\ streamStart # Rows!None
    BY DEF RowsInv, TextOk
  <1> PICK kept, n : \E block \in Rows!Rendered(heard), m \in Lines :
         /\ Continues(kept, n) /\ m.text = <<0>> /\ transcript' = Append(kept \o block, m)
    BY <1>1, ChangedOnlyByEnd, CompletedRows DEF RowsInv
  <1> PICK block \in Rows!Rendered(heard), m \in Lines :
         /\ Continues(kept, n) /\ m.text = <<0>> /\ transcript' = Append(kept \o block, m)
    OBVIOUS
  <1>2. kept \in Seq(Lines)
    BY DEF Continues, Drawn
  <1> PICK u, w : Is(u, kept \o block) /\ Is(w, Rows!Words(kept))
    BY DEF Is
  <1>3. u \in Seq(Lines) /\ Rows!Words(u) = w \o heard /\ w \in Seq(Nat)
    BY <1>1, <1>2, BlockSays DEF Is
  <1> PICK t : Is(t, transcript')
    BY DEF Is
  <1>4. t = Append(u, m)
    BY DEF Is
  <1>5. Rows!Words(t) = (w \o heard) \o m.text
    BY ONLY <1>3, <1>4, m \in Lines, WordsMore
  <1> PICK z : Is(z, m.text)
    BY DEF Is
  <1>6. z \in Seq(Nat) /\ z = <<0>>
    BY DEF Is
  <1>7. (w \o heard) \o z = w \o (heard \o z)
    BY ONLY <1>1, <1>3, <1>6, JoinThree
  <1>8. heard \o z = Append(heard, 0) /\ Append(heard, 0) \in Seq(Nat)
    BY ONLY <1>1, <1>6, AppendIsConcat, AppendProperties
  <1>9. Rows!Words(t) = w \o Append(heard, 0)
    BY ONLY <1>5, <1>7, <1>8, Is(z, m.text) DEF Is
  <1>10. Rows!IsSuffix(Append(heard, 0), w \o Append(heard, 0))
    BY ONLY <1>3, <1>8, SuffixJoined
  <1> QED BY ONLY <1>9, <1>10, Is(t, transcript') DEF Is

\* When a turn completes, the words streamed since the last one that did stand
\* at the end of the transcript, in order, whatever happened to the rows in
\* between (finish_streaming_answer).
THEOREM TheAnswerIsWhole == MCSpec => AnswerIsWhole
  <1>1. RowsInv /\ [MCNext]_clientVars
          => [heard # <<>> /\ heard' = <<>>
                => Rows!IsSuffix(Append(heard, 0), Rows!Words(transcript'))]_Rows!rowVars
    <2> SUFFICES ASSUME RowsInv, [MCNext]_clientVars, heard # <<>>, heard' = <<>>
                 PROVE  Rows!IsSuffix(Append(heard, 0), Rows!Words(transcript'))
      OBVIOUS
    <2>1. heard' # heard
      OBVIOUS
    <2>2. Rows!Next
      BY <2>1 DEF MCNext, clientVars, mcRowVars
    <2> QED BY <2>2, AnswerStands
  <1> QED BY <1>1, RowsInvHolds, PTL DEF MCSpec, AnswerIsWhole, Rows!AnswerIsWhole

-----------------------------------------------------------------------------
(* The prompt and its recall.                                               *)

Chars == {"a", "@", "/", Editor!Blank}
Text == Seq(Chars)

EditorTyped ==
    /\ input \in Text /\ draft \in Text /\ begun \in Text
    /\ history \in Seq(Text) /\ cursor \in Nat /\ completer \in BOOLEAN

\* Only prompts that say something are recorded.
RecordedSaySomething == \A i \in DOMAIN history : history[i] # <<>>

\* The stash holds the draft the walk began with.
DraftIsKept == cursor # 0 => draft = begun

EditorInv ==
    /\ EditorTyped
    /\ RecordedSaySomething
    /\ DraftIsKept
    /\ Editor!RecallIsPure
    /\ Editor!OverlaysFitTheText

\* t is h with blanks behind it.
Extended(h, t) ==
    /\ Len(h) <= Len(t)
    /\ \A i \in 1 .. Len(h) : h[i] = t[i]
    /\ \A i \in Len(h) + 1 .. Len(t) : t[i] = Editor!Blank

LEMMA TextParts ==
    ASSUME NEW t \in Text, NEW m \in Nat \ {0}, NEW n \in 0 .. Len(t)
    PROVE  /\ SubSeq(t, m, n) \in Text
           /\ Len(SubSeq(t, m, n)) = IF m <= n THEN n - m + 1 ELSE 0
           /\ \A i \in 1 .. n - m + 1 : SubSeq(t, m, n)[i] = t[m + i - 1]
  <1>1. \A i \in m .. n : t[i] \in Chars
    BY LenProperties, ElementOfSeq DEF Text
  <1>2. m \in Int /\ n \in Int
    BY LenProperties DEF Text
  <1> QED BY <1>1, <1>2, SubSeqProperties DEF Text

LEMMA TrimmedText ==
    ASSUME NEW t \in Text
    PROVE  Editor!Trimmed(t) \in Text
  <1>1. CASE Editor!Solid(t) = {}
    BY <1>1, EmptySeq DEF Editor!Trimmed, Text
  <1>2. CASE Editor!Solid(t) # {}
    <2> DEFINE S == Editor!Solid(t)
    <2>1. Len(t) \in Nat /\ S \in SUBSET (1 .. Len(t))
      BY LenProperties DEF Editor!Solid, Text
    <2>2. (\E i \in S : \A j \in S : i <= j) /\ (\E i \in S : \A j \in S : i >= j)
      BY <1>2, <2>1, Extremes
    <2> PICK first, last : /\ Is(first, CHOOSE i \in S : \A j \in S : i <= j)
                           /\ Is(last, CHOOSE i \in S : \A j \in S : i >= j)
      BY DEF Is
    <2>3. first \in S /\ last \in S
      BY <2>2 DEF Is
    <2>4. Editor!Trimmed(t) = SubSeq(t, first, last)
      BY <1>2 DEF Editor!Trimmed, Is
    <2> QED BY <2>1, <2>3, <2>4, TextParts
  <1> QED BY <1>1, <1>2

LEMMA PureText ==
    ASSUME NEW h \in Text, NEW t \in Text
    PROVE  Editor!IsPrefix(h, t) /\ Editor!Solid(SubSeq(t, Len(h) + 1, Len(t))) = {} <=> Extended(h, t)
  <1> PICK a, b, c : /\ Is(a, SubSeq(h, 1, Len(h))) /\ Is(b, SubSeq(t, 1, Len(h)))
                     /\ Is(c, SubSeq(t, Len(h) + 1, Len(t)))
    BY DEF Is
  <1>1. Len(h) \in Nat /\ Len(t) \in Nat
    BY LenProperties DEF Text
  <1>2. CASE ~(Len(h) <= Len(t))
    BY <1>2 DEF Editor!IsPrefix, Extended
  <1>3. CASE Len(h) <= Len(t)
    <2>1. /\ a \in Text /\ Len(a) = Len(h) /\ \A i \in 1 .. Len(h) : a[i] = h[i]
          /\ b \in Text /\ Len(b) = Len(h) /\ \A i \in 1 .. Len(h) : b[i] = t[i]
      <3>1. Len(h) \in 0 .. Len(t) /\ Len(h) \in 0 .. Len(h) /\ 1 \in Nat \ {0}
        BY <1>1, <1>3
      <3>2. /\ a \in Text /\ Len(a) = (IF 1 <= Len(h) THEN Len(h) - 1 + 1 ELSE 0)
            /\ \A i \in 1 .. Len(h) - 1 + 1 : a[i] = h[1 + i - 1]
        BY ONLY <3>1, TextParts, h \in Text, Is(a, SubSeq(h, 1, Len(h))) DEF Is
      <3>3. /\ b \in Text /\ Len(b) = (IF 1 <= Len(h) THEN Len(h) - 1 + 1 ELSE 0)
            /\ \A i \in 1 .. Len(h) - 1 + 1 : b[i] = t[1 + i - 1]
        BY ONLY <3>1, TextParts, t \in Text, Is(b, SubSeq(t, 1, Len(h))) DEF Is
      <3> QED BY ONLY <1>1, <3>2, <3>3
    <2>2. /\ c \in Text /\ Len(c) = Len(t) - Len(h)
          /\ \A i \in 1 .. Len(t) - Len(h) : c[i] = t[Len(h) + i]
      <3>1. Len(h) + 1 \in Nat \ {0} /\ Len(t) \in 0 .. Len(t)
        BY <1>1
      <3>2. /\ c \in Text /\ Len(c) = (IF Len(h) + 1 <= Len(t) THEN Len(t) - (Len(h) + 1) + 1 ELSE 0)
            /\ \A i \in 1 .. Len(t) - (Len(h) + 1) + 1 : c[i] = t[Len(h) + 1 + i - 1]
        BY ONLY <3>1, TextParts, t \in Text, Is(c, SubSeq(t, Len(h) + 1, Len(t))) DEF Is
      <3>3. Len(c) = Len(t) - Len(h)
        BY ONLY <1>1, <1>3, <3>2
      <3>4. ASSUME NEW i \in 1 .. Len(t) - Len(h) PROVE c[i] = t[Len(h) + i]
        <4>1. Len(h) + 1 + i - 1 = Len(h) + i /\ i \in 1 .. Len(t) - (Len(h) + 1) + 1
          BY ONLY <1>1, i \in 1 .. Len(t) - Len(h)
        <4> QED BY ONLY <3>2, <4>1
      <3> QED BY ONLY <3>2, <3>3, <3>4
    <2>3. a = b <=> \A i \in 1 .. Len(h) : h[i] = t[i]
      <3>1. a = b => \A i \in 1 .. Len(h) : h[i] = t[i]
        BY ONLY <2>1
      <3>2. (\A i \in 1 .. Len(h) : h[i] = t[i]) => a = b
        BY ONLY <2>1, SeqEqual DEF Text
      <3> QED BY <3>1, <3>2
    <2>4. Editor!Solid(c) = {} <=> \A i \in Len(h) + 1 .. Len(t) : t[i] = Editor!Blank
      <3>1. DOMAIN c = 1 .. Len(t) - Len(h)
        BY ONLY <2>2, LenProperties DEF Text
      <3>2. Editor!Solid(c) = {} <=> \A i \in 1 .. Len(t) - Len(h) : c[i] = Editor!Blank
        BY ONLY <3>1 DEF Editor!Solid
      <3>3. ASSUME NEW i \in Len(h) + 1 .. Len(t)
            PROVE  i - Len(h) \in 1 .. Len(t) - Len(h) /\ i = Len(h) + (i - Len(h))
        BY ONLY <1>1, <3>3
      <3>4. ASSUME NEW i \in 1 .. Len(t) - Len(h) PROVE Len(h) + i \in Len(h) + 1 .. Len(t)
        BY ONLY <1>1, <3>4
      <3> QED BY ONLY <2>2, <3>2, <3>3, <3>4
    <2>5. Editor!IsPrefix(h, t) <=> a = b
      BY <1>3 DEF Editor!IsPrefix, Is
    <2>6. Editor!Solid(SubSeq(t, Len(h) + 1, Len(t))) = Editor!Solid(c)
      BY DEF Is
    <2> QED BY ONLY <1>3, <2>3, <2>4, <2>5, <2>6 DEF Extended
  <1> QED BY <1>2, <1>3

LEMMA BlankAdded ==
    ASSUME NEW h \in Text, NEW t \in Text, Extended(h, t)
    PROVE  Append(t, Editor!Blank) \in Text /\ Extended(h, Append(t, Editor!Blank))
  <1>1. Editor!Blank \in Chars
    BY DEF Chars
  <1> PICK u : Is(u, Append(t, Editor!Blank))
    BY DEF Is
  <1>2. /\ u \in Text /\ Len(u) = Len(t) + 1 /\ Len(t) \in Nat /\ Len(h) \in Nat
        /\ \A i \in 1 .. Len(t) : u[i] = t[i]
        /\ u[Len(t) + 1] = Editor!Blank
    BY ONLY <1>1, h \in Text, t \in Text, Is(u, Append(t, Editor!Blank)), AppendProperties,
            LenProperties DEF Text, Is
  <1>3. ASSUME NEW i \in Len(h) + 1 .. Len(u) PROVE u[i] = Editor!Blank
    <2>1. i \in Len(h) + 1 .. Len(t) \/ i = Len(t) + 1
      BY ONLY <1>2, i \in Len(h) + 1 .. Len(u)
    <2>2. i \in Len(h) + 1 .. Len(t) => i \in 1 .. Len(t)
      BY ONLY <1>2
    <2> QED BY <1>2, <2>1, <2>2 DEF Extended
  <1>4. Len(h) <= Len(u) /\ \A i \in 1 .. Len(h) : i \in 1 .. Len(t)
    BY ONLY <1>2, Extended(h, t) DEF Extended
  <1>5. \A i \in 1 .. Len(h) : h[i] = u[i]
    BY <1>2, <1>4 DEF Extended
  <1> QED BY <1>2, <1>3, <1>4, <1>5 DEF Extended, Is

LEMMA Typed ==
    ASSUME NEW t \in Text, NEW c \in Chars
    PROVE  /\ Append(t, c) \in Text /\ Append(t, c) # <<>>
           /\ t # <<>> => Append(t, c)[1] = t[1]
  <1>1. /\ Append(t, c) \in Text /\ Len(Append(t, c)) = Len(t) + 1 /\ Len(t) \in Nat
        /\ \A i \in 1 .. Len(t) : Append(t, c)[i] = t[i]
    BY AppendProperties, LenProperties DEF Text
  <1>2. t # <<>> => 1 \in 1 .. Len(t)
    BY <1>1, EmptySeq DEF Text
  <1>3. Append(t, c) # <<>>
    BY <1>1, EmptySeq DEF Text
  <1> QED BY <1>1, <1>2, <1>3

LEMMA Erased ==
    ASSUME NEW t \in Text
    PROVE  /\ Editor!Dropped(t) \in Text
           /\ t # <<>> /\ Editor!Dropped(t) # <<>> => Editor!Dropped(t)[1] = t[1]
  <1>1. CASE t = <<>>
    BY <1>1, EmptySeq DEF Editor!Dropped, Text
  <1>2. CASE t # <<>>
    <2> PICK d : Is(d, SubSeq(t, 1, Len(t) - 1))
      BY DEF Is
    <2>1. Len(t) \in Nat \ {0}
      BY <1>2, EmptySeq DEF Text
    <2>2. Len(t) - 1 \in 0 .. Len(t) /\ 1 \in Nat \ {0}
      BY <2>1
    <2>3. /\ d \in Text /\ Len(d) = (IF 1 <= Len(t) - 1 THEN Len(t) - 1 - 1 + 1 ELSE 0)
          /\ \A i \in 1 .. Len(t) - 1 - 1 + 1 : d[i] = t[1 + i - 1]
      BY ONLY <2>2, TextParts, t \in Text, Is(d, SubSeq(t, 1, Len(t) - 1)) DEF Is
    <2>4. d # <<>> => Len(d) # 0 /\ Len(d) \in Nat
      BY <2>3, EmptySeq DEF Text
    <2>5. d # <<>> => d[1] = t[1]
      BY ONLY <2>1, <2>3, <2>4
    <2>6. Editor!Dropped(t) = d
      BY <1>2 DEF Editor!Dropped, Editor!Front, Is
    <2> QED BY ONLY <2>3, <2>5, <2>6
  <1> QED BY <1>1, <1>2

\* A draft of any text, over which nothing is open that does not fit it.
LEMMA DraftStep ==
    ASSUME EditorInv, cursor' = 0, input' \in Text, draft' \in Text, begun' \in Text,
           history' \in Seq(Text), \A i \in DOMAIN history' : history'[i] # <<>>,
           completer' \in BOOLEAN, completer' => input' # <<>> /\ input'[1] = "/",
           picker' = 0 \/ (picker' = Editor!AtWord(input') /\ ~completer')
    PROVE  EditorInv'
  BY DEF EditorInv, EditorTyped, RecordedSaySomething, DraftIsKept, Editor!RecallIsPure,
     Editor!OverlaysFitTheText

\* A recalled prompt, perhaps with new lines.
LEMMA WalkStep ==
    ASSUME EditorInv, history' = history, NEW h \in Text, cursor' \in DOMAIN history,
           Is(h, history[cursor']), NEW t \in Text, t = input', Extended(h, t),
           begun' \in Text, draft' = begun', picker' = 0, completer' = FALSE
    PROVE  EditorInv'
  <1>1. cursor' \in Nat /\ cursor' # 0
    BY LenProperties DEF EditorInv, EditorTyped
  <1>2. Editor!IsPrefix(h, t) /\ Editor!Solid(SubSeq(t, Len(h) + 1, Len(t))) = {}
    BY PureText
  <1>3. Editor!RecallIsPure'
    BY <1>2 DEF Editor!RecallIsPure, Is
  <1> QED BY <1>1, <1>3 DEF EditorInv, EditorTyped, RecordedSaySomething, DraftIsKept,
             Editor!OverlaysFitTheText

LEMMA RecallFacts ==
    ASSUME EditorInv
    PROVE  /\ DOMAIN history = 1 .. Len(history) /\ Len(history) \in Nat
           /\ \A i \in DOMAIN history : history[i] \in Text /\ Extended(history[i], history[i])
           /\ cursor # 0 => /\ cursor \in DOMAIN history /\ Extended(history[cursor], input)
                            /\ input # <<>>
           /\ input = <<>> => picker = 0
  <1>1. DOMAIN history = 1 .. Len(history) /\ Len(history) \in Nat
        /\ \A i \in DOMAIN history : history[i] \in Text
    BY LenProperties, ElementOfSeq DEF EditorInv, EditorTyped
  <1>2. ASSUME NEW h \in Text PROVE Extended(h, h)
    BY LenProperties DEF Extended, Text
  <1>3. ASSUME cursor # 0
        PROVE  cursor \in DOMAIN history /\ Extended(history[cursor], input) /\ input # <<>>
    <2>1. cursor \in DOMAIN history /\ Extended(history[cursor], input)
      BY <1>1, <1>3, PureText DEF EditorInv, EditorTyped, Editor!RecallIsPure
    <2>2. Len(history[cursor]) \in Nat \ {0}
      BY <1>1, <2>1, EmptySeq DEF EditorInv, RecordedSaySomething, Text
    <2>3. Len(input) # 0
      BY <2>1, <2>2 DEF Extended
    <2>4. Len(<<>>) = 0
      OBVIOUS
    <2> QED BY <2>1, <2>3, <2>4
  <1>4. input = <<>> => picker = 0
    <2>1. Editor!Ats(<<>>) = {}
      BY DEF Editor!Ats
    <2> QED BY <2>1 DEF EditorInv, Editor!OverlaysFitTheText, Editor!AtWord
  <1> QED BY <1>1, <1>2, <1>3, <1>4

LEMMA TypingKeeps ==
    ASSUME EditorInv, Editor!TypeAt \/ Editor!TypeLetter \/ Editor!Backspace
    PROVE  EditorInv'
  <1>1. /\ input \in Text /\ draft \in Text /\ begun \in Text /\ history \in Seq(Text)
        /\ \A i \in DOMAIN history : history[i] # <<>>
    BY DEF EditorInv, EditorTyped, RecordedSaySomething
  <1>2. ASSUME NEW t \in Text, Editor!Edited(t), ~completer,
               picker' = 0 \/ picker' = Editor!AtWord(t)
        PROVE  EditorInv'
    <2>1. /\ input' = t /\ cursor' = 0
          /\ UNCHANGED <<draft, history, begun>> /\ completer' = FALSE
      BY <1>2 DEF Editor!Edited, Editor!CursorAfterEdit, EditorInv, EditorTyped
    <2> QED BY <1>1, <1>2, <2>1, DraftStep
  <1>3. CASE Editor!TypeAt
    <2>1. "@" \in Chars
      BY DEF Chars
    <2> QED BY <1>1, <1>2, <1>3, <2>1, Typed DEF Editor!TypeAt, Editor!Editing, Editor!PickerFor
  <1>4. CASE Editor!TypeLetter
    <2> PICK c \in Editor!Letters :
            /\ picker' = 0 \/ picker' = Editor!AtWord(Append(input, c))
            /\ Editor!Edited(Append(input, c)) /\ ~completer
      BY <1>4 DEF Editor!TypeLetter, Editor!Editing, Editor!PickerFor
    <2>1. c \in Chars
      BY DEF Chars, Editor!Letters
    <2> QED BY <1>1, <1>2, <2>1, Typed
  <1>5. CASE Editor!Backspace
    <2>1. /\ picker' = 0 \/ picker' = Editor!AtWord(Editor!Dropped(input))
          /\ Editor!Edited(Editor!Dropped(input)) /\ ~completer
      BY <1>5 DEF Editor!Backspace, Editor!Editing, Editor!PickerFor
    <2> QED BY <1>1, <1>2, <2>1, Erased
  <1> QED BY <1>3, <1>4, <1>5

LEMMA NewLineKeeps ==
    ASSUME EditorInv, Editor!NewLine
    PROVE  EditorInv'
  <1>1. /\ input \in Text /\ draft \in Text /\ begun \in Text /\ history \in Seq(Text)
        /\ \A i \in DOMAIN history : history[i] # <<>>
        /\ cursor # 0 => draft = begun
    BY DEF EditorInv, EditorTyped, RecordedSaySomething, DraftIsKept
  <1> PICK t : Is(t, Append(input, Editor!Blank))
    BY DEF Is
  <1>2. /\ input' = t /\ picker' = 0 /\ completer' = FALSE
        /\ UNCHANGED <<draft, cursor, history, begun>>
    BY DEF Editor!NewLine, Editor!Editing, Editor!recall, Editor!overlays, EditorInv, EditorTyped, Is
  <1>3. t \in Text
    BY <1>1, Typed DEF Is, Chars
  <1>4. CASE cursor = 0
    BY <1>1, <1>2, <1>3, <1>4, DraftStep
  <1>5. CASE cursor # 0
    <2> PICK h : Is(h, history[cursor])
      BY DEF Is
    <2>1. h \in Text /\ cursor \in DOMAIN history /\ Extended(h, input)
      BY <1>5, RecallFacts DEF Is
    <2>2. Extended(h, t)
      BY <1>1, <2>1, BlankAdded DEF Is
    <2>3. Is(h, history[cursor'])
      BY <1>2 DEF Is
    <2> QED BY <1>1, <1>2, <1>3, <1>5, <2>1, <2>2, <2>3, WalkStep
  <1> QED BY <1>4, <1>5

\* The staged file replaces the picker's word.
LEMMA AcceptKeeps ==
    ASSUME EditorInv, Editor!Accept
    PROVE  EditorInv'
  <1>1. /\ input \in Text /\ draft \in Text /\ begun \in Text /\ history \in Seq(Text)
        /\ \A i \in DOMAIN history : history[i] # <<>>
    BY DEF EditorInv, EditorTyped, RecordedSaySomething
  <1>2. cursor = 0 /\ ~completer /\ picker = Editor!AtWord(input) /\ picker # 0
    BY DEF Editor!Accept, EditorInv, Editor!OverlaysFitTheText
  <1> PICK head : Is(head, SubSeq(input, 1, picker - 1))
    BY DEF Is
  <1> PICK name : Is(name, <<"a">>)
    BY DEF Is
  <1>3. /\ input' = head \o name /\ picker' = 0 /\ completer' = FALSE
        /\ UNCHANGED <<draft, cursor, history, begun>>
    BY <1>2 DEF Editor!Accept, Editor!recall, Is, EditorInv, EditorTyped
  <1>4. picker - 1 \in 0 .. Len(input)
    <2>1. Editor!Ats(input) # {} /\ picker = Editor!LastAt(input) + 1
      BY <1>2 DEF Editor!AtWord
    <2>2. Len(input) \in Nat /\ Editor!Ats(input) \in SUBSET (1 .. Len(input))
      BY <1>1, LenProperties DEF Editor!Ats, Text
    <2>3. \E i \in Editor!Ats(input) : \A j \in Editor!Ats(input) : j <= i
      <3>1. PICK i \in Editor!Ats(input) : \A j \in Editor!Ats(input) : i >= j
        BY <2>1, <2>2, Extremes
      <3>2. \A j \in Editor!Ats(input) : j <= i
        BY <2>2, <3>1
      <3> QED BY <3>2
    <2>4. Editor!LastAt(input) \in Editor!Ats(input)
      BY <2>3 DEF Editor!LastAt
    <2> QED BY <2>1, <2>2, <2>4
  <1>5. head \in Text /\ name \in Text
    <2>1. head \in Text
      BY <1>1, <1>4, TextParts DEF Is
    <2>2. "a" \in Chars
      BY DEF Chars
    <2>3. name \in Text
      <3>1. ASSUME NEW c \in Chars PROVE <<c>> \in Seq(Chars)
        OBVIOUS
      <3> QED BY ONLY <2>2, <3>1, Is(name, <<"a">>) DEF Is, Text
    <2> QED BY <2>1, <2>3
  <1>6. head \o name \in Text
    BY <1>5, ConcatProperties DEF Text
  <1> QED BY <1>1, <1>2, <1>3, <1>6, DraftStep

LEMMA RecordedPrompts ==
    ASSUME EditorInv, NEW t \in Text, Editor!Trimmed(t) # <<>>
    PROVE  /\ Editor!Recorded(t) \in Seq(Text)
           /\ \A i \in DOMAIN Editor!Recorded(t) : Editor!Recorded(t)[i] # <<>>
  <1> PICK x : Is(x, Editor!Trimmed(t))
    BY DEF Is
  <1>1. x \in Text /\ x # <<>>
    BY TrimmedText DEF Is
  <1>2. /\ history \in Seq(Text) /\ \A i \in DOMAIN history : history[i] # <<>>
        /\ DOMAIN history = 1 .. Len(history) /\ Len(history) \in Nat
    BY RecallFacts DEF EditorInv, EditorTyped, RecordedSaySomething
  <1> PICK all : Is(all, IF history # <<>> /\ Editor!Last(history) = x THEN history
                         ELSE Append(history, x))
    BY DEF Is
  <1>3. all \in Seq(Text) /\ \A i \in DOMAIN all : all[i] # <<>>
    <2>1. CASE all = history
      BY <1>2, <2>1
    <2>2. CASE all # history
      <3>1. Is(all, Append(history, x))
        BY <2>2 DEF Is
      <3>2. /\ all \in Seq(Text) /\ Len(all) = Len(history) + 1
            /\ \A i \in 1 .. Len(history) : all[i] = history[i]
            /\ all[Len(history) + 1] = x
        BY ONLY <1>1, <1>2, <3>1, AppendProperties DEF Is
      <3>3. \A i \in DOMAIN all : i \in DOMAIN history \/ i = Len(history) + 1
        BY ONLY <1>2, <3>2, LenProperties
      <3> QED BY <1>1, <1>2, <3>2, <3>3
    <2> QED BY <2>1, <2>2
  <1>4. CASE Len(all) > MaxPrompts
    <2>1. Len(all) \in Nat /\ Len(all) # 0 /\ DOMAIN all = 1 .. Len(all) /\ all # <<>>
      <3>1. Len(all) \in Nat /\ DOMAIN all = 1 .. Len(all)
        BY <1>3, LenProperties
      <3>2. Len(all) # 0
        BY <1>4, <3>1, ClientAssumption
      <3> QED BY <3>1, <3>2
    <2>2. /\ Tail(all) \in Seq(Text) /\ DOMAIN Tail(all) = 1 .. Len(all) - 1
          /\ \A i \in 1 .. Len(all) - 1 : Tail(all)[i] = all[i + 1]
      BY ONLY <1>3, <2>1, HeadTailProperties, LenProperties
    <2>3. \A i \in DOMAIN Tail(all) : i + 1 \in DOMAIN all
      BY ONLY <2>1, <2>2
    <2>4. Editor!Recorded(t) = Tail(all)
      BY <1>4 DEF Editor!Recorded, Is
    <2> QED BY <1>3, <2>2, <2>3, <2>4
  <1>5. CASE ~(Len(all) > MaxPrompts)
    <2>1. Editor!Recorded(t) = all
      BY <1>5 DEF Editor!Recorded, Is
    <2> QED BY <1>3, <2>1
  <1> QED BY <1>4, <1>5

LEMMA SubmitPromptKeeps ==
    ASSUME EditorInv, Editor!Submit \/ Editor!CompleterSubmit
    PROVE  EditorInv'
  <1>1. /\ input \in Text /\ draft \in Text /\ begun \in Text
        /\ <<>> \in Text /\ completer \in BOOLEAN
    BY EmptySeq DEF EditorInv, EditorTyped, Text
  <1>2. Editor!Trimmed(input) # <<>> /\ Editor!Submitted
    BY DEF Editor!Submit, Editor!CompleterSubmit
  <1>3. picker' = 0 /\ completer' = FALSE
    BY <1>1, <1>2 DEF Editor!Submit, Editor!CompleterSubmit, Editor!Submitted, Editor!Editing,
       Editor!Completing, EditorInv, Editor!OverlaysFitTheText
  <1>4. /\ history' = Editor!Recorded(input) /\ cursor' = 0 /\ draft' = <<>> /\ input' = <<>>
        /\ begun' = begun
    BY <1>2 DEF Editor!Submitted
  <1>5. history' \in Seq(Text) /\ \A i \in DOMAIN history' : history'[i] # <<>>
    BY <1>1, <1>2, <1>4, RecordedPrompts
  <1> QED BY <1>1, <1>3, <1>4, <1>5, DraftStep

\* The walk shows recorded prompts and ends with the draft.
LEMMA RecallKeeps ==
    ASSUME EditorInv, Editor!RecallOlder \/ Editor!RecallNewer
    PROVE  EditorInv' /\ (Editor!RecallNewer /\ cursor' = 0 => input' = begun)
  <1>1. /\ input \in Text /\ draft \in Text /\ begun \in Text /\ history \in Seq(Text)
        /\ \A i \in DOMAIN history : history[i] # <<>>
        /\ cursor # 0 => draft = begun
        /\ <<>> \in Text /\ cursor \in Nat
    BY EmptySeq DEF EditorInv, EditorTyped, RecordedSaySomething, DraftIsKept, Text
  <1>2. /\ DOMAIN history = 1 .. Len(history) /\ Len(history) \in Nat
        /\ cursor # 0 => cursor \in DOMAIN history
    BY RecallFacts
  <1>3. history' = history /\ picker' = 0 /\ completer' = FALSE
    BY DEF Editor!RecallOlder, Editor!RecallNewer, Editor!Editing, Editor!overlays, EditorInv,
       EditorTyped
  <1>4. ASSUME cursor' \in DOMAIN history, input' = history[cursor'], draft' = begun', begun' \in Text
        PROVE  EditorInv'
    <2> PICK h : Is(h, history[cursor'])
      BY DEF Is
    <2>1. h \in Text /\ Extended(h, h) /\ h = input'
      BY <1>4, RecallFacts DEF Is
    <2> QED BY <1>3, <1>4, <2>1, WalkStep
  <1>5. CASE Editor!RecallOlder
    <2>1. cursor' \in DOMAIN history
      <3>1. history # <<>> /\ Len(history) # 0
        BY <1>1, <1>5, EmptySeq DEF Editor!RecallOlder
      <3>2. cursor' = IF cursor = 0 THEN Len(history) ELSE IF cursor = 1 THEN 1 ELSE cursor - 1
        BY <1>5 DEF Editor!RecallOlder
      <3> QED BY ONLY <1>1, <1>2, <3>1, <3>2
    <2>2. input' = history[cursor'] /\ draft' = begun' /\ begun' \in Text
      BY <1>1, <1>5 DEF Editor!RecallOlder, Editor!Stashed
    <2>3. ~Editor!RecallNewer \/ cursor' # 0
      BY <1>2, <2>1
    <2> QED BY <1>4, <2>1, <2>2, <2>3
  <1>6. CASE Editor!RecallNewer /\ cursor < Len(history)
    <2>1. cursor' = cursor + 1 /\ input' = history[cursor'] /\ UNCHANGED <<draft, begun>> /\ cursor # 0
      BY <1>6 DEF Editor!RecallNewer
    <2>2. cursor' \in DOMAIN history /\ cursor' # 0
      BY <1>1, <1>2, <1>6, <2>1
    <2> QED BY <1>1, <1>4, <2>1, <2>2
  <1>7. CASE Editor!RecallNewer /\ ~(cursor < Len(history))
    <2>1. cursor' = 0 /\ input' = draft /\ draft' = <<>> /\ begun' = begun /\ cursor # 0
      BY <1>7 DEF Editor!RecallNewer
    <2>2. EditorInv'
      BY <1>1, <1>3, <2>1, DraftStep
    <2> QED BY <1>1, <2>1, <2>2
  <1> QED BY <1>5, <1>6, <1>7

\* The completer opens on an empty prompt and keeps its first character.
LEMMA CompleterKeeps ==
    ASSUME EditorInv, \/ Editor!OpenCompleter \/ Editor!CompleterType \/ Editor!CompleterErase
                      \/ Editor!Dispatch \/ Editor!EscClosesCompleter
    PROVE  EditorInv'
  <1>1. /\ input \in Text /\ draft \in Text /\ begun \in Text /\ history \in Seq(Text)
        /\ \A i \in DOMAIN history : history[i] # <<>>
        /\ completer \in BOOLEAN /\ <<>> \in Text
    BY EmptySeq DEF EditorInv, EditorTyped, RecordedSaySomething, Text
  <1>2. UNCHANGED <<draft, cursor, history, begun, picker>>
    BY DEF Editor!OpenCompleter, Editor!CompleterType, Editor!CompleterErase, Editor!Dispatch,
       Editor!EscClosesCompleter, Editor!recall, Editor!overlays
  <1>3. ASSUME cursor = 0, picker = 0, input' \in Text, completer' \in BOOLEAN,
               completer' => input' # <<>> /\ input'[1] = "/"
        PROVE  EditorInv'
    BY <1>1, <1>2, <1>3, DraftStep
  <1>4. completer => cursor = 0 /\ picker = 0 /\ input # <<>> /\ input[1] = "/"
    BY DEF EditorInv, Editor!OverlaysFitTheText
  <1>5. CASE Editor!OpenCompleter
    <2>1. cursor = 0 /\ picker = 0 /\ completer' = TRUE /\ Is(input', <<"/">>)
      BY <1>5, RecallFacts DEF Editor!OpenCompleter, Is
    <2>2. "/" \in Chars
      BY DEF Chars
    <2>3. input' \in Text /\ input' # <<>> /\ input'[1] = "/"
      BY ONLY <2>1, <2>2 DEF Is, Text
    <2> QED BY <1>3, <2>1, <2>3
  <1>6. CASE Editor!CompleterType
    <2> PICK c \in Editor!Letters \cup {"@"} : Is(input', Append(input, c))
      BY <1>6 DEF Editor!CompleterType, Is
    <2>1. c \in Chars
      BY DEF Chars, Editor!Letters
    <2>2. completer /\ completer' = completer
      BY <1>6 DEF Editor!CompleterType, Editor!Completing, Editor!overlays
    <2>3. input' \in Text /\ input' # <<>> /\ input'[1] = "/"
      BY <1>1, <1>4, <2>1, <2>2, Typed DEF Is
    <2> QED BY <1>1, <1>3, <1>4, <2>2, <2>3
  <1>7. CASE Editor!CompleterErase
    <2>1. completer /\ input' = Editor!Dropped(input) /\ completer' = (input' # <<>>)
      BY <1>7 DEF Editor!CompleterErase, Editor!Completing, Editor!OpenOn
    <2>2. input' \in Text /\ (input' # <<>> => input'[1] = "/")
      BY <1>1, <1>4, <2>1, Erased
    <2> QED BY <1>3, <1>4, <2>1, <2>2
  <1>8. CASE Editor!Dispatch
    <2>1. completer /\ completer' = FALSE /\ input' = <<>>
      BY <1>8 DEF Editor!Dispatch, Editor!Completing
    <2> QED BY <1>1, <1>3, <1>4, <2>1
  <1>9. CASE Editor!EscClosesCompleter
    <2>1. completer /\ completer' = FALSE /\ input' = input
      BY <1>9 DEF Editor!EscClosesCompleter
    <2> QED BY <1>1, <1>3, <1>4, <2>1
  <1> QED BY <1>5, <1>6, <1>7, <1>8, <1>9

\* Dialogs and permission prompts leave the text alone.
LEMMA DialogKeeps ==
    ASSUME EditorInv, \/ Editor!EscClosesFlow \/ Editor!EscAborts \/ Editor!ModalKey \/ Editor!FlowKey
                      \/ Editor!PermissionRequested \/ Editor!ProvidersListed
                      \/ UNCHANGED mcEditorVars
    PROVE  EditorInv'
  <1>1. UNCHANGED <<input, draft, cursor, history, begun, picker, completer>>
    BY DEF Editor!EscClosesFlow, Editor!EscAborts, Editor!ModalKey, Editor!FlowKey,
       Editor!PermissionRequested, Editor!ProvidersListed, mcEditorVars, Editor!recall,
       Editor!overlays
  <1> QED BY <1>1 DEF EditorInv, EditorTyped, RecordedSaySomething, DraftIsKept,
             Editor!RecallIsPure, Editor!OverlaysFitTheText

LEMMA EditorStep ==
    ASSUME EditorInv, Editor!Next \/ UNCHANGED mcEditorVars
    PROVE  EditorInv' /\ (Editor!RecallNewer /\ cursor' = 0 => input' = begun)
  <1>1. Editor!RecallNewer => EditorInv' /\ (cursor' = 0 => input' = begun)
    BY RecallKeeps
  <1>2. EditorInv'
    BY TypingKeeps, NewLineKeeps, AcceptKeeps, SubmitPromptKeeps, RecallKeeps, CompleterKeeps,
       DialogKeeps DEF Editor!Next, Editor!Esc
  <1> QED BY <1>1, <1>2

LEMMA EditorStarts == MCInit => EditorInv
  <1> SUFFICES ASSUME MCInit PROVE EditorInv
    OBVIOUS
  <1>1. /\ input = <<>> /\ draft = <<>> /\ begun = <<>> /\ history = <<>> /\ cursor = 0
        /\ picker = 0 /\ completer = FALSE
    BY DEF MCInit, Editor!Init
  <1>2. <<>> \in Text /\ <<>> \in Seq(Text) /\ DOMAIN <<>> = {}
    BY EmptySeq DEF Text
  <1> QED BY <1>1, <1>2 DEF EditorInv, EditorTyped, RecordedSaySomething, DraftIsKept,
             Editor!RecallIsPure, Editor!OverlaysFitTheText

LEMMA EditorIsSound == MCSpec => []EditorInv
  <1>1. EditorInv /\ [MCNext]_clientVars => EditorInv'
    BY EditorStep DEF MCNext, clientVars
  <1> QED BY <1>1, EditorStarts, PTL DEF MCSpec

\* What is in the box is a draft or the recalled prompt with new lines, and
\* the picker or the completer over it fits it (recall_older, on_key).
THEOREM ThePromptIsSound == MCSpec => []PromptIsSound
  <1>1. EditorInv => PromptIsSound
    BY DEF EditorInv, PromptIsSound, Editor!PromptIsSound
  <1> QED BY <1>1, EditorIsSound, PTL

\* However long the walk through the prompts, its end brings back the draft it
\* began with (recall_newer).
THEOREM TheDraftComesBack == MCSpec => DraftComesBack
  <1>1. EditorInv /\ [MCNext]_clientVars
          => [Editor!RecallNewer /\ cursor' = 0 => input' = begun]_Editor!editorVars
    BY RecallKeeps
  <1> QED BY <1>1, EditorIsSound, PTL DEF MCSpec, DraftComesBack, Editor!DraftComesBack

-----------------------------------------------------------------------------
(* What the client shows of the host and the session.                       *)

Keys == Scalars \cup {"theme"}
Colours == Values \cup {0}
Themes == [pack : Colours, slot : Colours]
Settable(f) == IF f = "theme" THEN Themes ELSE Colours
Patch(f, v) == [op |-> "ui", arg |-> <<f, v>>]
Plain == {[op |-> o, arg |-> 0] : o \in {"submit", "queue", "clear", "abort", "resume"}}
Submits == {[op |-> "submit", arg |-> 0]}
Patches(f) == {Patch(f, v) : v \in Settable(f)}
Command == Plain \cup UNION {Patches(f) : f \in Keys}
Settings == [scalar : [Scalars -> Colours], theme : Themes]
ValueOf(cfg, f) == IF f = "theme" THEN cfg.theme ELSE cfg.scalar[f]

On == {"TurnStarted", "CompactionStarted"}
Off == {"TurnCompleted", "Error", "CompactionCompleted"}
Event == [is : On \cup Off \cup {"ToolCallInitiated", "ToolCallCompleted", "QueueChanged", "TokenDelta"},
          arg : Nat]
Counts == {e \in Event : e.is = "QueueChanged"}
CountIs(n) == {e \in Event : e.arg = n}
Spins == {e \in Event : e.is \in On \cup Off}
Stops == {e \in Event : e.is \in Off}

\* Commands on their way to the host.
Outgoing == cmds \o sending

StatusTyped ==
    /\ status \in [active : BOOLEAN, queued : Nat, tools : SUBSET Nat]
    /\ shown \in Settings /\ saved \in Settings
    /\ cmds \in Seq(Command) /\ sending \in Seq(Command) /\ inbox \in Seq(Command)
    /\ events \in Seq(Event) /\ reinject \in Seq({"submit", "queue"}) /\ done \in Seq(Nat \ {0})
    /\ queue \in Nat /\ slot \in Nat /\ turns \in Nat

\* The count in the last announcement, heard or not, is the session's.
CountIsTold ==
    /\ EndsIn(events, Counts, CountIs(queue))
    /\ Silent(events, Counts) => status.queued = queue

\* No turn works, and no prompt is on its way that would start one.
Resting ==
    /\ slot = 0 \/ task \in {"ended", "reported"}
    /\ Silent(Outgoing, Submits) /\ Silent(inbox, Submits)

\* Then the spinner has been told to stop last.
StopIsTold ==
    Resting /\ ~late =>
        /\ EndsIn(events, Spins, Stops)
        /\ Silent(events, Spins) => ~status.active

\* A setting's last command on its way says what is shown; with none, it is
\* saved or its write failed.
SettingIsTold(f) ==
    /\ EndsIn(Outgoing, Patches(f), {Patch(f, ValueOf(shown, f))})
    /\ Silent(Outgoing, Patches(f)) => f \in unsaved \/ ValueOf(shown, f) = ValueOf(saved, f)

\* Reports are of turns there were, and the live turn's only once it ended.
ReportsAreOwn ==
    /\ slot <= turns
    /\ \A i \in DOMAIN done : done[i] <= turns /\ (done[i] = slot => task = "reported")

StatusInv ==
    /\ StatusTyped
    /\ CountIsTold
    /\ StopIsTold
    /\ \A f \in Keys : SettingIsTold(f)
    /\ ReportsAreOwn

LEMMA CommandKinds ==
    ASSUME NEW c \in Command
    PROVE  /\ c \in Submits <=> c.op = "submit"
           /\ c.op = "ui" => \E f \in Keys : c \in Patches(f)
           /\ \A f : c \in Patches(f) => /\ c.op = "ui" /\ c.arg[1] = f /\ c.arg[2] \in Settable(f)
                                         /\ c = Patch(f, c.arg[2])
  <1>1. CASE c \in Plain
    <2> PICK o \in {"submit", "queue", "clear", "abort", "resume"} : c = [op |-> o, arg |-> 0]
      BY <1>1 DEF Plain
    <2> QED BY DEF Submits, Patches, Patch
  <1>2. CASE \E f \in Keys : c \in Patches(f)
    <2> QED BY <1>2 DEF Submits, Patches, Patch
  <1> QED BY <1>1, <1>2 DEF Command

LEMMA PlainCommands ==
    ASSUME NEW o \in {"submit", "queue", "clear", "abort", "resume"}
    PROVE  /\ Status!Cmd(o, 0) \in Command /\ (Status!Cmd(o, 0) \in Submits <=> o = "submit")
           /\ \A f : Status!Cmd(o, 0) \notin Patches(f)
  <1>1. Status!Cmd(o, 0) \in Plain
    BY DEF Plain, Status!Cmd
  <1> QED BY <1>1 DEF Command, Submits, Patches, Patch, Status!Cmd

LEMMA PatchCommands ==
    ASSUME NEW f \in Keys, NEW v \in Settable(f)
    PROVE  /\ Status!Cmd("ui", <<f, v>>) = Patch(f, v)
           /\ Patch(f, v) \in Command /\ Patch(f, v) \notin Submits
           /\ Patch(f, v) \in Patches(f)
           /\ \A g : Patch(f, v) \in Patches(g) => g = f
  <1>1. Patch(f, v) \in Patches(f)
    BY DEF Patches
  <1>2. Patch(f, v) \in Command
    BY <1>1 DEF Command
  <1>3. Patch(f, v).arg[1] = f /\ Patch(f, v).op = "ui"
    BY DEF Patch
  <1> QED BY <1>1, <1>2, <1>3, CommandKinds DEF Status!Cmd, Patch, Submits

LEMMA TailOfConcat ==
    ASSUME NEW S, NEW s \in Seq(S), NEW t \in Seq(S), s # <<>>
    PROVE  /\ s \o t \in Seq(S) /\ s \o t # <<>>
           /\ Tail(s \o t) = Tail(s) \o t /\ Head(s \o t) = Head(s)
  <1> PICK u, a, b : Is(u, s \o t) /\ Is(a, Tail(s \o t)) /\ Is(b, Tail(s) \o t)
    BY DEF Is
  <1>1. /\ Len(s) \in Nat /\ Len(s) # 0 /\ Len(t) \in Nat
        /\ u \in Seq(S) /\ Len(u) = Len(s) + Len(t)
        /\ \A i \in 1 .. Len(s) + Len(t) : u[i] = IF i <= Len(s) THEN s[i] ELSE t[i - Len(s)]
    BY ONLY s \in Seq(S), t \in Seq(S), s # <<>>, Is(u, s \o t), ConcatProperties,
            EmptySeq, LenProperties DEF Is
  <1>2. u # <<>> /\ Head(u) = u[1] /\ Head(s) = s[1]
    BY <1>1, EmptySeq
  <1>3. /\ a \in Seq(S) /\ Len(a) = Len(u) - 1 /\ \A i \in 1 .. Len(a) : a[i] = u[i + 1]
    BY ONLY <1>1, <1>2, Is(u, s \o t), Is(a, Tail(s \o t)), HeadTailProperties DEF Is
  <1>4. /\ Tail(s) \in Seq(S) /\ Len(Tail(s)) = Len(s) - 1
        /\ \A i \in 1 .. Len(s) - 1 : Tail(s)[i] = s[i + 1]
    BY ONLY s \in Seq(S), s # <<>>, HeadTailProperties
  <1>5. /\ b \in Seq(S) /\ Len(b) = Len(s) - 1 + Len(t)
        /\ \A i \in 1 .. Len(s) - 1 + Len(t) :
               b[i] = IF i <= Len(s) - 1 THEN Tail(s)[i] ELSE t[i - (Len(s) - 1)]
    BY ONLY <1>4, t \in Seq(S), Is(b, Tail(s) \o t), ConcatProperties DEF Is
  <1>6. ASSUME NEW i \in 1 .. Len(a) PROVE a[i] = b[i]
    <2>1. CASE i <= Len(s) - 1
      BY ONLY <1>1, <1>3, <1>4, <1>5, <2>1, i \in 1 .. Len(a)
    <2>2. CASE ~(i <= Len(s) - 1)
      <3>1. a[i] = t[i + 1 - Len(s)] /\ b[i] = t[i - (Len(s) - 1)]
        BY ONLY <1>1, <1>3, <1>5, <2>2, i \in 1 .. Len(a)
      <3>2. i + 1 - Len(s) = i - (Len(s) - 1)
        BY ONLY <1>1, i \in 1 .. Len(a), <1>3
      <3> QED BY ONLY <3>1, <3>2
    <2> QED BY <2>1, <2>2
  <1>7. a = b
    <2>1. Len(a) = Len(b)
      BY ONLY <1>1, <1>3, <1>5
    <2> QED BY ONLY <1>3, <1>5, <1>6, <2>1, SeqEqual
  <1>8. u[1] = s[1]
    BY ONLY <1>1
  <1> QED BY ONLY <1>1, <1>2, <1>7, <1>8, Is(u, s \o t), Is(a, Tail(s \o t)), Is(b, Tail(s) \o t)
          DEF Is

\* The host takes a command.
LEMMA OutgoingTaken ==
    ASSUME StatusTyped, cmds # <<>>, cmds' = Tail(cmds), sending' = sending, NEW K, NEW V
    PROVE  /\ cmds' \in Seq(Command) /\ sending' \in Seq(Command) /\ Head(cmds) \in Command
           /\ Silent(Outgoing, K) <=> Silent(Outgoing', K) /\ Head(cmds) \notin K
           /\ EndsIn(Outgoing, K, V) => EndsIn(Outgoing', K, V)
           /\ EndsIn(Outgoing, K, V) /\ Silent(Outgoing', K) /\ Head(cmds) \in K => Head(cmds) \in V
  <1>1. cmds \in Seq(Command) /\ sending \in Seq(Command)
    BY DEF StatusTyped
  <1>2. Outgoing \in Seq(Command) /\ Outgoing # <<>> /\ Outgoing' = Tail(Outgoing)
        /\ Head(Outgoing) = Head(cmds)
    BY <1>1, TailOfConcat DEF Outgoing
  <1> QED BY <1>1, <1>2, ChannelShrinks

\* The client sends a command.
LEMMA OutgoingSent ==
    ASSUME StatusTyped, NEW c \in Command, Status!Send(c), NEW K, NEW V
    PROVE  /\ cmds' = cmds /\ sending' \in Seq(Command)
           /\ Silent(Outgoing', K) <=> Silent(Outgoing, K) /\ c \notin K
           /\ c \notin K /\ EndsIn(Outgoing, K, V) => EndsIn(Outgoing', K, V)
           /\ c \in K /\ c \in V => EndsIn(Outgoing', K, V)
  <1>1. cmds \in Seq(Command) /\ cmds' = cmds /\ sending = <<>> /\ Is(sending', <<c>>)
    BY DEF StatusTyped, Status!Send, Is
  <1>2. Outgoing = cmds
    BY <1>1, ConcatEmptySeq DEF Outgoing
  <1>3. sending' \in Seq(Command) /\ (Silent(sending', K) <=> c \notin K)
        /\ (c \in V => EndsIn(sending', K, V))
    BY <1>1, OneMessage DEF Is
  <1>4. Outgoing' = cmds \o sending'
    BY <1>1 DEF Outgoing
  <1> QED BY ONLY <1>1, <1>2, <1>3, <1>4, ChannelGrows

\* Whatever the client sends is in effect at once, and nothing else is.
LEMMA SendKeeps ==
    ASSUME StatusInv, NEW c \in Command, Status!Send(c),
           shown' \in Settings,
           status' = status \/ (c \in Submits /\ status' = [status EXCEPT !.active = TRUE]),
           \A f \in Keys : \/ c \in Patches(f) /\ c = Patch(f, ValueOf(shown', f))
                           \/ c \notin Patches(f) /\ ValueOf(shown', f) = ValueOf(shown, f)
    PROVE  StatusInv'
  <1>1. /\ UNCHANGED <<inbox, events, saved, unsaved, queue, slot, task, reinject, done, turns, late>>
        /\ cmds' = cmds
    BY DEF Status!Send, Status!sessionVars
  <1>2. StatusTyped
    BY DEF StatusInv
  <1>3. status'.queued = status.queued /\ (c \notin Submits => status'.active = status.active)
        /\ status' \in [active : BOOLEAN, queued : Nat, tools : SUBSET Nat]
    BY <1>2 DEF StatusTyped
  <1>4. StatusTyped'
    BY <1>1, <1>2, <1>3, OutgoingSent DEF StatusTyped
  <1>5. CountIsTold'
    BY <1>1, <1>3 DEF StatusInv, CountIsTold
  <1>6. StopIsTold'
    <2>1. Silent(Outgoing', Submits) => Silent(Outgoing, Submits) /\ c \notin Submits
      BY <1>2, OutgoingSent
    <2> QED BY <1>1, <1>3, <2>1 DEF StatusInv, StopIsTold, Resting
  <1>7. ASSUME NEW f \in Keys PROVE SettingIsTold(f)'
    <2>1. SettingIsTold(f)
      BY DEF StatusInv
    <2>2. CASE c \in Patches(f) /\ c = Patch(f, ValueOf(shown', f))
      <3>1. c \in {Patch(f, ValueOf(shown', f))}
        BY <2>2
      <3>2. EndsIn(Outgoing', Patches(f), {Patch(f, ValueOf(shown', f))})
        BY ONLY <1>2, <2>2, <3>1, OutgoingSent, c \in Command, Status!Send(c)
      <3>3. ~Silent(Outgoing', Patches(f))
        BY <1>2, <2>2, OutgoingSent
      <3> QED BY <3>2, <3>3 DEF SettingIsTold
    <2>3. CASE c \notin Patches(f) /\ ValueOf(shown', f) = ValueOf(shown, f)
      <3>1. EndsIn(Outgoing', Patches(f), {Patch(f, ValueOf(shown, f))})
        BY <1>2, <2>1, <2>3, OutgoingSent DEF SettingIsTold
      <3>2. Silent(Outgoing', Patches(f)) => Silent(Outgoing, Patches(f))
        BY <1>2, OutgoingSent
      <3> QED BY <1>1, <2>1, <2>3, <3>1, <3>2 DEF SettingIsTold
    <2> QED BY <2>2, <2>3
  <1>8. ReportsAreOwn'
    BY <1>1 DEF StatusInv, ReportsAreOwn
  <1> QED BY <1>4, <1>5, <1>6, <1>7, <1>8 DEF StatusInv

LEMMA PlainSendKeeps ==
    ASSUME StatusInv, NEW o \in {"submit", "queue", "clear", "abort", "resume"},
           Status!Send(Status!Cmd(o, 0)), shown' = shown,
           status' = status \/ (o = "submit" /\ status' = [status EXCEPT !.active = TRUE])
    PROVE  StatusInv'
  <1> PICK c : Is(c, Status!Cmd(o, 0))
    BY DEF Is
  <1>1. /\ c \in Command /\ (c \in Submits <=> o = "submit") /\ Status!Send(c)
        /\ \A f : c \notin Patches(f)
    BY PlainCommands DEF Is
  <1>2. shown' \in Settings /\ \A f \in Keys : ValueOf(shown', f) = ValueOf(shown, f)
    BY DEF StatusInv, StatusTyped
  <1> QED BY <1>1, <1>2, SendKeeps

LEMMA PatchSendKeeps ==
    ASSUME StatusInv, NEW f \in Keys, NEW v \in Settable(f),
           Status!Send(Status!Cmd("ui", <<f, v>>)), shown' \in Settings, status' = status,
           ValueOf(shown', f) = v, \A g \in Keys \ {f} : ValueOf(shown', g) = ValueOf(shown, g)
    PROVE  StatusInv'
  <1> PICK c : Is(c, Patch(f, v))
    BY DEF Is
  <1>1. /\ c \in Command /\ Status!Send(c) /\ c \in Patches(f) /\ c = Patch(f, ValueOf(shown', f))
        /\ \A g : c \in Patches(g) => g = f
    BY PatchCommands DEF Is
  <1>2. \A g \in Keys : \/ c \in Patches(g) /\ c = Patch(g, ValueOf(shown', g))
                        \/ c \notin Patches(g) /\ ValueOf(shown', g) = ValueOf(shown, g)
    BY <1>1
  <1> QED BY <1>1, <1>2, SendKeeps

LEMMA SettingSent ==
    ASSUME StatusInv, Status!SetSomething
    PROVE  StatusInv'
  <1>1. shown \in Settings /\ "theme" \notin Scalars /\ Values \subseteq Colours
    BY ClientAssumption DEF StatusInv, StatusTyped, Colours
  <1> PICK v \in Values : \/ Status!SetPack(v) \/ Status!SetSlot(v)
                          \/ \E f \in Scalars : Status!SetScalar(f, v)
    BY DEF Status!SetSomething
  <1>2. ASSUME NEW theme \in Themes, Status!save_theme(theme) PROVE StatusInv'
    <2>1. /\ shown' = [shown EXCEPT !.theme = theme] /\ Status!Send(Status!Cmd("ui", <<"theme", theme>>))
          /\ status' = status
      BY <1>2 DEF Status!save_theme
    <2>2. shown' \in Settings /\ ValueOf(shown', "theme") = theme
          /\ \A g \in Keys \ {"theme"} : ValueOf(shown', g) = ValueOf(shown, g)
      BY <1>1, <2>1 DEF Settings, ValueOf
    <2>3. "theme" \in Keys /\ theme \in Settable("theme")
      BY DEF Keys, Settable
    <2> QED BY <2>1, <2>2, <2>3, PatchSendKeeps
  <1>3. ASSUME NEW f \in Scalars, Status!SetScalar(f, v) PROVE StatusInv'
    <2>1. /\ shown' = [shown EXCEPT !.scalar[f] = v] /\ Status!Send(Status!Cmd("ui", <<f, v>>))
          /\ status' = status
      BY <1>3 DEF Status!SetScalar
    <2>2. f \in Keys /\ f # "theme" /\ v \in Settable(f)
      BY <1>1 DEF Keys, Settable
    <2>3. shown' \in Settings /\ ValueOf(shown', f) = v
          /\ \A g \in Keys \ {f} : ValueOf(shown', g) = ValueOf(shown, g)
      BY <1>1, <2>1, <2>2 DEF Settings, ValueOf, Keys
    <2> QED BY <2>1, <2>2, <2>3, PatchSendKeeps
  <1>4. [shown.theme EXCEPT !.pack = v] \in Themes /\ [shown.theme EXCEPT !.slot = v] \in Themes
    BY <1>1 DEF Settings, Themes
  <1> QED BY <1>2, <1>3, <1>4 DEF Status!SetPack, Status!SetSlot

\* What is on its way stays so when the channel has room.
LEMMA SentKeeps ==
    ASSUME StatusInv, Status!Sent
    PROVE  StatusInv'
  <1>1. /\ UNCHANGED <<status, shown, inbox, events, saved, unsaved, queue, slot, task, reinject,
                       done, turns, late>>
        /\ Is(cmds', cmds \o sending) /\ sending' = <<>>
    BY DEF Status!Sent, Status!sessionVars, Is
  <1>2. cmds \in Seq(Command) /\ sending \in Seq(Command)
    BY DEF StatusInv, StatusTyped
  <1>3. cmds' \in Seq(Command) /\ cmds' = Outgoing /\ sending' \in Seq(Command)
    BY <1>1, <1>2, ConcatProperties, EmptySeq DEF Outgoing, Is
  <1>4. Outgoing' = Outgoing
    BY <1>1, <1>3, ConcatEmptySeq DEF Outgoing
  <1> QED BY <1>1, <1>3, <1>4 DEF StatusInv, StatusTyped, CountIsTold, StopIsTold, Resting,
             SettingIsTold, ReportsAreOwn

\* The client hears an event.
LEMMA HeardKeeps ==
    ASSUME StatusInv, Status!feed_flow_event
    PROVE  StatusInv'
  <1> PICK e : Is(e, Head(events))
    BY DEF Is
  <1>1. /\ UNCHANGED <<shown, sending, cmds, inbox, saved, unsaved, queue, slot, task, reinject,
                       done, turns, late>>
        /\ events # <<>> /\ events' = Tail(events) /\ status' = Status!Fed(e)
    BY DEF Status!feed_flow_event, Status!sessionVars, Is
  <1>2. /\ events \in Seq(Event) /\ StatusTyped
        /\ status \in [active : BOOLEAN, queued : Nat, tools : SUBSET Nat]
    BY DEF StatusInv, StatusTyped
  <1>3. /\ events' \in Seq(Event) /\ e \in Event
        /\ \A K, V : /\ Silent(events, K) <=> Silent(events', K) /\ e \notin K
                     /\ EndsIn(events, K, V) => EndsIn(events', K, V)
                     /\ EndsIn(events, K, V) /\ Silent(events', K) /\ e \in K => e \in V
    BY <1>1, <1>2, ChannelShrinks DEF Is
  <1>4. /\ status' \in [active : BOOLEAN, queued : Nat, tools : SUBSET Nat]
        /\ status'.queued = IF e \in Counts THEN e.arg ELSE status.queued
        /\ e \in Stops => ~status'.active
        /\ e \notin Spins => status'.active = status.active
    BY <1>1, <1>2, <1>3 DEF Status!Fed, Counts, Stops, Spins, Event, On, Off
  <1>5. StatusTyped'
    BY <1>1, <1>2, <1>3, <1>4 DEF StatusTyped
  <1>6. CountIsTold'
    <2>1. e \in Counts /\ e \in CountIs(queue) => e.arg = queue
      BY DEF CountIs
    <2> QED BY <1>1, <1>3, <1>4, <2>1 DEF StatusInv, CountIsTold
  <1>7. StopIsTold'
    <2>1. Outgoing' = Outgoing
      BY <1>1 DEF Outgoing
    <2> QED BY <1>1, <1>3, <1>4, <2>1 DEF StatusInv, StopIsTold, Resting
  <1>8. \A f \in Keys : SettingIsTold(f)'
    BY <1>1 DEF StatusInv, SettingIsTold, Outgoing
  <1>9. ReportsAreOwn'
    BY <1>1 DEF StatusInv, ReportsAreOwn
  <1> QED BY <1>5, <1>6, <1>7, <1>8, <1>9 DEF StatusInv

\* A setting is saved, or its write fails: the others keep their values.
LEMMA PersistKeeps ==
    ASSUME StatusInv, Status!persist_ui_settings
    PROVE  StatusInv'
  <1> PICK c : Is(c, Head(cmds))
    BY DEF Is
  <1>1. /\ cmds # <<>> /\ cmds' = Tail(cmds) /\ c.op = "ui"
        /\ UNCHANGED <<status, shown, sending, inbox, events, queue, slot, task, reinject, done,
                       turns, late>>
        /\ \/ saved' = Status!Patched(saved, c.arg) /\ unsaved' = unsaved \ {c.arg[1]}
           \/ saved' = saved /\ unsaved' = unsaved \cup {c.arg[1]}
    BY DEF Status!persist_ui_settings, Status!Taken, Status!ByHost, Status!sessionVars, Is
  <1>2. StatusTyped /\ saved \in Settings /\ "theme" \notin Scalars
    BY ClientAssumption DEF StatusInv, StatusTyped
  <1>3. /\ c \in Command /\ cmds' \in Seq(Command) /\ sending' \in Seq(Command)
        /\ \A K, V : /\ Silent(Outgoing, K) <=> Silent(Outgoing', K) /\ c \notin K
                     /\ EndsIn(Outgoing, K, V) => EndsIn(Outgoing', K, V)
                     /\ EndsIn(Outgoing, K, V) /\ Silent(Outgoing', K) /\ c \in K => c \in V
    BY <1>1, <1>2, OutgoingTaken DEF Is
  <1> PICK g \in Keys : c \in Patches(g)
    BY <1>1, <1>3, CommandKinds
  <1>4. c.arg[1] = g /\ c.arg[2] \in Settable(g) /\ c = Patch(g, c.arg[2]) /\ c \notin Submits
    BY <1>1, <1>3, CommandKinds
  <1> PICK v \in Settable(g) : Is(v, c.arg[2])
    BY <1>4 DEF Is
  <1>5. \/ unsaved' = unsaved \cup {g} /\ saved' = saved
        \/ /\ unsaved' = unsaved \ {g} /\ ValueOf(saved', g) = v /\ saved' \in Settings
           /\ \A f \in Keys \ {g} : ValueOf(saved', f) = ValueOf(saved, f)
    <2>1. CASE saved' = Status!Patched(saved, c.arg) /\ unsaved' = unsaved \ {c.arg[1]}
      <3>1. CASE g = "theme"
        <4>1. saved' = [saved EXCEPT !.theme = v]
          BY <1>4, <2>1, <3>1 DEF Status!Patched, Is
        <4> QED BY <1>2, <1>4, <2>1, <3>1, <4>1 DEF Settings, ValueOf, Keys, Settable
      <3>2. CASE g # "theme"
        <4>1. saved' = [saved EXCEPT !.scalar[g] = v]
          BY <1>4, <2>1, <3>2 DEF Status!Patched, Is
        <4> QED BY <1>2, <1>4, <2>1, <3>2, <4>1 DEF Settings, ValueOf, Keys, Settable
      <3> QED BY <3>1, <3>2
    <2> QED BY <1>1, <1>4, <2>1
  <1>6. StatusTyped'
    BY <1>1, <1>2, <1>3, <1>5 DEF StatusTyped
  <1>7. CountIsTold' /\ ReportsAreOwn'
    BY <1>1 DEF StatusInv, CountIsTold, ReportsAreOwn
  <1>8. StopIsTold'
    BY <1>1, <1>3, <1>4 DEF StatusInv, StopIsTold, Resting
  <1>9. ASSUME NEW f \in Keys PROVE SettingIsTold(f)'
    <2>1. SettingIsTold(f) /\ ValueOf(shown', f) = ValueOf(shown, f)
      BY <1>1 DEF StatusInv
    <2>2. EndsIn(Outgoing', Patches(f), {Patch(f, ValueOf(shown', f))})
      BY <1>3, <2>1 DEF SettingIsTold
    <2>3. ASSUME Silent(Outgoing', Patches(f))
          PROVE  f \in unsaved' \/ ValueOf(shown', f) = ValueOf(saved', f)
      <3>1. CASE f = g
        <4>1. c \in {Patch(f, ValueOf(shown, f))}
          BY <1>3, <2>1, <2>3, <3>1 DEF SettingIsTold
        <4>2. Patch(g, v) = Patch(g, ValueOf(shown, f))
          BY <1>4, <3>1, <4>1 DEF Is
        <4>3. v = ValueOf(shown, f)
          BY ONLY <4>2 DEF Patch
        <4> QED BY <1>5, <2>1, <3>1, <4>3
      <3>2. CASE f # g
        <4>1. c \notin Patches(f)
          BY <1>3, <1>4, <3>2, CommandKinds
        <4>2. f \in unsaved \/ ValueOf(shown, f) = ValueOf(saved, f)
          BY <1>3, <2>1, <2>3, <4>1 DEF SettingIsTold
        <4> QED BY <1>5, <2>1, <3>2, <4>2
      <3> QED BY <3>1, <3>2
    <2> QED BY <2>2, <2>3 DEF SettingIsTold
  <1> QED BY <1>6, <1>7, <1>8, <1>9 DEF StatusInv

\* The host refuses a command, or hands it on to the session.
LEMMA HostKeeps ==
    ASSUME StatusInv, Status!HostRefuses \/ Status!Forward
    PROVE  StatusInv'
  <1> PICK c : Is(c, Head(cmds))
    BY DEF Is
  <1> PICK e : Is(e, Status!Evt("Error", 0))
    BY DEF Is
  <1>1. /\ cmds # <<>> /\ cmds' = Tail(cmds)
        /\ UNCHANGED <<status, shown, saved, unsaved, sending, queue, slot, task, reinject, done,
                       turns, late>>
        /\ c.op \in {"submit", "queue", "clear", "abort", "resume"}
        /\ \/ c.op = "resume" /\ events' = Append(events, e) /\ inbox' = inbox
           \/ events' = events /\ inbox' = Append(inbox, c)
    BY DEF Status!HostRefuses, Status!Forward, Status!Taken, Status!ByHost, Status!sessionVars, Is
  <1>2. StatusTyped /\ events \in Seq(Event) /\ inbox \in Seq(Command)
    BY DEF StatusInv, StatusTyped
  <1>3. /\ c \in Command /\ cmds' \in Seq(Command) /\ sending' \in Seq(Command)
        /\ \A K, V : /\ Silent(Outgoing, K) <=> Silent(Outgoing', K) /\ c \notin K
                     /\ EndsIn(Outgoing, K, V) => EndsIn(Outgoing', K, V)
    BY <1>1, <1>2, OutgoingTaken DEF Is
  <1>4. e \in Event /\ e \notin Counts /\ e \in Spins /\ e \in Stops
    BY DEF Is, Status!Evt, Event, Counts, Spins, Stops, Off, On
  <1>5. /\ events' \in Seq(Event) /\ inbox' \in Seq(Command)
        /\ EndsIn(events', Counts, CountIs(queue)) /\ (Silent(events', Counts) => Silent(events, Counts))
        /\ Silent(inbox', Submits) => Silent(inbox, Submits) /\ (c \in Submits => c.op = "resume")
        /\ \/ events' = events
           \/ EndsIn(events', Spins, Stops) /\ ~Silent(events', Spins)
    <2>1. CASE c.op = "resume" /\ events' = Append(events, e) /\ inbox' = inbox
      <3> PICK said : Is(said, <<e>>)
        BY DEF Is
      <3>1. /\ events' = events \o said /\ said \in Seq(Event)
            /\ Silent(said, Counts) /\ ~Silent(said, Spins) /\ EndsIn(said, Spins, Stops)
        BY <1>2, <1>4, <2>1, AppendedMessage, OneMessage DEF Is
      <3>2. EndsIn(events, Counts, CountIs(queue))
        BY DEF StatusInv, CountIsTold
      <3>3. /\ events' \in Seq(Event) /\ EndsIn(events', Counts, CountIs(queue))
            /\ Silent(events', Counts) => Silent(events, Counts)
            /\ EndsIn(events', Spins, Stops) /\ ~Silent(events', Spins)
        BY ONLY <1>2, <3>1, <3>2, ChannelGrows
      <3>4. c \in Submits => c.op = "resume"
        BY <2>1
      <3> QED BY ONLY <1>2, <2>1, <3>3, <3>4
    <2>2. CASE events' = events /\ inbox' = Append(inbox, c)
      <3> PICK said : Is(said, <<c>>)
        BY DEF Is
      <3>1. /\ inbox' = inbox \o said /\ said \in Seq(Command)
            /\ Silent(said, Submits) <=> c \notin Submits
        BY <1>2, <1>3, <2>2, AppendedMessage, OneMessage DEF Is
      <3>2. /\ inbox' \in Seq(Command)
            /\ Silent(inbox', Submits) <=> Silent(inbox, Submits) /\ c \notin Submits
        BY ONLY <1>2, <3>1, ChannelGrows
      <3>3. EndsIn(events, Counts, CountIs(queue))
        BY DEF StatusInv, CountIsTold
      <3> QED BY ONLY <1>2, <2>2, <3>2, <3>3
    <2> QED BY <1>1, <2>1, <2>2
  <1>6. StatusTyped'
    BY <1>1, <1>2, <1>3, <1>5 DEF StatusTyped
  <1>7. CountIsTold' /\ ReportsAreOwn'
    BY <1>1, <1>5 DEF StatusInv, CountIsTold, ReportsAreOwn
  <1>8. StopIsTold'
    <2>1. c \in Submits => c.op = "submit"
      BY <1>3, CommandKinds
    <2>2. Silent(Outgoing', Submits) /\ Silent(inbox', Submits)
            => Silent(Outgoing, Submits) /\ Silent(inbox, Submits)
      BY <1>3, <1>5, <2>1
    <2> QED BY <1>1, <1>5, <2>2 DEF StatusInv, StopIsTold, Resting
  <1>9. ASSUME NEW f \in Keys PROVE SettingIsTold(f)'
    <2>1. c \notin Patches(f)
      BY <1>1, <1>3, CommandKinds
    <2> QED BY <1>1, <1>3, <2>1 DEF StatusInv, SettingIsTold
  <1> QED BY <1>6, <1>7, <1>8, <1>9 DEF StatusInv

\* What the session and its turns do: they say what they change, and may take
\* a command that makes no turn rest.
LEMMA SaidKeeps ==
    ASSUME StatusInv, UNCHANGED <<status, shown, sending, cmds, saved, unsaved>>,
           NEW said \in Seq(Event), events' = events \o said,
           \/ inbox' = inbox
           \/ /\ inbox # <<>> /\ inbox' = Tail(inbox)
              /\ Head(inbox).op # "submit" \/ (slot' # 0 /\ task' = "new"),
           \/ Silent(said, Counts) /\ queue' = queue
           \/ ~Silent(said, Counts) /\ EndsIn(said, Counts, CountIs(queue')),
           \/ slot' # 0 /\ task' \notin {"ended", "reported"}
           \/ late'
           \/ late' = late /\ ~Silent(said, Spins) /\ EndsIn(said, Spins, Stops)
           \/ /\ late' = late /\ Silent(said, Spins)
              /\ slot = 0 \/ task \in {"ended", "reported"},
           reinject' \in Seq({"submit", "queue"}), done' \in Seq(Nat \ {0}),
           queue' \in Nat, slot' \in Nat, turns' \in Nat, ReportsAreOwn'
    PROVE  StatusInv'
  <1>1. StatusTyped /\ events \in Seq(Event) /\ inbox \in Seq(Command)
    BY DEF StatusInv, StatusTyped
  <1>2. /\ events' \in Seq(Event)
        /\ \A K, V : /\ Silent(events', K) <=> Silent(events, K) /\ Silent(said, K)
                     /\ EndsIn(events, K, V) /\ Silent(said, K) => EndsIn(events', K, V)
                     /\ EndsIn(said, K, V) /\ ~Silent(said, K) => EndsIn(events', K, V)
    BY <1>1, ChannelGrows
  <1>3. /\ inbox' \in Seq(Command)
        /\ (slot' = 0 \/ task' \in {"ended", "reported"}) /\ Silent(inbox', Submits)
             => Silent(inbox, Submits)
    <2>1. CASE inbox' = inbox
      BY <1>1, <2>1
    <2>2. CASE /\ inbox # <<>> /\ inbox' = Tail(inbox)
               /\ Head(inbox).op # "submit" \/ (slot' # 0 /\ task' = "new")
      <3>1. Head(inbox) \in Command /\ Tail(inbox) \in Seq(Command)
            /\ (Silent(inbox, Submits) <=> Silent(Tail(inbox), Submits) /\ Head(inbox) \notin Submits)
        BY <1>1, <2>2, ChannelShrinks
      <3> QED BY <2>2, <3>1, CommandKinds
    <2> QED BY <2>1, <2>2
  <1>4. StatusTyped'
    BY <1>1, <1>2, <1>3 DEF StatusTyped
  <1>5. CountIsTold'
    BY <1>2 DEF StatusInv, CountIsTold
  <1>6. StopIsTold'
    <2> SUFFICES ASSUME Resting', ~late'
                 PROVE  EndsIn(events', Spins, Stops) /\ (Silent(events', Spins) => ~status.active)
      BY DEF StopIsTold
    <2>1. Outgoing' = Outgoing
      BY DEF Outgoing
    <2>2. CASE late' = late /\ ~Silent(said, Spins) /\ EndsIn(said, Spins, Stops)
      BY <1>2, <2>2
    <2>3. CASE /\ late' = late /\ Silent(said, Spins)
               /\ slot = 0 \/ task \in {"ended", "reported"}
      BY <1>2, <1>3, <2>1, <2>3 DEF StatusInv, StopIsTold, Resting
    <2> QED BY <2>2, <2>3 DEF Resting
  <1>7. \A f \in Keys : SettingIsTold(f)'
    BY DEF StatusInv, SettingIsTold, Outgoing
  <1> QED BY <1>4, <1>5, <1>6, <1>7 DEF StatusInv

LEMMA QueueSaid ==
    ASSUME NEW n \in Nat
    PROVE  \E said \in Seq(Event) : /\ said = <<Status!Evt("QueueChanged", n)>>
                                    /\ ~Silent(said, Counts) /\ EndsIn(said, Counts, CountIs(n))
                                    /\ Silent(said, Spins)
  <1> PICK e : Is(e, Status!Evt("QueueChanged", n))
    BY DEF Is
  <1>1. e \in Event /\ e \in Counts /\ e \in CountIs(n) /\ e \notin Spins
    BY DEF Is, Status!Evt, Event, Counts, CountIs, Spins, On, Off
  <1>2. <<e>> \in Seq(Event) /\ ~Silent(<<e>>, Counts) /\ EndsIn(<<e>>, Counts, CountIs(n))
        /\ Silent(<<e>>, Spins)
    BY <1>1, OneMessage
  <1> QED BY <1>2 DEF Is

LEMMA TurnSays ==
    ASSUME NEW is \in On \cup Off \cup {"ToolCallInitiated", "ToolCallCompleted", "TokenDelta"},
           NEW n \in Nat
    PROVE  \E said \in Seq(Event) : /\ said = <<Status!Evt(is, n)>> /\ Silent(said, Counts)
                                    /\ is \in Off => ~Silent(said, Spins) /\ EndsIn(said, Spins, Stops)
  <1> PICK e : Is(e, Status!Evt(is, n))
    BY DEF Is
  <1>1. e \in Event /\ e \notin Counts /\ (is \in Off => e \in Spins /\ e \in Stops)
    BY DEF Is, Status!Evt, Event, Counts, Spins, Stops, On, Off
  <1>2. <<e>> \in Seq(Event) /\ Silent(<<e>>, Counts)
        /\ (is \in Off => ~Silent(<<e>>, Spins) /\ EndsIn(<<e>>, Spins, Stops))
    BY <1>1, OneMessage
  <1> QED BY <1>2 DEF Is

\* What a killed turn still says is not a count, and marks the run as late.
LEMMA KilledTurnSays ==
    ASSUME StatusTyped, NEW said \in Seq(Event), Silent(said, Counts), Status!Overtaken(said)
    PROVE  \E more \in Seq(Event) : /\ events' = events \o more /\ Silent(more, Counts)
                                    /\ late' \/ (late' = late /\ more = said)
  <1>1. CASE Status!Tell(said) /\ late' = late
    BY <1>1 DEF Status!Tell
  <1>2. CASE ~(Status!Tell(said) /\ late' = late)
    <2> PICK is : Is(is, CASE task = "new" -> "TurnStarted"
                           [] task = "working" -> "ToolCallInitiated"
                           [] task = "ending" -> "TurnCompleted")
      BY DEF Is
    <2>1. /\ late' /\ task \in {"new", "working", "ending"}
          /\ events' = events \o (said \o <<Status!Evt(is, slot)>>)
      BY <1>2 DEF Status!Overtaken, Status!Tell, Is
    <2>2. is \in {"TurnStarted", "ToolCallInitiated", "TurnCompleted"} /\ slot \in Nat
      BY <2>1 DEF Is, StatusTyped
    <2> PICK last \in Seq(Event) : Is(last, <<Status!Evt(is, slot)>>) /\ Silent(last, Counts)
      BY <2>2, TurnSays DEF Is, On, Off
    <2>3. said \o last \in Seq(Event) /\ Silent(said \o last, Counts)
      BY ChannelGrows
    <2> QED BY <2>1, <2>3 DEF Is
  <1> QED BY <1>1, <1>2

LEMMA NothingSaid ==
    ASSUME StatusTyped
    PROVE  \E said \in Seq(Event) : /\ said = <<>> /\ events \o said = events
                                    /\ Silent(said, Counts) /\ Silent(said, Spins)
  <1>1. <<>> \in Seq(Event) /\ Silent(<<>>, Counts) /\ Silent(<<>>, Spins)
    BY NoMessage
  <1> QED BY <1>1, ConcatEmptySeq DEF StatusTyped

LEMMA ReinjectTail ==
    ASSUME StatusTyped, reinject # <<>>
    PROVE  Tail(reinject) \in Seq({"submit", "queue"})
  BY HeadTailProperties DEF StatusTyped

LEMMA PairIsConcat ==
    ASSUME NEW a, NEW b
    PROVE  <<a>> \o <<b>> = <<a, b>>
  <1>1. <<a>> \in Seq({a, b}) /\ <<b>> \in Seq({a, b}) /\ <<a, b>> \in Seq({a, b})
    OBVIOUS
  <1>2. Len(<<a>>) = 1 /\ Len(<<b>>) = 1 /\ Len(<<a, b>>) = 2
    OBVIOUS
  <1> PICK s : Is(s, <<a>> \o <<b>>)
    BY DEF Is
  <1>3. s \in Seq({a, b}) /\ Len(s) = 2 /\ s[1] = a /\ s[2] = b
    BY <1>1, <1>2, ConcatProperties DEF Is
  <1> PICK t : Is(t, <<a, b>>)
    BY DEF Is
  <1>4. t \in Seq({a, b}) /\ Len(t) = 2 /\ t[1] = a /\ t[2] = b
    BY <1>1, <1>2 DEF Is
  <1>5. s = t
    <2>1. \A i \in 1 .. Len(s) : s[i] = t[i]
      BY ONLY <1>3, <1>4
    <2> QED BY ONLY <1>3, <1>4, <2>1, SeqEqual
  <1> QED BY <1>5 DEF Is

LEMMA SubmitKeeps ==
    ASSUME StatusInv, Status!SubmitPrompt
    PROVE  StatusInv'
  <1>1. StatusTyped /\ reinject \in Seq({"submit", "queue"}) /\ turns \in Nat /\ done \in Seq(Nat \ {0})
    BY DEF StatusInv, StatusTyped
  <1> PICK said \in Seq(Event) : Is(said, <<>>) /\ Silent(said, Counts)
    BY <1>1, NothingSaid DEF Is
  <1>2. /\ UNCHANGED <<status, shown, sending, cmds, saved, unsaved, queue, done>>
        /\ Status!Overtaken(said)
        /\ turns' = turns + 1 /\ slot' = turns + 1 /\ task' = "new"
        /\ \/ inbox # <<>> /\ inbox' = Tail(inbox) /\ reinject' = reinject
           \/ inbox' = inbox /\ reinject # <<>> /\ reinject' = Tail(reinject)
    BY DEF Status!SubmitPrompt, Status!BySession, Status!FromInbox, Status!FromItself, Is
  <1> PICK more \in Seq(Event) : events' = events \o more /\ Silent(more, Counts)
    BY <1>1, <1>2, KilledTurnSays
  <1>3. slot' \in Nat /\ slot' # 0 /\ turns' \in Nat /\ reinject' \in Seq({"submit", "queue"})
        /\ queue' \in Nat
    <2>1. reinject' \in Seq({"submit", "queue"})
      BY <1>1, <1>2, ReinjectTail
    <2>2. queue' \in Nat
      BY <1>1, <1>2 DEF StatusTyped
    <2> QED BY ONLY <1>1, <1>2, <2>1, <2>2
  <1>4. ReportsAreOwn'
    <2> SUFFICES ASSUME NEW i \in DOMAIN done PROVE done[i] <= turns' /\ done[i] # slot'
      BY <1>1, <1>2 DEF ReportsAreOwn
    <2> QED BY <1>1, <1>2 DEF StatusInv, ReportsAreOwn
  <1> QED BY <1>1, <1>2, <1>3, <1>4, SaidKeeps

LEMMA QueueKeeps ==
    ASSUME StatusInv, Status!QueueBusy \/ Status!ClearQueue
    PROVE  StatusInv'
  <1>1. StatusTyped /\ queue \in Nat /\ reinject \in Seq({"submit", "queue"}) /\ slot \in Nat
        /\ turns \in Nat /\ done \in Seq(Nat \ {0})
    BY DEF StatusInv, StatusTyped
  <1> PICK n : Is(n, queue')
    BY DEF Is
  <1>2. /\ UNCHANGED <<status, shown, sending, cmds, saved, unsaved, slot, task, done, turns, late>>
        /\ queue' \in {queue + 1, 0} /\ events' = events \o <<Status!Evt("QueueChanged", n)>>
        /\ \/ inbox # <<>> /\ inbox' = Tail(inbox) /\ Head(inbox).op # "submit" /\ reinject' = reinject
           \/ inbox' = inbox /\ reinject # <<>> /\ reinject' = Tail(reinject)
    BY DEF Status!QueueBusy, Status!ClearQueue, Status!Cleared, Status!BySession, Status!FromInbox,
           Status!FromItself, Status!Tell, Is
  <1>3. queue' \in Nat /\ reinject' \in Seq({"submit", "queue"}) /\ n \in Nat
    <2>1. reinject' \in Seq({"submit", "queue"})
      BY <1>1, <1>2, ReinjectTail
    <2>2. queue' \in Nat
      BY ONLY <1>1, <1>2
    <2> QED BY ONLY <2>1, <2>2, Is(n, queue') DEF Is
  <1> PICK said \in Seq(Event) :
          /\ Is(said, <<Status!Evt("QueueChanged", n)>>)
          /\ ~Silent(said, Counts) /\ EndsIn(said, Counts, CountIs(n)) /\ Silent(said, Spins)
    BY <1>3, QueueSaid DEF Is
  <1>4. events' = events \o said /\ EndsIn(said, Counts, CountIs(queue'))
    BY <1>2 DEF Is
  <1>5. ReportsAreOwn'
    BY <1>2 DEF StatusInv, ReportsAreOwn
  <1>6. CASE slot = 0 \/ task \in {"ended", "reported"}
    BY <1>1, <1>2, <1>3, <1>4, <1>5, <1>6, SaidKeeps
  <1>7. CASE ~(slot = 0 \/ task \in {"ended", "reported"})
    BY <1>1, <1>2, <1>3, <1>4, <1>5, <1>7, SaidKeeps
  <1> QED BY <1>6, <1>7

LEMMA IdleQueueKeeps ==
    ASSUME StatusInv, Status!QueueIdle
    PROVE  StatusInv'
  <1>1. StatusTyped /\ queue \in Nat /\ reinject \in Seq({"submit", "queue"}) /\ slot \in Nat
        /\ turns \in Nat /\ done \in Seq(Nat \ {0})
    BY DEF StatusInv, StatusTyped
  <1>2. /\ UNCHANGED <<status, shown, sending, cmds, saved, unsaved, queue, slot, task, done, turns,
                       late, events>>
        /\ slot = 0
        /\ \/ /\ inbox # <<>> /\ inbox' = Tail(inbox) /\ Head(inbox).op # "submit"
              /\ reinject' = Append(reinject, "submit")
           \/ inbox' = inbox /\ reinject # <<>> /\ reinject' = Append(Tail(reinject), "submit")
    BY DEF Status!QueueIdle, Status!BySession
  <1>3. reinject' \in Seq({"submit", "queue"})
    BY <1>1, <1>2, HeadTailProperties, AppendProperties
  <1> PICK said \in Seq(Event) : /\ events \o said = events
                                 /\ Silent(said, Counts) /\ Silent(said, Spins)
    BY <1>1, NothingSaid
  <1>4. ReportsAreOwn'
    BY <1>2 DEF StatusInv, ReportsAreOwn
  <1> QED BY <1>1, <1>2, <1>3, <1>4, SaidKeeps

LEMMA AbortKeeps ==
    ASSUME StatusInv, Status!AbortTurn
    PROVE  StatusInv'
  <1>1. StatusTyped /\ queue \in Nat /\ reinject \in Seq({"submit", "queue"}) /\ slot \in Nat
        /\ turns \in Nat /\ done \in Seq(Nat \ {0})
    BY DEF StatusInv, StatusTyped
  <1>2. /\ UNCHANGED <<status, shown, sending, cmds, saved, unsaved, queue, done, turns, reinject>>
        /\ inbox # <<>> /\ inbox' = Tail(inbox) /\ Head(inbox).op # "submit"
    BY DEF Status!AbortTurn, Status!BySession, Status!FromInbox
  <1>3. CASE slot = 0
    <2>1. UNCHANGED <<events, late, slot, task>>
      BY <1>3 DEF Status!AbortTurn
    <2> PICK said \in Seq(Event) : /\ events \o said = events
                                   /\ Silent(said, Counts) /\ Silent(said, Spins)
      BY <1>1, NothingSaid
    <2>2. ReportsAreOwn'
      BY <1>2, <2>1 DEF StatusInv, ReportsAreOwn
    <2> QED BY <1>1, <1>2, <1>3, <2>1, <2>2, SaidKeeps
  <1>4. CASE slot # 0
    <2> PICK first \in Seq(Event) : Is(first, <<Status!Evt("TurnCompleted", slot)>>) /\ Silent(first, Counts)
      BY <1>1, TurnSays DEF Is, Off, On
    <2> PICK second \in Seq(Event) : /\ Is(second, <<Status!Evt("Error", 0)>>) /\ Silent(second, Counts)
                                     /\ ~Silent(second, Spins) /\ EndsIn(second, Spins, Stops)
      BY TurnSays DEF Is, Off, On
    <2> PICK said : Is(said, first \o second)
      BY DEF Is
    <2>1. said \in Seq(Event) /\ Silent(said, Counts) /\ ~Silent(said, Spins) /\ EndsIn(said, Spins, Stops)
      BY ChannelGrows DEF Is
    <2>2. said = <<Status!Evt("TurnCompleted", slot), Status!Evt("Error", 0)>>
      BY ONLY PairIsConcat, Is(first, <<Status!Evt("TurnCompleted", slot)>>),
              Is(second, <<Status!Evt("Error", 0)>>), Is(said, first \o second) DEF Is
    <2>3. Status!Overtaken(said) /\ slot' = 0 /\ task' = "none"
      BY <1>4, <2>2 DEF Status!AbortTurn
    <2> HIDE <2>2
    <2> PICK more \in Seq(Event) : /\ events' = events \o more /\ Silent(more, Counts)
                                   /\ late' \/ (late' = late /\ more = said)
      BY <1>1, <2>1, <2>3, KilledTurnSays
    <2>4. ReportsAreOwn'
      BY <1>1, <1>2, <2>3 DEF StatusInv, ReportsAreOwn
    <2>5. CASE late'
      BY <1>1, <1>2, <2>3, <2>4, <2>5, SaidKeeps
    <2>6. CASE late' = late /\ more = said
      BY <1>1, <1>2, <2>1, <2>3, <2>4, <2>6, SaidKeeps
    <2> QED BY <2>5, <2>6
  <1> QED BY <1>1, <1>3, <1>4

LEMMA ReportKeeps ==
    ASSUME StatusInv, Status!Report
    PROVE  StatusInv'
  <1>1. StatusTyped /\ queue \in Nat /\ reinject \in Seq({"submit", "queue"}) /\ slot \in Nat
        /\ turns \in Nat /\ done \in Seq(Nat \ {0})
    BY DEF StatusInv, StatusTyped
  <1> PICK d : Is(d, Head(done))
    BY DEF Is
  <1>2. /\ UNCHANGED <<status, shown, sending, cmds, saved, unsaved, turns, late, inbox>>
        /\ done # <<>> /\ done' = Tail(done)
        /\ \/ d = slot /\ slot' = 0 /\ task' = "none"
           \/ d # slot /\ slot' = slot /\ task' = task
    BY DEF Status!Report, Status!BySession, Is
  <1>3. /\ done' \in Seq(Nat \ {0}) /\ d \in Nat \ {0} /\ \E i \in DOMAIN done : done[i] = d
        /\ \A i \in DOMAIN done' : \E j \in DOMAIN done : done'[i] = done[j]
    <2>1. /\ Tail(done) \in Seq(Nat \ {0}) /\ Len(Tail(done)) = Len(done) - 1
          /\ \A i \in 1 .. Len(Tail(done)) : Tail(done)[i] = done[i + 1]
          /\ DOMAIN done = 1 .. Len(done) /\ Len(done) \in Nat \ {0}
          /\ DOMAIN Tail(done) = 1 .. Len(Tail(done))
      BY <1>1, <1>2, HeadTailProperties, LenProperties, EmptySeq
    <2>2. d = done[1] /\ 1 \in DOMAIN done /\ d \in Nat \ {0}
      BY <1>1, <1>2, <2>1 DEF Is
    <2>3. ASSUME NEW i \in DOMAIN done' PROVE i + 1 \in DOMAIN done /\ done'[i] = done[i + 1]
      BY <1>2, <2>1
    <2> QED BY <1>2, <2>1, <2>2, <2>3
  <1>4. ReportsAreOwn' /\ slot' \in Nat
    <2>1. slot' \in {slot, 0} /\ slot' <= turns' /\ slot' \in Nat
      BY <1>1, <1>2 DEF StatusInv, ReportsAreOwn
    <2>2. ASSUME NEW i \in DOMAIN done'
          PROVE  done'[i] <= turns' /\ (done'[i] = slot' => task' = "reported")
      <3> PICK j \in DOMAIN done : done'[i] = done[j]
        BY <1>3
      <3>1. done[j] <= turns /\ (done[j] = slot => task = "reported") /\ done[j] # 0
        BY <1>1 DEF StatusInv, ReportsAreOwn
      <3> QED BY <1>2, <3>1
    <2> QED BY <2>1, <2>2 DEF ReportsAreOwn
  <1>5. (slot' # 0 /\ task' \notin {"ended", "reported"}) \/ slot = 0 \/ task \in {"ended", "reported"}
    BY <1>2, <1>3 DEF StatusInv, ReportsAreOwn
  <1>6. CASE slot' # 0 \/ queue = 0
    <2>1. UNCHANGED <<queue, events, reinject>>
      BY <1>6 DEF Status!Report
    <2> PICK said \in Seq(Event) : /\ events \o said = events
                                   /\ Silent(said, Counts) /\ Silent(said, Spins)
      BY <1>1, NothingSaid
    <2> QED BY <1>1, <1>2, <1>3, <1>4, <1>5, <2>1, SaidKeeps
  <1>7. CASE ~(slot' # 0 \/ queue = 0)
    <2> PICK n : Is(n, queue - 1)
      BY DEF Is
    <2>1. /\ queue' = n /\ events' = events \o <<Status!Evt("QueueChanged", n)>>
          /\ reinject' = Append(reinject, "queue")
      BY <1>7 DEF Status!Report, Status!Tell, Is
    <2>2. n \in Nat
      BY <1>1, <1>7 DEF Is
    <2>3. reinject' \in Seq({"submit", "queue"})
      BY <1>1, <2>1, AppendProperties
    <2> PICK said \in Seq(Event) :
            /\ Is(said, <<Status!Evt("QueueChanged", n)>>)
            /\ ~Silent(said, Counts) /\ EndsIn(said, Counts, CountIs(n)) /\ Silent(said, Spins)
      BY <2>2, QueueSaid DEF Is
    <2>4. events' = events \o said
      BY <2>1 DEF Is
    <2> QED BY <1>1, <1>2, <1>3, <1>4, <1>5, <2>1, <2>2, <2>3, <2>4, SaidKeeps
  <1> QED BY <1>6, <1>7

LEMMA TurnKeeps ==
    ASSUME StatusInv, Status!TurnTask
    PROVE  StatusInv'
  <1>1. StatusTyped /\ queue \in Nat /\ reinject \in Seq({"submit", "queue"}) /\ slot \in Nat
        /\ turns \in Nat /\ done \in Seq(Nat \ {0})
    BY DEF StatusInv, StatusTyped
  <1> PICK is \in On \cup Off \cup {"ToolCallInitiated", "ToolCallCompleted", "TokenDelta"} :
        /\ UNCHANGED <<status, shown, sending, cmds, saved, unsaved, queue, slot, reinject, done,
                       turns, inbox, late>>
        /\ slot # 0 /\ task # "reported" /\ task' # "reported" /\ (task' = "ended" => is \in Off)
        /\ events' = events \o <<Status!Evt(is, slot)>>
    BY DEF Status!TurnTask, Status!Goes, Status!Tell, Status!BySession, On, Off
  <1> PICK said \in Seq(Event) :
          /\ Is(said, <<Status!Evt(is, slot)>>) /\ Silent(said, Counts)
          /\ is \in Off => ~Silent(said, Spins) /\ EndsIn(said, Spins, Stops)
    BY <1>1, TurnSays DEF Is
  <1>2. events' = events \o said
    BY DEF Is
  <1>3. ReportsAreOwn'
    BY DEF StatusInv, ReportsAreOwn
  <1> QED BY <1>1, <1>2, <1>3, SaidKeeps

LEMMA ReportingKeeps ==
    ASSUME StatusInv, Status!TurnReports
    PROVE  StatusInv'
  <1>1. StatusTyped /\ queue \in Nat /\ reinject \in Seq({"submit", "queue"}) /\ slot \in Nat
        /\ turns \in Nat /\ done \in Seq(Nat \ {0})
    BY DEF StatusInv, StatusTyped
  <1>2. /\ UNCHANGED <<status, shown, sending, cmds, saved, unsaved, queue, slot, reinject,
                       turns, inbox, late, events>>
        /\ slot # 0 /\ task = "ended" /\ task' = "reported" /\ done' = Append(done, slot)
    BY DEF Status!TurnReports, Status!BySession
  <1>3. /\ done' \in Seq(Nat \ {0})
        /\ \A i \in DOMAIN done' : done'[i] = slot \/ \E j \in DOMAIN done : done'[i] = done[j]
    <2>1. /\ done' \in Seq(Nat \ {0}) /\ Len(done') = Len(done) + 1 /\ Len(done) \in Nat
          /\ \A i \in 1 .. Len(done) : done'[i] = done[i]
          /\ done'[Len(done) + 1] = slot
          /\ DOMAIN done' = 1 .. Len(done) + 1 /\ DOMAIN done = 1 .. Len(done)
      BY <1>1, <1>2, AppendProperties, LenProperties
    <2>2. ASSUME NEW i \in DOMAIN done' PROVE i = Len(done) + 1 \/ i \in DOMAIN done
      BY <2>1
    <2> QED BY <2>1, <2>2
  <1> PICK said \in Seq(Event) : /\ events \o said = events
                                 /\ Silent(said, Counts) /\ Silent(said, Spins)
    BY <1>1, NothingSaid
  <1>4. ReportsAreOwn'
    BY <1>2, <1>3 DEF StatusInv, ReportsAreOwn
  <1> QED BY <1>1, <1>2, <1>3, <1>4, SaidKeeps

\* A program that starts knows nothing but what is saved.
Started ==
    /\ status = Status!Idle /\ shown = saved /\ saved \in Settings
    /\ cmds = <<>> /\ sending = <<>> /\ inbox = <<>> /\ events = <<>> /\ reinject = <<>>
    /\ done = <<>> /\ queue = 0 /\ slot = 0 /\ turns = 0

LEMMA StartedIsSound == Started => StatusInv
  <1> SUFFICES ASSUME Started PROVE StatusInv
    OBVIOUS
  <1>1. /\ \A S, K, V : <<>> \in Seq(S) /\ Silent(<<>>, K) /\ EndsIn(<<>>, K, V)
        /\ DOMAIN <<>> = {}
    BY NoMessage
  <1>2. Outgoing = <<>>
    <2>1. <<>> \in Seq({})
      OBVIOUS
    <2> QED BY <2>1, ConcatEmptySeq DEF Started, Outgoing
  <1>3. StatusTyped
    BY <1>1 DEF Started, StatusTyped, Status!Idle
  <1>4. CountIsTold /\ StopIsTold /\ \A f \in Keys : SettingIsTold(f)
    BY <1>1, <1>2 DEF Started, CountIsTold, StopIsTold, SettingIsTold, Status!Idle
  <1>5. ReportsAreOwn
    BY <1>1 DEF Started, ReportsAreOwn
  <1> QED BY <1>3, <1>4, <1>5 DEF StatusInv

LEMMA StatusStep ==
    ASSUME StatusInv, Status!Next \/ UNCHANGED mcStatusVars
    PROVE  StatusInv'
  <1>1. ASSUME Status!Client PROVE StatusInv'
    <2>1. ASSUME \/ Status!submit_prompt \/ Status!SlashQueue \/ Status!SlashClear \/ Status!Esc
                 \/ Status!SlashResume
          PROVE  StatusInv'
      BY <2>1, PlainSendKeeps DEF Status!submit_prompt, Status!SlashQueue, Status!SlashClear,
         Status!Esc, Status!SlashResume
    <2> QED BY <1>1, <2>1, SettingSent, SentKeeps, HeardKeeps DEF Status!Client
  <1>2. ASSUME Status!Host PROVE StatusInv'
    BY <1>2, PersistKeeps, HostKeeps DEF Status!Host
  <1>3. ASSUME Status!Session PROVE StatusInv'
    BY <1>3, SubmitKeeps, QueueKeeps, IdleQueueKeeps, AbortKeeps, ReportKeeps DEF Status!Session
  <1>4. ASSUME Status!Restart PROVE StatusInv'
    <2>1. Started'
      BY <1>4 DEF Status!Restart, Started, StatusInv, StatusTyped
    <2> QED BY <2>1, StartedIsSound, PTL
  <1>5. ASSUME UNCHANGED mcStatusVars PROVE StatusInv'
    BY <1>5 DEF mcStatusVars, StatusInv, StatusTyped, CountIsTold, StopIsTold, Resting, Outgoing,
       SettingIsTold, ReportsAreOwn
  <1> QED BY <1>1, <1>2, <1>3, <1>4, <1>5, TurnKeeps, ReportingKeeps DEF Status!Next

LEMMA QuietIsSettled == StatusInv => Status!StatusSettles
  <1> SUFFICES ASSUME StatusInv, Status!Quiet
               PROVE  /\ status.queued = queue
                      /\ status.active => slot # 0 \/ late
                      /\ \A f \in Scalars : f \in unsaved \/ shown.scalar[f] = saved.scalar[f]
                      /\ "theme" \in unsaved \/ shown.theme = saved.theme
    BY DEF Status!StatusSettles
  <1>1. \A K : Silent(<<>>, K)
    BY NoMessage
  <1>2. sending = <<>> /\ cmds = <<>> /\ inbox = <<>> /\ events = <<>>
    BY DEF Status!Quiet
  <1>3. Outgoing = <<>>
    <2>1. <<>> \in Seq({})
      OBVIOUS
    <2> QED BY <1>2, <2>1, ConcatEmptySeq DEF Outgoing
  <1>4. status.queued = queue /\ (status.active => slot # 0 \/ late)
    BY <1>1, <1>2, <1>3 DEF StatusInv, CountIsTold, StopIsTold, Resting
  <1>5. \A f \in Keys : f \in unsaved \/ ValueOf(shown, f) = ValueOf(saved, f)
    BY <1>1, <1>3 DEF StatusInv, SettingIsTold
  <1> QED BY <1>4, <1>5, ClientAssumption DEF Keys, ValueOf

\* Once everything has been heard the client shows the session's count, no
\* spinner without a turn, and the saved settings (feed_flow_event).
THEOREM StatusComesToRest == MCSpec => []StatusSettles
  <1>1. MCInit => StatusInv
    <2> SUFFICES ASSUME MCInit PROVE Started
      BY StartedIsSound
    <2> QED BY DEF MCInit, Status!Init, Started, Status!Defaults, Status!NoTheme, Settings, Themes,
            Colours
  <1>2. StatusInv /\ [MCNext]_clientVars => StatusInv'
    BY StatusStep DEF MCNext, clientVars
  <1>3. StatusInv => StatusSettles
    BY QuietIsSettled DEF StatusSettles
  <1> QED BY <1>1, <1>2, <1>3, PTL DEF MCSpec
=============================================================================

--------------------------- MODULE TurnLoop_proofs ---------------------------
(***************************************************************************)
(* What is so of every turn, for every budget, number of subagents and set *)
(* of tools.  A turn is a sequence that only grows: the first part says what *)
(* appending to one keeps (each call answered once, no call carried out    *)
(* twice in a row, delegations in order, how much was run); the second what *)
(* is so of an agent's run between any two steps (Sound) and of what it has *)
(* spent (Spends, Siblings); then one lemma for each action.               *)
(*                                                                         *)
(* The equations between records and sequences are kept behind Extends, Is *)
(* and the operators next to them: a step cites what follows from them.    *)
(***************************************************************************)
EXTENDS TurnLoop, SequenceTheorems, FiniteSetTheorems, TLAPS

-----------------------------------------------------------------------------
(* Turns that grow.                                                         *)

Extends(v, w, x) == v = w \o x

\* Equations the provers need not see through.
Is(v, w) == v = w
Appended(v, w, c) == v = Append(w, c)
Just(v, e) == v = <<e>>
IsKid(kid, n, child) == kid = [id |-> n, child |-> child]
Joining(s, d, n, kid) == s = [d EXCEPT !.executions = n, !.kids = Append(@, kid)]
Capped(s, d) == s = [d EXCEPT !.capHit = TRUE]
Executed(s, d, n, sig) == s = [d EXCEPT !.executions = n, !.last = sig]

LEMMA Longer ==
    ASSUME NEW w \in Seq(Part), NEW x \in Seq(Part), NEW v, Extends(v, w, x)
    PROVE  /\ v \in Seq(Part) /\ Len(v) = Len(w) + Len(x) /\ Len(w) \in Nat /\ Len(x) \in Nat
           /\ DOMAIN w = 1 .. Len(w) /\ DOMAIN x = 1 .. Len(x) /\ DOMAIN v = 1 .. Len(v)
           /\ \A i \in DOMAIN w : i \in DOMAIN v /\ v[i] = w[i]
           /\ \A i \in DOMAIN x : Len(w) + i \in DOMAIN v /\ v[Len(w) + i] = x[i]
           /\ \A j \in DOMAIN v : j \in DOMAIN w \/ \E i \in DOMAIN x : j = Len(w) + i
  <1>1. /\ v \in Seq(Part) /\ Len(v) = Len(w) + Len(x) /\ Len(w) \in Nat /\ Len(x) \in Nat
        /\ DOMAIN w = 1 .. Len(w) /\ DOMAIN x = 1 .. Len(x) /\ DOMAIN v = 1 .. Len(v)
    BY DEF Extends
  <1>2. \A i \in 1 .. Len(w) + Len(x) : v[i] = IF i <= Len(w) THEN w[i] ELSE x[i - Len(w)]
    BY ConcatProperties DEF Extends
  <1>3. ASSUME NEW i \in DOMAIN x PROVE Len(w) + i \in DOMAIN v /\ v[Len(w) + i] = x[i]
    <2> PICK n : n = Len(w) + i
      OBVIOUS
    <2>1. n \in 1 .. Len(w) + Len(x) /\ ~(n <= Len(w)) /\ n - Len(w) = i
      BY <1>1
    <2> QED BY <1>1, <1>2, <2>1
  <1>4. ASSUME NEW j \in DOMAIN v PROVE j \in DOMAIN w \/ \E i \in DOMAIN x : j = Len(w) + i
    <2>1. j \in DOMAIN w \/ (j - Len(w) \in DOMAIN x /\ j = Len(w) + (j - Len(w)))
      BY <1>1
    <2> QED BY <2>1
  <1>5. \A i \in DOMAIN w : i \in DOMAIN v /\ v[i] = w[i]
    BY <1>1, <1>2
  <1> QED BY <1>1, <1>3, <1>4, <1>5

IsAnswer(part, id) == part.part = "result" /\ part.id = id

\* Each call has one result, after it, but those whose subagents run.
AnsweredBut(turn, running) ==
    /\ \A j \in DOMAIN turn : turn[j].part = "result" => turn[j].id \notin running
    /\ \A i \in DOMAIN turn : turn[i].part = "call" /\ turn[i].id \notin running =>
          \E j \in DOMAIN turn :
              /\ j > i /\ IsAnswer(turn[j], turn[i].id)
              /\ \A k \in DOMAIN turn : IsAnswer(turn[k], turn[i].id) => k = j

IdsUpTo(turn, n) == \A i \in DOMAIN turn : turn[i].id <= n

LEMMA AnsweredIsClosed == ASSUME NEW turn, AnsweredBut(turn, {}) PROVE Closed(turn)
  BY DEF AnsweredBut, Closed, AnswersOf, IsAnswer

\* What a call that arrives adds: itself, and a result unless it is delegated.
LEMMA AnsweredAtOnce ==
    ASSUME NEW w \in Seq(Part), NEW v, NEW n \in Nat, NEW running, NEW x \in Seq(Part),
           Extends(v, w, x), Len(x) = 2, x[1].part = "call", x[1].id = n + 1, IsAnswer(x[2], n + 1),
           n + 1 \notin running, IdsUpTo(w, n), AnsweredBut(w, running),
           \A i \in DOMAIN w : w[i].id \in Nat
    PROVE  AnsweredBut(v, running) /\ IdsUpTo(v, n + 1)
  <1> PICK c, e : c = x[1] /\ e = x[2]
    OBVIOUS
  <1>1. c.part = "call" /\ c.id = n + 1 /\ IsAnswer(e, n + 1) /\ DOMAIN x = 1 .. 2
    OBVIOUS
  <1>2. /\ DOMAIN w = 1 .. Len(w) /\ Len(w) \in Nat
        /\ \A i \in DOMAIN w : i \in DOMAIN v /\ v[i] = w[i]
        /\ Len(w) + 1 \in DOMAIN v /\ v[Len(w) + 1] = c
        /\ Len(w) + 2 \in DOMAIN v /\ v[Len(w) + 2] = e
        /\ \A j \in DOMAIN v : j \in DOMAIN w \/ j = Len(w) + 1 \/ j = Len(w) + 2
    <2>1. /\ DOMAIN w = 1 .. Len(w) /\ Len(w) \in Nat
          /\ \A i \in DOMAIN w : i \in DOMAIN v /\ v[i] = w[i]
          /\ \A i \in DOMAIN x : Len(w) + i \in DOMAIN v /\ v[Len(w) + i] = x[i]
          /\ \A j \in DOMAIN v : j \in DOMAIN w \/ \E i \in DOMAIN x : j = Len(w) + i
      BY Longer
    <2> QED BY <1>1, <2>1
  <1>3. e.part = "result" /\ e.id = n + 1 /\ \A i \in DOMAIN w : w[i].id # n + 1
    BY DEF IsAnswer, IdsUpTo
  <1>4. ASSUME NEW i \in DOMAIN v, v[i].part = "call", v[i].id \notin running
        PROVE  \E j \in DOMAIN v : /\ j > i /\ IsAnswer(v[j], v[i].id)
                                   /\ \A k \in DOMAIN v : IsAnswer(v[k], v[i].id) => k = j
    <2>1. CASE i \in DOMAIN w
      <3> PICK j \in DOMAIN w : /\ j > i /\ IsAnswer(w[j], w[i].id)
                                /\ \A k \in DOMAIN w : IsAnswer(w[k], w[i].id) => k = j
        BY <1>2, <1>4, <2>1 DEF AnsweredBut
      <3>1. ~IsAnswer(e, w[i].id) /\ ~IsAnswer(c, w[i].id)
        BY <1>1, <1>3, <2>1 DEF IsAnswer
      <3>2. \A k \in DOMAIN v : IsAnswer(v[k], w[i].id) => k = j
        BY SMTT(30), <1>2, <3>1
      <3>3. v[i] = w[i] /\ j \in DOMAIN v /\ v[j] = w[j]
        BY <1>2, <2>1
      <3> QED BY <3>2, <3>3
    <2>2. CASE i = Len(w) + 1
      <3>1. \A k \in DOMAIN w : ~IsAnswer(w[k], n + 1)
        BY <1>3 DEF IsAnswer
      <3>2. ~IsAnswer(c, n + 1) /\ v[i].id = n + 1
        BY <1>2, <2>2 DEF IsAnswer
      <3>3. Len(w) + 2 > i
        BY <1>2, <2>2
      <3>4. \A k \in DOMAIN v : IsAnswer(v[k], n + 1) => k = Len(w) + 2
        BY <1>2, <3>1, <3>2
      <3>5. IsAnswer(v[Len(w) + 2], n + 1)
        BY <1>2
      <3> QED BY <1>2, <3>2, <3>3, <3>4, <3>5
    <2>3. i # Len(w) + 2
      BY <1>2, <1>3, <1>4
    <2> QED BY <1>2, <2>1, <2>2, <2>3
  <1>5. \A j \in DOMAIN v : v[j].part = "result" => v[j].id \notin running
    BY <1>2, <1>3 DEF AnsweredBut
  <1>6. IdsUpTo(v, n + 1)
    BY <1>2, <1>3 DEF IdsUpTo
  <1> QED BY <1>4, <1>5, <1>6 DEF AnsweredBut

LEMMA AnsweredLater ==
    ASSUME NEW w \in Seq(Part), NEW v, NEW n \in Nat, NEW running, NEW x \in Seq(Part),
           Extends(v, w, x), Len(x) = 1, x[1].part = "call", x[1].id = n + 1,
           IdsUpTo(w, n), AnsweredBut(w, running), \A i \in DOMAIN w : w[i].id \in Nat
    PROVE  AnsweredBut(v, running \cup {n + 1}) /\ IdsUpTo(v, n + 1)
  <1> PICK c : c = x[1]
    OBVIOUS
  <1>1. c.part = "call" /\ c.id = n + 1 /\ DOMAIN x = 1 .. 1
    OBVIOUS
  <1>2. /\ DOMAIN w = 1 .. Len(w) /\ Len(w) \in Nat
        /\ \A i \in DOMAIN w : i \in DOMAIN v /\ v[i] = w[i]
        /\ Len(w) + 1 \in DOMAIN v /\ v[Len(w) + 1] = c
        /\ \A j \in DOMAIN v : j \in DOMAIN w \/ j = Len(w) + 1
    <2>1. /\ DOMAIN w = 1 .. Len(w) /\ Len(w) \in Nat
          /\ \A i \in DOMAIN w : i \in DOMAIN v /\ v[i] = w[i]
          /\ \A i \in DOMAIN x : Len(w) + i \in DOMAIN v /\ v[Len(w) + i] = x[i]
          /\ \A j \in DOMAIN v : j \in DOMAIN w \/ \E i \in DOMAIN x : j = Len(w) + i
      BY Longer
    <2> QED BY <1>1, <2>1
  <1>3. \A i \in DOMAIN w : w[i].id # n + 1
    BY DEF IdsUpTo
  <1>4. ASSUME NEW i \in DOMAIN v, v[i].part = "call", v[i].id \notin running \cup {n + 1}
        PROVE  \E j \in DOMAIN v : /\ j > i /\ IsAnswer(v[j], v[i].id)
                                   /\ \A k \in DOMAIN v : IsAnswer(v[k], v[i].id) => k = j
    <2>1. i \in DOMAIN w
      BY <1>2, <1>4
    <2> PICK j \in DOMAIN w : /\ j > i /\ IsAnswer(w[j], w[i].id)
                              /\ \A k \in DOMAIN w : IsAnswer(w[k], w[i].id) => k = j
      BY <1>2, <1>4, <2>1 DEF AnsweredBut
    <2>2. ~IsAnswer(c, w[i].id)
      BY DEF IsAnswer
    <2> QED BY <1>2, <2>1, <2>2
  <1>5. \A j \in DOMAIN v : v[j].part = "result" => v[j].id \notin running \cup {n + 1}
    BY <1>2, <1>3 DEF AnsweredBut
  <1>6. IdsUpTo(v, n + 1)
    BY <1>2 DEF IdsUpTo
  <1> QED BY <1>4, <1>5, <1>6 DEF AnsweredBut

\* The subagents of a pass answer the calls that are left.
LEMMA AllAnswered ==
    ASSUME NEW w \in Seq(Part), NEW x \in Seq(Part), NEW v, NEW running,
           Extends(v, w, x), AnsweredBut(w, running),
           \A i \in DOMAIN x : x[i].part = "result" /\ x[i].id \in running,
           \A i, j \in DOMAIN x : x[i].id = x[j].id => i = j,
           \A id \in running : \E i \in DOMAIN x : x[i].id = id
    PROVE  AnsweredBut(v, {})
  <1>1. /\ DOMAIN w = 1 .. Len(w) /\ Len(w) \in Nat /\ DOMAIN x = 1 .. Len(x) /\ Len(x) \in Nat
        /\ \A i \in DOMAIN w : i \in DOMAIN v /\ v[i] = w[i]
        /\ \A i \in DOMAIN x : Len(w) + i \in DOMAIN v /\ v[Len(w) + i] = x[i]
        /\ \A j \in DOMAIN v : j \in DOMAIN w \/ \E i \in DOMAIN x : j = Len(w) + i
    BY Longer
  <1>2. ASSUME NEW i \in DOMAIN v, v[i].part = "call"
        PROVE  \E j \in DOMAIN v : /\ j > i /\ IsAnswer(v[j], v[i].id)
                                   /\ \A k \in DOMAIN v : IsAnswer(v[k], v[i].id) => k = j
    <2>1. i \in DOMAIN w /\ v[i] = w[i]
      BY <1>1, <1>2
    <2>2. CASE w[i].id \notin running
      <3> PICK j \in DOMAIN w : /\ j > i /\ IsAnswer(w[j], w[i].id)
                                /\ \A k \in DOMAIN w : IsAnswer(w[k], w[i].id) => k = j
        BY <1>2, <2>1, <2>2 DEF AnsweredBut
      <3>1. \A k \in DOMAIN x : ~IsAnswer(x[k], w[i].id)
        BY <2>2 DEF IsAnswer
      <3> QED BY <1>1, <2>1, <3>1
    <2>3. CASE w[i].id \in running
      <3> PICK j \in DOMAIN x : x[j].id = w[i].id
        BY <2>3
      <3>1. Len(w) + j \in DOMAIN v /\ Len(w) + j > i /\ IsAnswer(v[Len(w) + j], v[i].id)
        BY <1>1, <2>1 DEF IsAnswer
      <3>2. \A k \in DOMAIN w : ~IsAnswer(w[k], w[i].id)
        BY <2>3 DEF IsAnswer, AnsweredBut
      <3>3. \A k \in DOMAIN x : IsAnswer(x[k], w[i].id) => k = j
        BY DEF IsAnswer
      <3> QED BY <1>1, <2>1, <3>1, <3>2, <3>3
    <2> QED BY <2>2, <2>3
  <1> QED BY <1>2 DEF AnsweredBut

-----------------------------------------------------------------------------
(* What has been carried out, and what was delegated.                       *)

GivenBy == {"tool", "nested"}

NoRepeat(turn) ==
    \A i, j \in Results(turn, GivenBy) :
        i < j /\ turn[i].sig = turn[j].sig => \E k \in Results(turn, GivenBy) : i < k /\ k < j

\* What was carried out last is what the guard remembers.
LastIs(turn, sig) ==
    \A i \in Results(turn, GivenBy) :
        (\A k \in Results(turn, GivenBy) : k <= i) => turn[i].sig = sig

InOrder(turn) ==
    \A i, j \in Results(turn, Delegated) : i < j => turn[i].id < turn[j].id

DelegatedBelow(turn, id) == \A i \in Results(turn, Delegated) : turn[i].id < id

LEMMA ResultsOfLonger ==
    ASSUME NEW w \in Seq(Part), NEW x \in Seq(Part), NEW v, Extends(v, w, x), NEW by
    PROVE  /\ \A i \in DOMAIN w : v[i] = w[i] /\ (i \in Results(v, by) <=> i \in Results(w, by))
           /\ \A i \in DOMAIN x :
                 v[Len(w) + i] = x[i] /\ (Len(w) + i \in Results(v, by) <=> i \in Results(x, by))
           /\ \A j \in Results(v, by) : j \in Results(w, by) \/ \E i \in Results(x, by) : j = Len(w) + i
           /\ Results(w, by) \subseteq 1 .. Len(w) /\ Results(x, by) \subseteq 1 .. Len(x)
           /\ Len(w) \in Nat /\ Len(x) \in Nat /\ DOMAIN x = 1 .. Len(x) /\ DOMAIN w = 1 .. Len(w)
  <1>1. /\ DOMAIN w = 1 .. Len(w) /\ Len(w) \in Nat /\ DOMAIN x = 1 .. Len(x) /\ Len(x) \in Nat
        /\ \A i \in DOMAIN w : i \in DOMAIN v /\ v[i] = w[i]
        /\ \A i \in DOMAIN x : Len(w) + i \in DOMAIN v /\ v[Len(w) + i] = x[i]
        /\ \A j \in DOMAIN v : j \in DOMAIN w \/ \E i \in DOMAIN x : j = Len(w) + i
    BY Longer
  <1>2. \A i \in DOMAIN w : v[i] = w[i] /\ (i \in Results(v, by) <=> i \in Results(w, by))
    BY <1>1 DEF Results
  <1>3. \A i \in DOMAIN x :
            v[Len(w) + i] = x[i] /\ (Len(w) + i \in Results(v, by) <=> i \in Results(x, by))
    BY <1>1 DEF Results
  <1>4. ASSUME NEW j \in Results(v, by)
        PROVE  j \in Results(w, by) \/ \E i \in Results(x, by) : j = Len(w) + i
    <2>1. j \in DOMAIN v
      BY DEF Results
    <2> QED BY <1>1, <1>2, <1>3, <2>1
  <1>5. Results(w, by) \subseteq 1 .. Len(w) /\ Results(x, by) \subseteq 1 .. Len(x)
    BY <1>1 DEF Results
  <1> QED BY <1>1, <1>2, <1>3, <1>4, <1>5

LEMMA NothingNew ==
    ASSUME NEW w \in Seq(Part), NEW x \in Seq(Part), NEW v, Extends(v, w, x), NEW by, Results(x, by) = {}
    PROVE  Results(v, by) = Results(w, by) /\ \A i \in Results(w, by) : v[i] = w[i]
  <1>1. \A i \in Results(w, by) : i \in DOMAIN w
    BY DEF Results
  <1>2. \A i \in Results(w, by) : i \in Results(v, by) /\ v[i] = w[i]
    BY <1>1, ResultsOfLonger
  <1>3. \A j \in Results(v, by) : j \in Results(w, by)
    BY ResultsOfLonger
  <1> QED BY <1>2, <1>3

LEMMA NoneGiven ==
    ASSUME NEW w \in Seq(Part), NEW x \in Seq(Part), NEW v, Extends(v, w, x), Results(x, GivenBy) = {},
           NoRepeat(w), NEW last, LastIs(w, last)
    PROVE  NoRepeat(v) /\ LastIs(v, last)
  <1>1. Results(v, GivenBy) = Results(w, GivenBy) /\ \A i \in Results(w, GivenBy) : v[i] = w[i]
    BY NothingNew
  <1>2. NoRepeat(v)
    BY <1>1 DEF NoRepeat
  <1>3. LastIs(v, last)
    BY <1>1 DEF LastIs
  <1> QED BY <1>2, <1>3

LEMMA OneMoreGiven ==
    ASSUME NEW w \in Seq(Part), NEW x \in Seq(Part), NEW v, Extends(v, w, x), Results(x, GivenBy) = {2},
           NoRepeat(w), NEW last, LastIs(w, last), x[2].sig # last
    PROVE  NoRepeat(v) /\ LastIs(v, x[2].sig)
  <1> PICK n, e : n = Len(w) + 2 /\ e = x[2]
    OBVIOUS
  <1>1. 2 \in DOMAIN x /\ Results(w, GivenBy) \subseteq DOMAIN w
    BY DEF Results
  <1>2. /\ Results(w, GivenBy) \subseteq 1 .. Len(w) /\ Len(w) \in Nat /\ n \in Nat /\ n > Len(w)
        /\ Results(v, GivenBy) = Results(w, GivenBy) \cup {n}
        /\ v[n] = e /\ \A i \in Results(w, GivenBy) : v[i] = w[i]
    BY <1>1, ResultsOfLonger
  <1>3. \A i \in Results(w, GivenBy) : i \in Nat /\ i < n
    BY <1>2
  <1>4. LastIs(v, e.sig)
    BY <1>2, <1>3 DEF LastIs
  <1>5. ASSUME NEW i \in Results(v, GivenBy), NEW j \in Results(v, GivenBy), i < j, v[i].sig = v[j].sig
        PROVE  \E k \in Results(v, GivenBy) : i < k /\ k < j
    <2>1. i \in Results(w, GivenBy)
      BY <1>2, <1>3, <1>5
    <2>2. CASE j \in Results(w, GivenBy)
      BY <1>2, <1>5, <2>1, <2>2 DEF NoRepeat
    <2>3. CASE j = n
      <3>1. w[i].sig # last
        BY <1>2, <1>5, <2>1, <2>3
      <3> PICK k \in Results(w, GivenBy) : ~(k <= i)
        BY <2>1, <3>1 DEF LastIs
      <3> QED BY <1>2, <1>3, <2>1, <2>3
    <2> QED BY <1>2, <2>2, <2>3
  <1>6. NoRepeat(v)
    BY <1>5 DEF NoRepeat
  <1> QED BY <1>4, <1>6

LEMMA NoneDelegated ==
    ASSUME NEW w \in Seq(Part), NEW x \in Seq(Part), NEW v, Extends(v, w, x), Results(x, Delegated) = {}
    PROVE  (InOrder(w) => InOrder(v)) /\ \A id : DelegatedBelow(w, id) => DelegatedBelow(v, id)
  BY NothingNew DEF InOrder, DelegatedBelow

LEMMA DelegatedLast ==
    ASSUME NEW w \in Seq(Part), NEW x \in Seq(Part), NEW v, Extends(v, w, x), InOrder(w),
           \A i \in DOMAIN x : DelegatedBelow(w, x[i].id),
           \A i, j \in DOMAIN x : i < j => x[i].id < x[j].id
    PROVE  InOrder(v)
  <1> SUFFICES ASSUME NEW i \in Results(v, Delegated), NEW j \in Results(v, Delegated), i < j
               PROVE  v[i].id < v[j].id
    BY DEF InOrder
  <1>1. /\ \A k \in Results(w, Delegated) : k \in DOMAIN w
        /\ \A k \in Results(x, Delegated) : k \in DOMAIN x
    BY DEF Results
  <1>2. CASE i \in Results(w, Delegated) /\ j \in Results(w, Delegated)
    <2>1. v[i] = w[i] /\ v[j] = w[j]
      BY <1>1, <1>2, ResultsOfLonger
    <2> QED BY <1>2, <2>1 DEF InOrder
  <1>3. ASSUME NEW k \in Results(x, Delegated), i \in Results(w, Delegated), j = Len(w) + k
        PROVE  v[i].id < v[j].id
    <2>1. v[i] = w[i] /\ v[j] = x[k]
      BY <1>1, <1>3, ResultsOfLonger
    <2> QED BY <1>1, <1>3, <2>1 DEF DelegatedBelow
  <1>4. ASSUME NEW k \in Results(x, Delegated), i = Len(w) + k PROVE v[i].id < v[j].id
    <2>1. j \notin Results(w, Delegated)
      BY <1>4, ResultsOfLonger
    <2> PICK m \in Results(x, Delegated) : j = Len(w) + m
      BY <2>1, ResultsOfLonger
    <2>2. k < m /\ v[i] = x[k] /\ v[j] = x[m]
      BY <1>1, <1>4, ResultsOfLonger
    <2> QED BY <1>1, <2>2
  <1> QED BY <1>2, <1>3, <1>4, ResultsOfLonger

LEMMA Counted ==
    ASSUME NEW w \in Seq(Part), NEW x \in Seq(Part), NEW v, Extends(v, w, x), NEW by
    PROVE  /\ Cardinality(Results(w, by)) \in Nat
           /\ Results(x, by) = {} => Cardinality(Results(v, by)) = Cardinality(Results(w, by))
           /\ Results(x, by) = {2} => Cardinality(Results(v, by)) = Cardinality(Results(w, by)) + 1
  <1>1. Results(w, by) \subseteq 1 .. Len(w) /\ Len(w) \in Nat
    BY ResultsOfLonger
  <1>2. IsFiniteSet(Results(w, by))
    <2>1. IsFiniteSet(1 .. Len(w))
      BY <1>1, FS_Interval
    <2> QED BY <1>1, <2>1, FS_Subset
  <1>3. ASSUME Results(x, by) = {2} PROVE Cardinality(Results(v, by)) = Cardinality(Results(w, by)) + 1
    <2> PICK n : n = Len(w) + 2
      OBVIOUS
    <2>1. 2 \in DOMAIN x /\ Results(w, by) \subseteq DOMAIN w
      BY <1>3 DEF Results
    <2>2. Results(v, by) = Results(w, by) \cup {n} /\ n \notin Results(w, by)
      BY <1>1, <1>3, <2>1, ResultsOfLonger
    <2> QED BY <1>2, <2>2, FS_AddElement
  <1>4. Results(x, by) = {} => Results(v, by) = Results(w, by)
    BY NothingNew
  <1> QED BY <1>2, <1>3, <1>4, FS_CardinalityType

-----------------------------------------------------------------------------
(* What is so of every agent's run.                                         *)

RunningIds(r) == {r.kids[i].id : i \in DOMAIN r.kids}

\* A turn that goes on: the model has been shown all but this pass, last_call is
\* what was carried out last, and the delegations come after those answered.
InTurn(r) ==
    /\ r.seen = Len(r.turn)
    /\ IdsUpTo(Whole(r), r.made)
    /\ LastIs(Whole(r), r.last)
    /\ \A i \in DOMAIN r.kids : r.kids[i].id <= r.made /\ DelegatedBelow(Whole(r), r.kids[i].id)
    /\ \A i, j \in DOMAIN r.kids : i < j => r.kids[i].id < r.kids[j].id

\* In a pass, only delegated calls wait; without a call there is nothing new.
OpenPass(r) ==
    /\ AnsweredBut(Whole(r), RunningIds(r))
    /\ r.calls = 0 => r.parts = <<>> /\ r.kids = <<>>

\* The summary pass answers nothing.
LastPass(r) == r.kids = <<>> /\ \A i \in DOMAIN r.parts : r.parts[i].part = "call"

Sound(r) ==
    /\ ~r.unshown
    /\ InOrder(Whole(r)) /\ NoRepeat(Whole(r))
    /\ r.phase # "over" => InTurn(r)
    /\ r.phase \in {"reading", "joining"} => OpenPass(r)
    /\ r.phase \in {"reading", "summary"} => Closed(r.turn)
    /\ r.phase = "summary" => LastPass(r)

LEMMA FiniteResults ==
    ASSUME NEW w \in Seq(Part), NEW by PROVE Cardinality(Results(w, by)) \in Nat
  <1>1. Results(w, by) \subseteq 1 .. Len(w) /\ Len(w) \in Nat
    BY DEF Results
  <1>2. IsFiniteSet(1 .. Len(w))
    BY <1>1, FS_Interval
  <1> QED BY <1>1, <1>2, FS_Subset, FS_CardinalityType

LEMMA RunType ==
    ASSUME NEW r \in Run
    PROVE  /\ r.phase \in Phases /\ r.passes \in Nat /\ r.executions \in Nat /\ r.made \in Nat
           /\ r.calls \in Nat /\ r.toolsLast \in Nat /\ r.capHit \in BOOLEAN /\ r.err \in BOOLEAN
           /\ r.last \in Sigs \cup {Spawn, NoSig} /\ r.turn \in Seq(Part) /\ r.parts \in Seq(Part)
           /\ r.kids \in Seq(Kid) /\ r.spoke \in BOOLEAN /\ r.seen \in Nat /\ r.unshown \in BOOLEAN
  BY DEF Run

LEMMA PartType ==
    /\ \A p \in Part : p.id \in Nat
    /\ \A kid \in Kid : kid.id \in Nat
    /\ \A n \in Nat, sig \in Sigs \cup {Spawn, NoSig} : [part |-> "call", id |-> n, sig |-> sig] \in Part
    /\ \A n \in Nat, sig \in Sigs \cup {Spawn, NoSig}, by \in Answers :
          [part |-> "result", id |-> n, sig |-> sig, by |-> by] \in Part
  BY DEF Part, Kid

LEMMA WholeType ==
    ASSUME NEW r \in Run
    PROVE  /\ Whole(r) \in Seq(Part) /\ \A i \in DOMAIN Whole(r) : Whole(r)[i].id \in Nat
           /\ r.parts = <<>> => Whole(r) = r.turn
  <1>1. r.turn \in Seq(Part) /\ r.parts \in Seq(Part)
    BY RunType
  <1>2. Whole(r) \in Seq(Part)
    BY <1>1, ConcatProperties DEF Whole
  <1>3. r.parts = <<>> => Whole(r) = r.turn
    BY <1>1, ConcatEmptySeq DEF Whole
  <1> QED BY <1>2, <1>3, PartType

\* A call is recorded behind all that the turn has.
LEMMA Recorded ==
    ASSUME NEW turn \in Seq(Part), NEW parts \in Seq(Part), NEW c \in Part, NEW results \in Seq(Part)
    PROVE  /\ Append(parts, c) \o results \in Seq(Part) /\ <<c>> \o results \in Seq(Part)
           /\ turn \o (Append(parts, c) \o results) = (turn \o parts) \o (<<c>> \o results)
  <1>1. <<c>> \in Seq(Part) /\ Append(parts, c) \in Seq(Part) /\ Append(parts, c) = parts \o <<c>>
    BY AppendProperties, AppendIsConcat
  <1>2. <<c>> \o results \in Seq(Part) /\ Append(parts, c) \o results \in Seq(Part)
    BY <1>1, ConcatProperties
  <1>3. Append(parts, c) \o results = parts \o (<<c>> \o results)
    BY <1>1, ConcatAssociative
  <1> QED BY SMTT(30), <1>2, <1>3, ConcatAssociative

\* A call that is answered where it arrives: refused, or carried out.
LEMMA AnsweredCall ==
    ASSUME NEW r \in Run, Sound(r), r.phase = "reading", NEW s \in Run, NEW x \in Seq(Part),
           s.phase = r.phase, s.turn = r.turn, s.seen = r.seen, s.unshown = r.unshown,
           s.kids = r.kids, s.made = r.made + 1, s.calls = r.calls + 1,
           Extends(Whole(s), Whole(r), x), Len(x) = 2,
           x[1].part = "call", x[1].id = r.made + 1, IsAnswer(x[2], r.made + 1), x[2].by \notin Delegated,
           \/ x[2].by \in GivenBy /\ x[2].sig # r.last /\ s.last = x[2].sig
           \/ x[2].by \notin GivenBy /\ s.last = r.last
    PROVE  Sound(s)
  <1> PICK w, v : w = Whole(r) /\ v = Whole(s)
    OBVIOUS
  <1>1. w \in Seq(Part) /\ Extends(v, w, x) /\ \A i \in DOMAIN w : w[i].id \in Nat
    BY WholeType
  <1>2. /\ InOrder(w) /\ NoRepeat(w) /\ IdsUpTo(w, r.made) /\ LastIs(w, r.last)
        /\ AnsweredBut(w, RunningIds(r)) /\ r.made \in Nat /\ r.calls \in Nat
    BY RunType DEF Sound, InTurn, OpenPass
  <1>3. /\ DOMAIN x = 1 .. 2 /\ x[2].part = "result" /\ x[1].part # "result"
        /\ Results(x, Delegated) = {}
        /\ Results(x, GivenBy) = IF x[2].by \in GivenBy THEN {2} ELSE {}
    BY DEF Results, IsAnswer
  <1>4. \A i \in DOMAIN r.kids : r.kids[i].id <= r.made /\ r.kids[i].id \in Nat
    BY RunType, PartType DEF Sound, InTurn
  <1>5. r.made + 1 \notin RunningIds(r)
    BY <1>2, <1>4 DEF RunningIds
  <1>6. AnsweredBut(v, RunningIds(r)) /\ IdsUpTo(v, r.made + 1)
    BY <1>1, <1>2, <1>5, AnsweredAtOnce
  <1>7. NoRepeat(v) /\ LastIs(v, s.last)
    BY <1>1, <1>2, <1>3, NoneGiven, OneMoreGiven
  <1>8. InOrder(v) /\ \A i \in DOMAIN r.kids : DelegatedBelow(v, r.kids[i].id)
    BY <1>1, <1>2, <1>3, NoneDelegated DEF Sound, InTurn
  <1>9. InTurn(s)
    BY <1>2, <1>4, <1>6, <1>7, <1>8 DEF InTurn, Sound
  <1>10. OpenPass(s)
    BY <1>2, <1>6 DEF OpenPass, RunningIds
  <1> QED BY <1>7, <1>8, <1>9, <1>10 DEF Sound

\* A delegation: its result comes when the pass joins its subagents.
LEMMA DelegatedCall ==
    ASSUME NEW r \in Run, Sound(r), r.phase = "reading", NEW s \in Run, NEW x \in Seq(Part), NEW kid,
           s.phase = r.phase, s.turn = r.turn, s.seen = r.seen, s.unshown = r.unshown,
           Appended(s.kids, r.kids, kid), kid.id = r.made + 1, s.made = r.made + 1,
           s.calls = r.calls + 1, s.last = r.last,
           Extends(Whole(s), Whole(r), x), Len(x) = 1, x[1].part = "call", x[1].id = r.made + 1
    PROVE  Sound(s)
  <1> PICK w, v : w = Whole(r) /\ v = Whole(s)
    OBVIOUS
  <1>1. w \in Seq(Part) /\ Extends(v, w, x) /\ \A i \in DOMAIN w : w[i].id \in Nat
    BY WholeType
  <1>2. /\ InOrder(w) /\ NoRepeat(w) /\ IdsUpTo(w, r.made) /\ LastIs(w, r.last)
        /\ AnsweredBut(w, RunningIds(r)) /\ r.made \in Nat /\ r.calls \in Nat /\ r.kids \in Seq(Kid)
    BY RunType DEF Sound, InTurn, OpenPass
  <1>3. DOMAIN x = 1 .. 1 /\ Results(x, Delegated) = {} /\ Results(x, GivenBy) = {}
    BY DEF Results
  <1>4. \A i \in DOMAIN r.kids : r.kids[i].id <= r.made /\ r.kids[i].id \in Nat
    BY RunType, PartType DEF Sound, InTurn
  <1>5. /\ DOMAIN r.kids = 1 .. Len(r.kids) /\ Len(r.kids) \in Nat
        /\ DOMAIN s.kids = 1 .. Len(r.kids) + 1
        /\ s.kids[Len(r.kids) + 1] = kid /\ \A i \in DOMAIN r.kids : s.kids[i] = r.kids[i]
    BY ONLY <1>2, Appended(s.kids, r.kids, kid) DEF Appended
  <1>6. RunningIds(s) = RunningIds(r) \cup {r.made + 1}
    <2>1. \A i \in DOMAIN s.kids : i \in DOMAIN r.kids \/ i = Len(r.kids) + 1
      BY <1>5
    <2>2. Len(r.kids) + 1 \in DOMAIN s.kids /\ \A i \in DOMAIN r.kids : i \in DOMAIN s.kids
      BY <1>5
    <2> QED BY SMTT(30), <1>5, <2>1, <2>2 DEF RunningIds
  <1>7. AnsweredBut(v, RunningIds(s)) /\ IdsUpTo(v, s.made)
    <2>1. AnsweredBut(v, RunningIds(r) \cup {r.made + 1}) /\ IdsUpTo(v, r.made + 1)
      BY <1>1, <1>2, AnsweredLater
    <2> QED BY <1>6, <2>1
  <1>8. NoRepeat(v) /\ LastIs(v, s.last)
    BY <1>1, <1>2, <1>3, NoneGiven
  <1>9. DelegatedBelow(w, r.made + 1)
    BY <1>1, <1>2 DEF DelegatedBelow, IdsUpTo, Results
  <1>10. InOrder(v) /\ \A i \in DOMAIN s.kids : DelegatedBelow(v, s.kids[i].id)
    <2>1. \A i \in DOMAIN s.kids : i \in DOMAIN r.kids \/ s.kids[i].id = r.made + 1
      BY <1>5
    <2>2. \A i \in DOMAIN s.kids : DelegatedBelow(w, s.kids[i].id)
      BY <1>5, <1>9, <2>1 DEF Sound, InTurn
    <2> QED BY <1>1, <1>2, <1>3, <2>2, NoneDelegated
  <1>11. /\ \A i \in DOMAIN s.kids : s.kids[i].id <= s.made
         /\ \A i, j \in DOMAIN s.kids : i < j => s.kids[i].id < s.kids[j].id
    <2>1. \A i \in DOMAIN s.kids : i \in DOMAIN r.kids \/ (i = Len(r.kids) + 1 /\ s.kids[i].id = r.made + 1)
      BY <1>5
    <2>2. ASSUME NEW i \in DOMAIN s.kids
          PROVE  s.kids[i].id <= s.made
      <3>1. CASE i \in DOMAIN r.kids
        <4>1. s.kids[i] = r.kids[i]
          BY ONLY <1>5, <3>1
        <4>2. r.kids[i].id <= r.made /\ r.kids[i].id \in Nat /\ r.made \in Nat
          BY ONLY <1>2, <1>4, <3>1
        <4> QED BY ONLY <4>1, <4>2, s.made = r.made + 1
      <3>2. CASE s.kids[i].id = r.made + 1
        <4> QED BY ONLY <1>2, <3>2, s.made = r.made + 1
      <3> QED BY <2>1, <3>1, <3>2
    <2>3. ASSUME NEW i \in DOMAIN s.kids, NEW j \in DOMAIN s.kids, i < j
          PROVE  s.kids[i].id < s.kids[j].id
      <3>1. i \in DOMAIN r.kids
        BY <1>5, <2>3
      <3>2. CASE j \in DOMAIN r.kids
        BY <1>5, <2>3, <3>1, <3>2 DEF Sound, InTurn
      <3>3. CASE s.kids[j].id = r.made + 1
        <4>1. s.kids[i] = r.kids[i]
          BY ONLY <1>5, <3>1
        <4>2. r.kids[i].id <= r.made /\ r.kids[i].id \in Nat /\ r.made \in Nat
          BY ONLY <1>2, <1>4, <3>1
        <4> QED BY ONLY <3>3, <4>1, <4>2
      <3> QED BY <2>1, <3>2, <3>3
    <2> QED BY <2>2, <2>3
  <1>12. InTurn(s)
    BY <1>7, <1>8, <1>10, <1>11 DEF InTurn, Sound
  <1>13. OpenPass(s)
    BY <1>2, <1>7 DEF OpenPass
  <1> QED BY <1>8, <1>10, <1>12, <1>13 DEF Sound

\* A call in the summary pass is only announced.
LEMMA LateCall ==
    ASSUME NEW r \in Run, Sound(r), r.phase = "summary", NEW s \in Run, NEW c \in Part,
           s.phase = r.phase, s.turn = r.turn, s.seen = r.seen, s.unshown = r.unshown,
           s.kids = r.kids, s.made = r.made + 1, s.last = r.last,
           Appended(s.parts, r.parts, c), c.part = "call", c.id = r.made + 1,
           NEW x \in Seq(Part), Extends(Whole(s), Whole(r), x), Len(x) = 1, x[1] = c
    PROVE  Sound(s)
  <1> PICK w, v : w = Whole(r) /\ v = Whole(s)
    OBVIOUS
  <1>1. w \in Seq(Part) /\ Extends(v, w, x) /\ \A i \in DOMAIN w : w[i].id \in Nat
    BY WholeType
  <1>2. /\ InOrder(w) /\ NoRepeat(w) /\ IdsUpTo(w, r.made) /\ LastIs(w, r.last) /\ LastPass(r)
        /\ r.made \in Nat /\ r.parts \in Seq(Part)
    BY RunType DEF Sound, InTurn
  <1>3. DOMAIN x = 1 .. 1 /\ Results(x, Delegated) = {} /\ Results(x, GivenBy) = {}
    BY DEF Results
  <1>4. NoRepeat(v) /\ LastIs(v, s.last) /\ InOrder(v)
    BY <1>1, <1>2, <1>3, NoneGiven, NoneDelegated
  <1>5. IdsUpTo(v, s.made)
    <2>1. \A j \in DOMAIN v : (j \in DOMAIN w /\ v[j] = w[j]) \/ \E i \in DOMAIN x : v[j] = x[i]
      BY <1>1, Longer
    <2>2. \A j \in DOMAIN v : (j \in DOMAIN w /\ v[j] = w[j]) \/ v[j].id = r.made + 1
      BY <1>3, <2>1
    <2> QED BY <1>1, <1>2, <2>2 DEF IdsUpTo
  <1>6. LastPass(s)
    BY <1>2 DEF LastPass, Appended
  <1>7. InTurn(s)
    BY <1>2, <1>4, <1>5, <1>6 DEF InTurn, Sound, LastPass
  <1> QED BY <1>4, <1>6, <1>7 DEF Sound

\* The turn when the pass has joined its subagents.
LEMMA ExtendedTurn ==
    ASSUME NEW r \in Run, Sound(r), r.phase = "joining", NEW t, t = Extended(r).turn
    PROVE  /\ KidResults(r) \in Seq(Part) /\ Extends(t, Whole(r), KidResults(r)) /\ t \in Seq(Part)
           /\ AnsweredBut(t, {}) /\ IdsUpTo(t, r.made)
           /\ InOrder(t) /\ NoRepeat(t) /\ LastIs(t, r.last)
           /\ r.calls = 0 => t = r.turn
           /\ Results(KidResults(r), {"tool"}) = {}
  <1> PICK w, x : w = Whole(r) /\ x = KidResults(r)
    OBVIOUS
  <1>1. /\ w \in Seq(Part) /\ \A i \in DOMAIN w : w[i].id \in Nat
        /\ InOrder(w) /\ NoRepeat(w) /\ IdsUpTo(w, r.made) /\ LastIs(w, r.last)
        /\ AnsweredBut(w, RunningIds(r)) /\ r.made \in Nat /\ r.kids \in Seq(Kid)
        /\ r.turn \in Seq(Part)
    BY RunType, WholeType DEF Sound, InTurn, OpenPass
  <1>2. /\ DOMAIN r.kids = 1 .. Len(r.kids) /\ Len(r.kids) \in Nat
        /\ \A i \in DOMAIN r.kids : r.kids[i] \in Kid /\ r.kids[i].id \in Nat
    BY <1>1, PartType
  <1>3. \A i \in DOMAIN r.kids : /\ KidResult(r.kids[i]) \in Part /\ KidResult(r.kids[i]).part = "result"
                                 /\ KidResult(r.kids[i]).id = r.kids[i].id
                                 /\ KidResult(r.kids[i]).by \in Delegated
    <2> SUFFICES ASSUME NEW i \in DOMAIN r.kids
                 PROVE  /\ KidResult(r.kids[i]) \in Part /\ KidResult(r.kids[i]).part = "result"
                        /\ KidResult(r.kids[i]).id = r.kids[i].id /\ KidResult(r.kids[i]).by \in Delegated
      OBVIOUS
    <2>1. Verdict(r.kids[i]) \in Delegated /\ Delegated \subseteq Answers
      BY DEF Verdict, Delegated, Answers
    <2> PICK n, by : n = r.kids[i].id /\ by = Verdict(r.kids[i])
      OBVIOUS
    <2>2. KidResult(r.kids[i]) = [part |-> "result", id |-> n, sig |-> Spawn, by |-> by]
      BY DEF KidResult
    <2>3. n \in Nat /\ by \in Answers /\ Spawn \in Sigs \cup {Spawn, NoSig}
      BY <1>2, <2>1
    <2> QED BY <2>1, <2>2, <2>3, PartType
  <1>4. /\ DOMAIN x = DOMAIN r.kids /\ Len(x) = Len(r.kids)
        /\ x \in [1 .. Len(r.kids) -> Part] /\ \A i \in DOMAIN r.kids : x[i] = KidResult(r.kids[i])
    BY <1>2, <1>3 DEF KidResults
  <1>5. x \in Seq(Part)
    BY <1>2, <1>4, SeqDef
  <1>6. /\ \A i \in DOMAIN x : /\ x[i].part = "result" /\ x[i].id = r.kids[i].id /\ x[i].by \in Delegated
                               /\ x[i].id <= r.made /\ x[i].id \in Nat /\ DelegatedBelow(w, x[i].id)
        /\ \A i, j \in DOMAIN x : i < j => x[i].id < x[j].id
    BY <1>2, <1>3, <1>4 DEF Sound, InTurn
  <1>7. t = w \o x
    <2> PICK turn : turn = r.turn \o r.parts \o KidResults(r)
      OBVIOUS
    <2>1. t = turn
      BY DEF Extended, Run
    <2> QED BY <2>1 DEF Whole
  <1>8. Extends(t, w, x) /\ t \in Seq(Part)
    BY <1>1, <1>5, <1>7, ConcatProperties DEF Extends
  <1>9. AnsweredBut(t, {})
    <2>1. \A i, j \in DOMAIN x : x[i].id = x[j].id => i = j
      <3> SUFFICES ASSUME NEW i \in DOMAIN x, NEW j \in DOMAIN x, x[i].id = x[j].id, i # j PROVE FALSE
        OBVIOUS
      <3>1. i < j \/ j < i
        BY <1>2, <1>4
      <3>2. ~(x[i].id < x[j].id) /\ ~(x[j].id < x[i].id)
        BY <1>6
      <3> QED BY <1>6, <3>1, <3>2
    <2>2. /\ \A i \in DOMAIN x : x[i].part = "result" /\ x[i].id \in RunningIds(r)
          /\ \A id \in RunningIds(r) : \E i \in DOMAIN x : x[i].id = id
      BY <1>4, <1>6 DEF RunningIds
    <2>3. w \in Seq(Part) /\ AnsweredBut(w, RunningIds(r))
      BY <1>1
    <2> QED BY ONLY <1>5, <1>8, <2>1, <2>2, <2>3, AllAnswered
  <1>10. IdsUpTo(t, r.made)
    <2>1. \A j \in DOMAIN t : (j \in DOMAIN w /\ t[j] = w[j]) \/ \E i \in DOMAIN x : t[j] = x[i]
      BY <1>1, <1>5, <1>8, Longer
    <2> QED BY <1>1, <1>6, <2>1 DEF IdsUpTo
  <1>11. Results(x, GivenBy) = {} /\ Results(x, {"tool"}) = {}
    BY <1>6 DEF Results, GivenBy, Delegated
  <1>12. NoRepeat(t) /\ LastIs(t, r.last)
    BY <1>1, <1>5, <1>8, <1>11, NoneGiven
  <1>13. InOrder(t)
    BY <1>1, <1>5, <1>6, <1>8, DelegatedLast
  <1>14. r.calls = 0 => t = r.turn
    <2> SUFFICES ASSUME r.calls = 0 PROVE t = r.turn
      OBVIOUS
    <2>1. r.parts = <<>> /\ r.kids = <<>>
      BY DEF Sound, OpenPass
    <2>2. w = r.turn /\ Len(x) = 0
      BY <1>4, <2>1, WholeType
    <2>3. x = <<>>
      BY <1>5, <2>2
    <2> QED BY <1>1, <1>7, <2>2, <2>3, ConcatEmptySeq
  <1> QED BY <1>5, <1>8, <1>9, <1>10, <1>11, <1>12, <1>13, <1>14

-----------------------------------------------------------------------------
(* What a turn may cost.                                                    *)

\* Agent a's run r, when n subagents have been accepted.
Spends(a, r, n) ==
    LET cost == Ran(r) + IF a = Root THEN n ELSE 0
    IN  /\ cost <= ToolBudget(a)
        /\ r.phase # "over" => cost <= r.executions /\ r.executions <= ToolBudget(a)

\* The user's turn r, when n have been: MaxSiblings for each pass it ended, and
\* those of the pass it is in.
Siblings(r, n) ==
    /\ r.phase # "unborn"
    /\ r.phase # "over" => r.passes >= 1 /\ n <= MaxSiblings * r.passes
    /\ r.phase \in {"reading", "joining"} => n <= MaxSiblings * (r.passes - 1) + Len(r.kids)

LoopInv ==
    /\ TypeOK
    /\ \A a \in Agents : Sound(agent[a]) /\ Spends(a, agent[a], spawned)
    /\ Siblings(agent[Root], spawned)

LEMMA Numbers ==
    /\ Root \in Agents /\ MaxAgents \in Nat /\ NoAgent = MaxAgents + 1 /\ Agents = 0 .. MaxAgents
    /\ \A a \in Agents : /\ ToolBudget(a) \in Nat /\ ModelBudget(a) \in Nat
                         /\ MaxCalls[a] \in Nat /\ Makes[a] \subseteq Sigs
    /\ MaxSiblings \in Nat
  BY LoopAssumption DEF Root, Agents, NoAgent, ToolBudget, ModelBudget

LEMMA RunStep ==
    ASSUME LoopInv, NEW a \in Agents, NEW r \in Run, agent' = [agent EXCEPT ![a] = r], Sound(r),
           NEW n \in Agents, spawned' = n, a # Root => n = spawned,
           over' \in Seq(Agents), Spends(a, r, n), a = Root => Siblings(r, n)
    PROVE  LoopInv'
  <1>1. agent \in [Agents -> Run] /\ Root \in Agents
    BY Numbers DEF LoopInv, TypeOK
  <1>2. agent'[a] = r /\ \A b \in Agents : b # a => agent'[b] = agent[b]
    BY <1>1
  <1>3. TypeOK'
    BY <1>1 DEF LoopInv, TypeOK, Agents
  <1>4. ASSUME NEW b \in Agents PROVE Sound(agent[b])' /\ Spends(b, agent[b], spawned)'
    <2> PICK s : s = agent'[b]
      OBVIOUS
    <2>1. Sound(s) /\ Spends(b, s, n)
      <3>1. CASE b = a
        BY <1>2, <3>1
      <3>2. CASE b # a
        <4>1. s = agent[b] /\ Sound(s) /\ Spends(b, s, spawned)
          BY <1>2, <3>2 DEF LoopInv
        <4> QED BY <3>2, <4>1 DEF Spends
      <3> QED BY <3>1, <3>2
    <2>2. Sound(agent[b])'
      BY <2>1 DEF Sound, InTurn, OpenPass, LastPass, Whole, RunningIds
    <2>3. Spends(b, agent[b], spawned)'
      BY <2>1 DEF Spends, Ran, Whole, Root
    <2> QED BY <2>2, <2>3
  <1>5. Siblings(agent[Root], spawned)'
    <2> PICK s : s = agent'[Root]
      OBVIOUS
    <2>1. Siblings(s, n)
      <3>1. CASE Root = a
        BY <1>2, <3>1
      <3>2. CASE Root # a
        BY <1>1, <1>2, <3>2 DEF LoopInv
      <3> QED BY <3>1, <3>2
    <2> QED BY <2>1 DEF Siblings, Root
  <1> QED BY <1>3, <1>4, <1>5 DEF LoopInv, Agents

\* A call recorded in r, with its results.
LEMMA CalledRun ==
    ASSUME NEW r \in Run, NEW sig \in Sigs \cup {Spawn, NoSig}, NEW results \in Seq(Part),
           NEW d, Is(d, Called(r, sig, results)), NEW c, Is(c, CallPart(r, sig))
    PROVE  /\ d \in Run /\ c \in Part /\ c.part = "call" /\ c.id = r.made + 1
           /\ d.phase = r.phase /\ d.passes = r.passes /\ d.executions = r.executions /\ d.kids = r.kids
           /\ d.last = r.last /\ d.turn = r.turn /\ d.seen = r.seen /\ d.unshown = r.unshown
           /\ d.made = r.made + 1 /\ d.calls = r.calls + 1
           /\ Is(d.parts, Append(r.parts, c) \o results)
  <1> PICK n : Is(n, r.made + 1)
    BY DEF Is
  <1>1. n \in Nat /\ r.calls + 1 \in Nat /\ r.parts \in Seq(Part) /\ r.turn \in Seq(Part)
    BY RunType DEF Is
  <1>2. c = [part |-> "call", id |-> n, sig |-> sig]
    BY DEF CallPart, Is
  <1>3. c \in Part /\ c.part = "call" /\ c.id = n
    BY ONLY <1>1, <1>2, sig \in Sigs \cup {Spawn, NoSig}, PartType
  <1> PICK parts : Is(parts, Append(r.parts, c) \o results)
    BY DEF Is
  <1>4. parts \in Seq(Part)
    BY ONLY <1>1, <1>3, Is(parts, Append(r.parts, c) \o results), results \in Seq(Part), Recorded DEF Is
  <1>5. d = [r EXCEPT !.made = n, !.calls = r.calls + 1, !.parts = parts]
    BY DEF Called, Run, Is
  <1>6. /\ d \in Run
        /\ d.phase = r.phase /\ d.passes = r.passes /\ d.executions = r.executions /\ d.kids = r.kids
        /\ d.last = r.last /\ d.turn = r.turn /\ d.seen = r.seen /\ d.unshown = r.unshown
        /\ d.made = n /\ d.calls = r.calls + 1 /\ d.parts = parts
    BY ONLY r \in Run, <1>1, <1>4, <1>5 DEF Run
  <1> QED BY ONLY <1>3, <1>6, Is(n, r.made + 1), Is(parts, Append(r.parts, c) \o results) DEF Is

LEMMA WholeGrows ==
    ASSUME NEW r \in Run, NEW c \in Part, NEW results \in Seq(Part), NEW s,
           s.turn = r.turn, Is(s.parts, Append(r.parts, c) \o results),
           NEW x, Is(x, <<c>> \o results)
    PROVE  /\ x \in Seq(Part) /\ Extends(Whole(s), Whole(r), x) /\ Len(x) = Len(results) + 1
           /\ x[1] = c
           /\ Len(results) = 1 => x[2] = results[1]
           /\ Len(results) = 0 => s.parts = Append(r.parts, c)
  <1>1. r.parts \in Seq(Part) /\ r.turn \in Seq(Part)
    BY RunType
  <1>2. x \in Seq(Part) /\ r.turn \o (Append(r.parts, c) \o results) = (r.turn \o r.parts) \o x
    BY ZenonT(30), <1>1, Recorded DEF Is
  <1>3. Extends(Whole(s), Whole(r), x)
    BY <1>2 DEF Extends, Whole, Is
  <1>4. Len(x) = Len(results) + 1 /\ x[1] = c /\ (Len(results) = 1 => x[2] = results[1])
    BY DEF Is
  <1>5. ASSUME Len(results) = 0 PROVE s.parts = Append(r.parts, c)
    <2>1. results = <<>> /\ Append(r.parts, c) \in Seq(Part)
      BY <1>1, <1>5
    <2> QED BY ONLY <2>1, Is(s.parts, Append(r.parts, c) \o results), ConcatEmptySeq DEF Is
  <1> QED BY <1>2, <1>3, <1>4, <1>5

-----------------------------------------------------------------------------
(* Calls.                                                                   *)

\* d is r with a call more, and its results.
Grown(d, r, results) ==
    /\ d.phase = r.phase /\ d.passes = r.passes /\ d.executions = r.executions /\ d.kids = r.kids
    /\ d.last = r.last /\ d.turn = r.turn /\ d.seen = r.seen /\ d.unshown = r.unshown
    /\ d.made = r.made + 1 /\ d.calls = r.calls + 1
    /\ \E x \in Seq(Part) :
          /\ Extends(Whole(d), Whole(r), x) /\ Len(x) = Len(results) + 1 /\ DOMAIN x = 1 .. Len(x)
          /\ x[1] \in Part /\ x[1].part = "call" /\ x[1].id = r.made + 1
          /\ Len(results) = 1 => x[2] = results[1]
          /\ Len(results) = 0 => Appended(d.parts, r.parts, x[1])

LEMMA CallGrows ==
    ASSUME NEW r \in Run, NEW sig \in Sigs \cup {Spawn, NoSig}, NEW results \in Seq(Part),
           NEW d, Is(d, Called(r, sig, results))
    PROVE  d \in Run /\ Grown(d, r, results)
  <1> PICK c : Is(c, CallPart(r, sig))
    BY DEF Is
  <1> PICK x : Is(x, <<c>> \o results)
    BY DEF Is
  <1>1. /\ d \in Run /\ c \in Part /\ c.part = "call" /\ c.id = r.made + 1
        /\ d.phase = r.phase /\ d.passes = r.passes /\ d.executions = r.executions /\ d.kids = r.kids
        /\ d.last = r.last /\ d.turn = r.turn /\ d.seen = r.seen /\ d.unshown = r.unshown
        /\ d.made = r.made + 1 /\ d.calls = r.calls + 1
        /\ Is(d.parts, Append(r.parts, c) \o results)
    BY CalledRun
  <1>2. /\ x \in Seq(Part) /\ Extends(Whole(d), Whole(r), x) /\ Len(x) = Len(results) + 1 /\ x[1] = c
        /\ Len(results) = 1 => x[2] = results[1]
        /\ Len(results) = 0 => d.parts = Append(r.parts, c)
    BY <1>1, WholeGrows
  <1>3. DOMAIN x = 1 .. Len(x)
    BY ONLY <1>2
  <1>4. Len(results) = 0 => Appended(d.parts, r.parts, x[1])
    BY ONLY <1>2 DEF Appended
  <1> QED BY ONLY <1>1, <1>2, <1>3, <1>4 DEF Grown

LEMMA Own ==
    ASSUME LoopInv, NEW a \in Agents
    PROVE  /\ agent[a] \in Run /\ Sound(agent[a]) /\ Spends(a, agent[a], spawned)
           /\ a = Root => Siblings(agent[a], spawned)
           /\ spawned \in Agents /\ spawned \in Nat /\ over \in Seq(Agents)
  BY Numbers DEF LoopInv, TypeOK

\* The result of a call, on its own.
LEMMA OneResult ==
    ASSUME NEW r \in Run, NEW sig \in Sigs \cup {Spawn, NoSig}, NEW by \in Answers,
           NEW rs, Just(rs, ResultPart(r, sig, by))
    PROVE  /\ rs \in Seq(Part) /\ Len(rs) = 1 /\ IsAnswer(rs[1], r.made + 1)
           /\ rs[1].by = by /\ rs[1].sig = sig
  <1> PICK n, e : Is(n, r.made + 1) /\ Is(e, ResultPart(r, sig, by))
    BY DEF Is
  <1>1. e = [part |-> "result", id |-> n, sig |-> sig, by |-> by] /\ n \in Nat
    BY RunType DEF ResultPart, Is
  <1>2. e \in Part /\ e.part = "result" /\ e.id = n /\ e.by = by /\ e.sig = sig
    BY ONLY <1>1, sig \in Sigs \cup {Spawn, NoSig}, by \in Answers, PartType
  <1>3. IsAnswer(e, n)
    BY <1>2 DEF IsAnswer
  <1>4. rs = <<e>>
    BY DEF Is, Just
  <1>5. rs \in Seq(Part) /\ Len(rs) = 1 /\ rs[1] = e
    BY ONLY <1>2, <1>4
  <1> QED BY <1>2, <1>3, <1>5 DEF Is

\* A refusal for the budget, in a pass and in the summary pass.
LEMMA RefusedRun ==
    ASSUME NEW r \in Run, Sound(r), r.phase \in {"reading", "summary"}, NEW d, NEW rs,
           Is(rs, BudgetRefusal(r)), Is(d, Called(r, NoSig, rs)), NEW s, Capped(s, d)
    PROVE  /\ s \in Run /\ Sound(s) /\ Ran(s) = Ran(r) /\ s.phase = r.phase /\ s.passes = r.passes
           /\ s.executions = r.executions /\ s.kids = r.kids
  <1>1. /\ rs \in Seq(Part)
        /\ r.phase = "reading" => /\ Len(rs) = 1 /\ IsAnswer(rs[1], r.made + 1) /\ rs[1].by = "budget"
        /\ r.phase = "summary" => Len(rs) = 0
    <2>1. CASE r.phase = "reading"
      <3> PICK by : by = "budget"
        OBVIOUS
      <3>1. Just(rs, ResultPart(r, NoSig, by)) /\ by \in Answers
        BY <2>1 DEF BudgetRefusal, Is, Just, Answers
      <3>2. rs \in Seq(Part) /\ Len(rs) = 1 /\ IsAnswer(rs[1], r.made + 1) /\ rs[1].by = by
        BY <3>1, OneResult
      <3> QED BY <2>1, <3>2
    <2>2. CASE r.phase = "summary"
      <3>1. rs = <<>> /\ r.phase # "reading"
        BY <2>2 DEF BudgetRefusal, Is
      <3> QED BY ONLY <3>1
    <2> QED BY <2>1, <2>2
  <1>2. d \in Run /\ Grown(d, r, rs)
    BY <1>1, CallGrows DEF Is
  <1>3. s \in Run /\ s.phase = d.phase /\ s.passes = d.passes /\ s.executions = d.executions
        /\ s.kids = d.kids /\ s.last = d.last /\ s.turn = d.turn /\ s.seen = d.seen
        /\ s.unshown = d.unshown /\ s.made = d.made /\ s.calls = d.calls /\ s.parts = d.parts
    BY ONLY <1>2, Capped(s, d) DEF Capped, Run
  <1>8. PICK x \in Seq(Part) :
          /\ Extends(Whole(d), Whole(r), x) /\ Len(x) = Len(rs) + 1 /\ DOMAIN x = 1 .. Len(x)
          /\ x[1] \in Part /\ x[1].part = "call" /\ x[1].id = r.made + 1
          /\ Len(rs) = 1 => x[2] = rs[1]
          /\ Len(rs) = 0 => Appended(d.parts, r.parts, x[1])
    BY <1>2 DEF Grown
  <1>4. x \in Seq(Part) /\ Extends(Whole(s), Whole(r), x)
    BY ONLY <1>3, <1>8 DEF Whole
  <1>5. /\ s.phase = r.phase /\ s.turn = r.turn /\ s.seen = r.seen /\ s.unshown = r.unshown
        /\ s.kids = r.kids /\ s.made = r.made + 1 /\ s.calls = r.calls + 1 /\ s.last = r.last
        /\ s.passes = r.passes /\ s.executions = r.executions
    BY <1>2, <1>3 DEF Grown
  <1>6. Sound(s) /\ Results(x, {"tool"}) = {}
    <2>1. CASE r.phase = "reading"
      <3>1. Len(x) = 2 /\ IsAnswer(x[2], r.made + 1) /\ x[2].by = "budget"
        <4>1. Len(rs) = 1 /\ IsAnswer(rs[1], r.made + 1) /\ rs[1].by = "budget"
          BY ONLY <1>1, <2>1
        <4>2. Len(x) = 2 /\ x[2] = rs[1]
          BY ONLY <1>8, <4>1
        <4> QED BY ONLY <4>1, <4>2
      <3>2. x[2].by \notin Delegated /\ x[2].by \notin GivenBy
        BY <3>1 DEF Delegated, GivenBy
      <3>3. Sound(s)
        BY <1>3, <1>4, <1>5, <1>8, <2>1, <3>1, <3>2, AnsweredCall
      <3>4. DOMAIN x = 1 .. 2 /\ x[1].part # "result"
        BY ONLY <1>8, <3>1
      <3> QED BY ONLY <3>1, <3>3, <3>4 DEF Results
    <2>2. CASE r.phase = "summary"
      <3>1. Len(x) = 1 /\ Appended(s.parts, r.parts, x[1])
        BY <1>1, <1>3, <1>8, <2>2
      <3> PICK c : Is(c, x[1])
        BY DEF Is
      <3>2. Sound(s)
        BY <1>3, <1>4, <1>5, <1>8, <2>2, <3>1, LateCall DEF Is
      <3>3. DOMAIN x = 1 .. 1 /\ x[1].part # "result"
        BY ONLY <1>8, <3>1
      <3> QED BY ONLY <3>2, <3>3 DEF Results
    <2> QED BY <2>1, <2>2
  <1>7. Ran(s) = Ran(r)
    BY <1>4, <1>6, Counted, WholeType DEF Ran
  <1> QED BY <1>3, <1>5, <1>6, <1>7

LEMMA RefusalKeeps ==
    ASSUME LoopInv, NEW a \in Agents, RefuseOverBudget(a) PROVE LoopInv'
  <1> PICK r, rs : Is(r, agent[a]) /\ Is(rs, BudgetRefusal(r))
    BY DEF Is
  <1> PICK d : Is(d, Called(r, NoSig, rs))
    BY DEF Is
  <1> PICK s : Capped(s, d)
    BY DEF Capped
  <1>1. /\ r \in Run /\ Sound(r) /\ Spends(a, r, spawned) /\ (a = Root => Siblings(r, spawned))
        /\ spawned \in Agents /\ over \in Seq(Agents)
    BY Own DEF Is
  <1>2. /\ r.phase \in {"reading", "summary"} /\ agent' = [agent EXCEPT ![a] = s]
        /\ spawned' = spawned /\ over' = over
    BY DEF RefuseOverBudget, MayCall, Step, Is, Capped
  <1>3. /\ s \in Run /\ Sound(s) /\ Ran(s) = Ran(r) /\ s.phase = r.phase /\ s.passes = r.passes
        /\ s.executions = r.executions /\ s.kids = r.kids
    BY <1>1, <1>2, RefusedRun
  <1>4. Spends(a, s, spawned) /\ (a = Root => Siblings(s, spawned))
    BY <1>1, <1>3 DEF Spends, Siblings
  <1> QED BY <1>1, <1>2, <1>3, <1>4, RunStep

\* A call given to its tool, or refused as a repeat.
LEMMA ExecutedRun ==
    ASSUME NEW r \in Run, Sound(r), r.phase = "reading", NEW sig \in Sigs \cup {Spawn}, NEW by,
           by \in {"repeat", "nested", "tool"}, by = "repeat" <=> sig = r.last,
           NEW d, NEW rs, Just(rs, ResultPart(r, sig, by)), Is(d, Called(r, sig, rs)),
           NEW s, Executed(s, d, r.executions + 1, sig)
    PROVE  /\ s \in Run /\ Sound(s) /\ Ran(s) \in {Ran(r), Ran(r) + 1} /\ Ran(r) \in Nat
           /\ s.phase = r.phase /\ s.passes = r.passes
           /\ s.executions = r.executions + 1 /\ s.kids = r.kids
  <1>1. /\ by \in Answers /\ by \notin Delegated /\ (by \in GivenBy <=> sig # r.last)
        /\ sig \in Sigs \cup {Spawn, NoSig}
    BY DEF Answers, Delegated, GivenBy
  <1>2. /\ rs \in Seq(Part) /\ Len(rs) = 1 /\ IsAnswer(rs[1], r.made + 1)
        /\ rs[1].by = by /\ rs[1].sig = sig
    BY SMTT(30), <1>1, OneResult
  <1>3. d \in Run /\ Grown(d, r, rs)
    BY <1>1, <1>2, CallGrows DEF Is
  <1>4. /\ s \in Run /\ s.phase = d.phase /\ s.passes = d.passes /\ s.executions = r.executions + 1
        /\ s.kids = d.kids /\ s.last = sig /\ s.turn = d.turn /\ s.seen = d.seen
        /\ s.unshown = d.unshown /\ s.made = d.made /\ s.calls = d.calls /\ s.parts = d.parts
    <2>1. r.executions + 1 \in Nat
      BY RunType
    <2> QED BY ONLY <1>1, <1>3, <2>1, Executed(s, d, r.executions + 1, sig) DEF Executed, Run
  <1>10. PICK x \in Seq(Part) :
          /\ Extends(Whole(d), Whole(r), x) /\ Len(x) = Len(rs) + 1 /\ DOMAIN x = 1 .. Len(x)
          /\ x[1] \in Part /\ x[1].part = "call" /\ x[1].id = r.made + 1
          /\ Len(rs) = 1 => x[2] = rs[1]
    BY <1>3 DEF Grown
  <1>5. /\ x \in Seq(Part) /\ Extends(Whole(s), Whole(r), x) /\ Len(x) = 2 /\ DOMAIN x = 1 .. 2
        /\ IsAnswer(x[2], r.made + 1) /\ x[2].by = by /\ x[2].sig = sig
        /\ x[1].part = "call" /\ x[1].id = r.made + 1
    <2>1. Extends(Whole(s), Whole(r), x)
      BY ONLY <1>4, <1>10 DEF Whole
    <2> QED BY ONLY <1>2, <1>10, <2>1
  <1>6. /\ s.phase = r.phase /\ s.turn = r.turn /\ s.seen = r.seen /\ s.unshown = r.unshown
        /\ s.kids = r.kids /\ s.made = r.made + 1 /\ s.calls = r.calls + 1 /\ s.passes = r.passes
    BY <1>3, <1>4 DEF Grown
  <1>7. Sound(s)
    <2>1. \/ x[2].by \in GivenBy /\ x[2].sig # r.last /\ s.last = x[2].sig
          \/ x[2].by \notin GivenBy /\ s.last = r.last
      BY <1>1, <1>4, <1>5
    <2> QED BY <1>1, <1>4, <1>5, <1>6, <2>1, AnsweredCall
  <1>8. Results(x, {"tool"}) = {} \/ Results(x, {"tool"}) = {2}
    BY <1>5 DEF Results
  <1>9. Ran(r) \in Nat /\ Ran(s) \in {Ran(r), Ran(r) + 1}
    BY <1>5, <1>8, Counted, WholeType DEF Ran
  <1> QED BY <1>4, <1>6, <1>7, <1>9

LEMMA ExecutionKeeps ==
    ASSUME LoopInv, NEW a \in Agents, NEW sig \in Sigs \cup {Spawn}, ExecuteCall(a, sig) PROVE LoopInv'
  <1> PICK r : Is(r, agent[a])
    BY DEF Is
  <1> PICK by : Is(by, IF sig = r.last THEN "repeat" ELSE IF sig = Spawn THEN "nested" ELSE "tool")
    BY DEF Is
  <1> PICK rs : Just(rs, ResultPart(r, sig, by))
    BY DEF Just
  <1> PICK d : Is(d, Called(r, sig, rs))
    BY DEF Is
  <1> PICK s : Executed(s, d, r.executions + 1, sig)
    BY DEF Executed
  <1>1. /\ r \in Run /\ Sound(r) /\ Spends(a, r, spawned) /\ (a = Root => Siblings(r, spawned))
        /\ spawned \in Agents /\ spawned \in Nat /\ over \in Seq(Agents) /\ ToolBudget(a) \in Nat
        /\ r.executions \in Nat
    BY Own, Numbers, RunType DEF Is
  <1>2. /\ r.phase = "reading" /\ r.executions < ToolBudget(a) /\ agent' = [agent EXCEPT ![a] = s]
        /\ spawned' = spawned /\ over' = over
    <2>1. s = [Called(r, sig, <<ResultPart(r, sig, by)>>)
                 EXCEPT !.executions = Charged(r, sig), !.last = Remembered(r, sig)]
      BY ONLY Executed(s, d, r.executions + 1, sig), Is(d, Called(r, sig, rs)), Just(rs, ResultPart(r, sig, by))
         DEF Executed, Charged, Remembered, Is, Just
    <2>2. r = agent[a] /\ by = IF sig = r.last THEN "repeat" ELSE IF sig = Spawn THEN "nested" ELSE "tool"
      BY DEF Is
    <2> QED BY ONLY <2>1, <2>2, ExecuteCall(a, sig) DEF ExecuteCall, WithinBudget, Step
  <1>3. /\ s \in Run /\ Sound(s) /\ Ran(s) \in {Ran(r), Ran(r) + 1} /\ Ran(r) \in Nat
        /\ s.phase = r.phase /\ s.passes = r.passes
        /\ s.executions = r.executions + 1 /\ s.kids = r.kids
    <2>1. by \in {"repeat", "nested", "tool"} /\ (by = "repeat" <=> sig = r.last)
      BY DEF Is
    <2> QED BY ONLY <1>1, <1>2, <2>1, sig \in Sigs \cup {Spawn}, Just(rs, ResultPart(r, sig, by)),
                    Is(d, Called(r, sig, rs)), Executed(s, d, r.executions + 1, sig), ExecutedRun
  <1>4. Spends(a, s, spawned)
    BY <1>1, <1>2, <1>3 DEF Spends
  <1>5. a = Root => Siblings(s, spawned)
    BY <1>1, <1>3 DEF Siblings
  <1> QED BY <1>1, <1>2, <1>3, <1>4, <1>5, RunStep

\* A delegation, refused or not.
LEMMA DelegatedRun ==
    ASSUME NEW r \in Run, Sound(r), r.phase = "reading",
           NEW rs \in Seq(Part), Len(rs) = 0, NEW d, Is(d, Called(r, Spawn, rs)),
           NEW kid \in Kid, kid.id = r.made + 1, NEW s, Joining(s, d, r.executions + 1, kid)
    PROVE  /\ s \in Run /\ Sound(s) /\ Ran(s) = Ran(r) /\ Ran(r) \in Nat
           /\ s.phase = r.phase /\ s.passes = r.passes
           /\ s.executions = r.executions + 1 /\ Len(s.kids) = Len(r.kids) + 1
  <1>1. rs \in Seq(Part) /\ Len(rs) = 0 /\ Spawn \in Sigs \cup {Spawn, NoSig}
    OBVIOUS
  <1>2. d \in Run /\ Grown(d, r, rs)
    BY <1>1, CallGrows
  <1>3. r.executions + 1 \in Nat /\ r.made + 1 \in Nat /\ r.kids \in Seq(Kid) /\ d.kids = r.kids
    <2>1. r.executions \in Nat /\ r.made \in Nat /\ r.kids \in Seq(Kid)
      BY RunType
    <2> QED BY ONLY <1>2, <2>1 DEF Grown
  <1>4. kid \in Kid /\ kid.id = r.made + 1
    OBVIOUS
  <1>5. Append(d.kids, kid) \in Seq(Kid) /\ Len(Append(d.kids, kid)) = Len(r.kids) + 1
    BY ONLY <1>3, <1>4
  <1>6. /\ s \in Run /\ s.phase = d.phase /\ s.passes = d.passes /\ s.executions = r.executions + 1
        /\ Appended(s.kids, d.kids, kid) /\ s.last = d.last /\ s.turn = d.turn /\ s.seen = d.seen
        /\ s.unshown = d.unshown /\ s.made = d.made /\ s.calls = d.calls /\ s.parts = d.parts
        /\ Len(s.kids) = Len(r.kids) + 1
    <2> PICK kids : Is(kids, Append(d.kids, kid))
      BY DEF Is
    <2>1. kids \in Seq(Kid) /\ Len(kids) = Len(r.kids) + 1
      BY ONLY <1>5, Is(kids, Append(d.kids, kid)) DEF Is
    <2>2. s = [d EXCEPT !.executions = r.executions + 1, !.kids = kids]
      BY ONLY <1>2, Is(kids, Append(d.kids, kid)), Joining(s, d, r.executions + 1, kid) DEF Is, Joining, Run
    <2>3. /\ s \in Run /\ s.phase = d.phase /\ s.passes = d.passes /\ s.executions = r.executions + 1
          /\ s.kids = kids /\ s.last = d.last /\ s.turn = d.turn /\ s.seen = d.seen
          /\ s.unshown = d.unshown /\ s.made = d.made /\ s.calls = d.calls /\ s.parts = d.parts
      BY ONLY <1>2, <1>3, <2>1, <2>2 DEF Run
    <2> QED BY ONLY <2>1, <2>3, Is(kids, Append(d.kids, kid)) DEF Is, Appended
  <1>7. PICK x \in Seq(Part) :
          /\ Extends(Whole(d), Whole(r), x) /\ Len(x) = Len(rs) + 1 /\ DOMAIN x = 1 .. Len(x)
          /\ x[1] \in Part /\ x[1].part = "call" /\ x[1].id = r.made + 1
    BY <1>2 DEF Grown
  <1>8. /\ x \in Seq(Part) /\ Extends(Whole(s), Whole(r), x) /\ Len(x) = 1 /\ DOMAIN x = 1 .. 1
        /\ x[1].part = "call" /\ x[1].id = r.made + 1
    <2>1. Extends(Whole(s), Whole(r), x)
      BY ONLY <1>6, <1>7 DEF Whole
    <2> QED BY ONLY <1>1, <1>7, <2>1
  <1>9. /\ s.phase = r.phase /\ s.turn = r.turn /\ s.seen = r.seen /\ s.unshown = r.unshown
        /\ Appended(s.kids, r.kids, kid) /\ s.made = r.made + 1 /\ s.calls = r.calls + 1
        /\ s.last = r.last /\ s.passes = r.passes
    BY ONLY <1>2, <1>6 DEF Grown
  <1>10. Sound(s)
    BY <1>4, <1>6, <1>8, <1>9, DelegatedCall
  <1>11. Results(x, {"tool"}) = {}
    BY ONLY <1>8 DEF Results
  <1>12. Ran(s) = Ran(r) /\ Ran(r) \in Nat
    BY ONLY <1>6, <1>8, <1>11, r \in Run, Counted, WholeType DEF Ran
  <1> QED BY ONLY <1>6, <1>9, <1>10, <1>12

LEMMA DelegationKeeps ==
    ASSUME LoopInv, NEW child \in 1 .. NoAgent, NEW n \in Agents,
           WithinBudget(Root), agent' = [agent EXCEPT ![Root] = Delegation(Spawn, child)],
           spawned' = n, over' = over, n = spawned \/ (n = spawned + 1 /\ Len(agent[Root].kids) < MaxSiblings)
    PROVE  LoopInv'
  <1> PICK r, rs : Is(r, agent[Root]) /\ Is(rs, <<>>)
    BY DEF Is
  <1> PICK d : Is(d, Called(r, Spawn, rs))
    BY DEF Is
  <1> PICK kid : IsKid(kid, r.made + 1, child)
    BY DEF IsKid
  <1> PICK s : Joining(s, d, r.executions + 1, kid)
    BY DEF Joining
  <1>1. /\ Root \in Agents /\ r \in Run /\ Sound(r) /\ Spends(Root, r, spawned) /\ Siblings(r, spawned)
        /\ spawned \in Agents /\ spawned \in Nat /\ over \in Seq(Agents) /\ ToolBudget(Root) \in Nat
        /\ r.executions \in Nat /\ r.passes \in Nat /\ Len(r.kids) \in Nat /\ MaxSiblings \in Nat
    <2>1. Root \in Agents /\ ToolBudget(Root) \in Nat /\ MaxSiblings \in Nat
      BY Numbers
    <2>2. r \in Run /\ Sound(r) /\ Spends(Root, r, spawned) /\ Siblings(r, spawned)
          /\ spawned \in Agents /\ spawned \in Nat /\ over \in Seq(Agents)
      BY <2>1, Own DEF Is
    <2> QED BY ONLY <2>1, <2>2, RunType
  <1>2. /\ r.phase = "reading" /\ r.executions < ToolBudget(Root) /\ agent' = [agent EXCEPT ![Root] = s]
        /\ n = spawned \/ (n = spawned + 1 /\ Len(r.kids) < MaxSiblings)
    <2>1. Is(s, Delegation(Spawn, child))
      <3>1. s = [Called(r, Spawn, <<>>) EXCEPT !.executions = Charged(r, Spawn),
                     !.kids = Append(@, [id |-> r.made + 1, child |-> child])]
        BY ONLY Joining(s, d, r.executions + 1, kid), Is(d, Called(r, Spawn, rs)), Is(rs, <<>>),
                IsKid(kid, r.made + 1, child) DEF Joining, IsKid, Charged, Is
      <3>2. r = agent[Root]
        BY DEF Is
      <3> QED BY ONLY <3>1, <3>2 DEF Delegation, Is
    <2>2. r.phase = "reading" /\ r.executions < ToolBudget(Root)
          /\ (n = spawned \/ (n = spawned + 1 /\ Len(r.kids) < MaxSiblings))
      BY DEF WithinBudget, Is
    <2> QED BY <2>1, <2>2 DEF Is
  <1>3. /\ s \in Run /\ Sound(s) /\ Ran(s) = Ran(r) /\ Ran(r) \in Nat
        /\ s.phase = r.phase /\ s.passes = r.passes
        /\ s.executions = r.executions + 1 /\ Len(s.kids) = Len(r.kids) + 1
    <2>1. rs \in Seq(Part) /\ Len(rs) = 0
      BY ONLY Is(rs, <<>>) DEF Is
    <2>2. r \in Run /\ Sound(r) /\ r.phase = "reading"
      BY ONLY <1>1, <1>2
    <2>3. kid \in Kid /\ kid.id = r.made + 1
      <3>1. r.made + 1 \in Nat
        BY <2>2, RunType
      <3> QED BY ONLY <3>1, child \in 1 .. NoAgent, IsKid(kid, r.made + 1, child) DEF IsKid, Kid
    <2> QED BY ONLY ZenonT(30), <2>1, <2>2, <2>3, Is(d, Called(r, Spawn, rs)),
                    Joining(s, d, r.executions + 1, kid), DelegatedRun
  <1>4. Spends(Root, s, n)
    BY ONLY <1>1, <1>2, <1>3 DEF Spends
  <1>5. Siblings(s, n)
    <2>1. /\ r.passes >= 1 /\ spawned <= MaxSiblings * r.passes
          /\ spawned <= MaxSiblings * (r.passes - 1) + Len(r.kids)
      BY ONLY <1>1, <1>2 DEF Siblings
    <2>2. MaxSiblings * (r.passes - 1) + MaxSiblings = MaxSiblings * r.passes
      BY ONLY <1>1
    <2>3. MaxSiblings * (r.passes - 1) \in Int /\ MaxSiblings * r.passes \in Int
      BY ONLY <1>1
    <2>4. PICK before, all : Is(before, MaxSiblings * (r.passes - 1)) /\ Is(all, MaxSiblings * r.passes)
      BY DEF Is
    <2>5. /\ before \in Int /\ all \in Int /\ before + MaxSiblings = all
          /\ spawned <= all /\ spawned <= before + Len(r.kids)
      BY ONLY <2>1, <2>2, <2>3, <2>4 DEF Is
    <2>6. n <= all /\ n <= before + Len(s.kids)
      BY ONLY <1>1, <1>2, <1>3, <2>5
    <2> QED BY ONLY <1>2, <1>3, <2>1, <2>4, <2>6 DEF Siblings, Is
  <1> QED BY <1>1, <1>2, <1>3, <1>4, <1>5, RunStep

-----------------------------------------------------------------------------
(* Passes.                                                                  *)

Ended(s, turn, spoke, unshown) ==
    s = [Unborn EXCEPT !.phase = "over", !.turn = turn, !.spoke = spoke, !.unshown = unshown]
NextOf(s, e, phase, passes) == s = [e EXCEPT !.phase = phase, !.passes = passes, !.seen = Len(e.turn)]

LEMMA NothingCalled ==
    ASSUME NEW turn, turn = <<>>
    PROVE  /\ Results(turn, {"tool"}) = {} /\ InOrder(turn) /\ NoRepeat(turn)
           /\ AnsweredBut(turn, {}) /\ Closed(turn)
           /\ \A n : IdsUpTo(turn, n) /\ LastIs(turn, n)
  <1>1. DOMAIN turn = {}
    OBVIOUS
  <1>2. \A by : Results(turn, by) = {}
    BY <1>1 DEF Results
  <1>3. InOrder(turn) /\ NoRepeat(turn) /\ \A n : LastIs(turn, n)
    BY <1>2 DEF InOrder, NoRepeat, LastIs
  <1>4. AnsweredBut(turn, {}) /\ Closed(turn) /\ \A n : IdsUpTo(turn, n)
    BY <1>1 DEF AnsweredBut, Closed, IdsUpTo
  <1> QED BY <1>2, <1>3, <1>4

LEMMA UnbornRun ==
    /\ Unborn \in Run
    /\ Unborn.phase = "unborn" /\ Unborn.passes = 0 /\ Unborn.executions = 0 /\ Unborn.made = 0
    /\ Unborn.calls = 0 /\ Unborn.last = NoSig /\ Unborn.seen = 0 /\ Unborn.unshown = FALSE
    /\ Unborn.turn = <<>> /\ Unborn.parts = <<>> /\ Unborn.kids = <<>>
  BY DEF Unborn, Run, Phases

\* The end of a turn.
LEMMA EndedRun ==
    ASSUME NEW turn \in Seq(Part), InOrder(turn), NoRepeat(turn), NEW spoke \in BOOLEAN,
           NEW unshown, unshown = FALSE, NEW s, Ended(s, turn, spoke, unshown)
    PROVE  s \in Run /\ Sound(s) /\ s.phase = "over" /\ Ran(s) = Cardinality(Results(turn, {"tool"}))
  <1>1. /\ s \in Run /\ s.phase = "over" /\ s.turn = turn /\ s.parts = <<>> /\ s.unshown = FALSE
    <2>1. PICK u : Is(u, Unborn)
      BY DEF Is
    <2>2. u \in Run /\ u.parts = <<>>
      BY ONLY <2>1, UnbornRun DEF Is
    <2>3. s = [u EXCEPT !.phase = "over", !.turn = turn, !.spoke = spoke, !.unshown = unshown]
      BY ONLY <2>1, Ended(s, turn, spoke, unshown) DEF Ended, Is
    <2>4. s \in Run /\ s.phase = "over" /\ s.turn = turn /\ s.parts = u.parts /\ s.unshown = unshown
      BY ONLY turn \in Seq(Part), spoke \in BOOLEAN, unshown = FALSE, <2>2, <2>3 DEF Run, Phases
    <2> QED BY ONLY <2>2, <2>4, unshown = FALSE
  <1>2. Whole(s) = turn
    BY <1>1, WholeType
  <1>3. Sound(s)
    BY ONLY <1>1, <1>2, InOrder(turn), NoRepeat(turn) DEF Sound
  <1> QED BY ONLY <1>1, <1>2, <1>3 DEF Ran

\* What an ended pass leaves.
LEMMA ExtendedRun ==
    ASSUME NEW r \in Run, Sound(r), r.phase = "joining", NEW e, Is(e, Extended(r))
    PROVE  /\ e \in Run /\ e.phase = r.phase /\ e.passes = r.passes /\ e.executions = r.executions
           /\ e.made = r.made /\ e.calls = 0 /\ e.err = r.err /\ e.last = r.last
           /\ e.spoke = r.spoke /\ e.seen = r.seen /\ e.unshown = r.unshown
           /\ e.parts = <<>> /\ e.kids = <<>>
           /\ e.turn \in Seq(Part) /\ AnsweredBut(e.turn, {}) /\ IdsUpTo(e.turn, r.made)
           /\ InOrder(e.turn) /\ NoRepeat(e.turn) /\ LastIs(e.turn, r.last)
           /\ r.calls = 0 => e.turn = r.turn
           /\ Cardinality(Results(e.turn, {"tool"})) = Ran(r) /\ Ran(r) \in Nat
  <1>1. PICK t : Is(t, Extended(r).turn)
    BY DEF Is
  <1>2. /\ KidResults(r) \in Seq(Part) /\ Extends(t, Whole(r), KidResults(r)) /\ t \in Seq(Part)
        /\ AnsweredBut(t, {}) /\ IdsUpTo(t, r.made)
        /\ InOrder(t) /\ NoRepeat(t) /\ LastIs(t, r.last)
        /\ r.calls = 0 => t = r.turn
        /\ Results(KidResults(r), {"tool"}) = {}
    BY <1>1, ExtendedTurn DEF Is
  <1>3. PICK turn : Is(turn, r.turn \o r.parts \o KidResults(r))
    BY DEF Is
  <1>4. e = [r EXCEPT !.turn = turn, !.parts = <<>>, !.kids = <<>>, !.calls = 0,
                      !.toolsLast = ToolsLast(r)]
    BY ONLY Is(e, Extended(r)), <1>3 DEF Extended, Is
  <1>5. t = turn
    BY ONLY r \in Run, <1>1, <1>3 DEF Extended, Is, Run
  <1>6. ToolsLast(r) \in Nat
    BY RunType DEF ToolsLast
  <1>7. /\ e \in Run /\ e.phase = r.phase /\ e.passes = r.passes /\ e.executions = r.executions
        /\ e.made = r.made /\ e.calls = 0 /\ e.err = r.err /\ e.last = r.last
        /\ e.spoke = r.spoke /\ e.seen = r.seen /\ e.unshown = r.unshown
        /\ e.parts = <<>> /\ e.kids = <<>> /\ e.turn = t
    <2>1. turn \in Seq(Part)
      BY ONLY <1>2, <1>5
    <2>2. /\ e \in Run /\ e.phase = r.phase /\ e.passes = r.passes /\ e.executions = r.executions
          /\ e.made = r.made /\ e.calls = 0 /\ e.err = r.err /\ e.last = r.last
          /\ e.spoke = r.spoke /\ e.seen = r.seen /\ e.unshown = r.unshown
          /\ e.parts = <<>> /\ e.kids = <<>> /\ e.turn = turn
      <3>1. PICK nil, last : Is(nil, <<>>) /\ Is(last, ToolsLast(r))
        BY DEF Is
      <3>2. nil \in Seq(Part) /\ nil \in Seq(Kid) /\ last \in Nat
        BY ONLY <1>6, <3>1 DEF Is
      <3>3. e = [r EXCEPT !.turn = turn, !.parts = nil, !.kids = nil, !.calls = 0, !.toolsLast = last]
        BY ONLY <1>4, <3>1 DEF Is
      <3>4. /\ e \in Run /\ e.phase = r.phase /\ e.passes = r.passes /\ e.executions = r.executions
            /\ e.made = r.made /\ e.calls = 0 /\ e.err = r.err /\ e.last = r.last
            /\ e.spoke = r.spoke /\ e.seen = r.seen /\ e.unshown = r.unshown
            /\ e.parts = nil /\ e.kids = nil /\ e.turn = turn
        BY ONLY r \in Run, <2>1, <3>2, <3>3 DEF Run
      <3> QED BY ONLY <3>1, <3>4 DEF Is
    <2> QED BY ONLY <1>5, <2>2
  <1>8. Cardinality(Results(t, {"tool"})) = Ran(r) /\ Ran(r) \in Nat
    BY ONLY <1>2, r \in Run, Counted, WholeType DEF Ran
  <1> QED BY ONLY <1>2, <1>7, <1>8

\* The next request: a pass, or the summary pass.
LEMMA NextRun ==
    ASSUME NEW r \in Run, Sound(r), r.phase = "joining", NEW e, Is(e, Extended(r)),
           NEW phase \in {"reading", "summary"}, NEW passes \in Nat, NEW s, NextOf(s, e, phase, passes)
    PROVE  /\ s \in Run /\ Sound(s) /\ Ran(s) = Ran(r) /\ Ran(r) \in Nat /\ s.phase = phase
           /\ s.passes = passes /\ s.executions = r.executions /\ Len(s.kids) = 0
  <1>1. /\ e \in Run /\ e.executions = r.executions /\ e.made = r.made /\ e.calls = 0
        /\ e.last = r.last /\ e.unshown = r.unshown /\ e.parts = <<>> /\ e.kids = <<>>
        /\ e.turn \in Seq(Part) /\ AnsweredBut(e.turn, {}) /\ IdsUpTo(e.turn, r.made)
        /\ InOrder(e.turn) /\ NoRepeat(e.turn) /\ LastIs(e.turn, r.last)
        /\ Cardinality(Results(e.turn, {"tool"})) = Ran(r) /\ Ran(r) \in Nat
    BY ExtendedRun
  <1>2. /\ s \in Run /\ s.phase = phase /\ s.passes = passes /\ s.executions = e.executions
        /\ s.made = e.made /\ s.calls = e.calls /\ s.last = e.last /\ s.unshown = e.unshown
        /\ s.parts = e.parts /\ s.kids = e.kids /\ s.turn = e.turn /\ s.seen = Len(e.turn)
    <2>1. Len(e.turn) \in Nat /\ phase \in Phases
      BY ONLY <1>1, phase \in {"reading", "summary"} DEF Phases
    <2> QED BY ONLY <1>1, <2>1, passes \in Nat, NextOf(s, e, phase, passes) DEF NextOf, Run
  <1>3. Whole(s) = s.turn
    BY <1>1, <1>2, WholeType
  <1>4. RunningIds(s) = {} /\ DOMAIN s.kids = {} /\ DOMAIN s.parts = {}
    BY ONLY <1>1, <1>2 DEF RunningIds
  <1>5. InTurn(s)
    BY ONLY <1>1, <1>2, <1>3, <1>4 DEF InTurn
  <1>6. OpenPass(s) /\ LastPass(s)
    BY ONLY <1>1, <1>2, <1>3, <1>4 DEF OpenPass, LastPass
  <1>7. Closed(s.turn)
    BY ONLY <1>1, <1>2, AnsweredIsClosed
  <1>8. Sound(s)
    <2>1. ~s.unshown
      BY <1>1, <1>2 DEF Sound
    <2> QED BY ONLY <1>1, <1>2, <1>3, <1>5, <1>6, <1>7, <2>1 DEF Sound
  <1>9. Ran(s) = Ran(r)
    BY ONLY <1>1, <1>2, <1>3 DEF Ran
  <1> QED BY ONLY <1>1, <1>2, <1>8, <1>9

LEMMA EndResponseKeeps ==
    ASSUME LoopInv, NEW a \in Agents, NEW failed \in BOOLEAN, EndResponse(a, failed) PROVE LoopInv'
  <1>1. PICK r : Is(r, agent[a])
    BY DEF Is
  <1>2. PICK s : s = [r EXCEPT !.phase = "joining", !.err = failed]
    OBVIOUS
  <1>3. /\ r \in Run /\ Sound(r) /\ Spends(a, r, spawned) /\ (a = Root => Siblings(r, spawned))
        /\ spawned \in Agents /\ over \in Seq(Agents)
    BY <1>1, Own DEF Is
  <1>4. /\ r.phase = "reading" /\ agent' = [agent EXCEPT ![a] = s] /\ spawned' = spawned /\ over' = over
    BY ONLY <1>1, <1>2, EndResponse(a, failed) DEF EndResponse, Step, Is
  <1>5. /\ s \in Run /\ s.phase = "joining" /\ s.turn = r.turn /\ s.parts = r.parts /\ s.kids = r.kids
        /\ s.seen = r.seen /\ s.made = r.made /\ s.last = r.last /\ s.calls = r.calls
        /\ s.unshown = r.unshown /\ s.passes = r.passes /\ s.executions = r.executions
    BY ONLY <1>2, <1>3, failed \in BOOLEAN DEF Run, Phases
  <1>6. Whole(s) = Whole(r) /\ RunningIds(s) = RunningIds(r)
    BY ONLY <1>5 DEF Whole, RunningIds
  <1>7. Sound(s)
    BY ONLY <1>3, <1>4, <1>5, <1>6 DEF Sound, InTurn, OpenPass
  <1>8. Spends(a, s, spawned) /\ (a = Root => Siblings(s, spawned))
    BY ONLY <1>3, <1>4, <1>5, <1>6 DEF Spends, Siblings, Ran
  <1> QED BY <1>3, <1>4, <1>5, <1>7, <1>8, RunStep

\* The first pass of a turn.
LEMMA FirstRun ==
    ASSUME NEW speaks \in BOOLEAN, NEW s, s = [FirstPass EXCEPT !.spoke = speaks] \/ s = FirstPass
    PROVE  /\ s \in Run /\ Sound(s) /\ Ran(s) = 0 /\ s.phase = "reading"
           /\ s.passes = 1 /\ s.executions = 0
  <1>1. PICK u : Is(u, Unborn)
    BY DEF Is
  <1>2. /\ u \in Run /\ u.executions = 0 /\ u.made = 0 /\ u.seen = 0 /\ u.unshown = FALSE
        /\ u.turn = <<>> /\ u.parts = <<>> /\ u.kids = <<>>
    BY ONLY <1>1, UnbornRun DEF Is
  <1>3. PICK f : f = [u EXCEPT !.phase = "reading", !.passes = 1]
    OBVIOUS
  <1>4. s = [f EXCEPT !.spoke = speaks] \/ s = f
    BY <1>1, <1>3 DEF FirstPass, Is
  <1>5. /\ s \in Run /\ s.phase = "reading" /\ s.passes = 1 /\ s.executions = u.executions
        /\ s.made = u.made /\ s.seen = u.seen /\ s.unshown = u.unshown
        /\ s.turn = u.turn /\ s.parts = u.parts /\ s.kids = u.kids
    <2>1. /\ f \in Run /\ f.phase = "reading" /\ f.passes = 1 /\ f.executions = u.executions
          /\ f.made = u.made /\ f.seen = u.seen /\ f.unshown = u.unshown
          /\ f.turn = u.turn /\ f.parts = u.parts /\ f.kids = u.kids
      BY ONLY <1>2, <1>3 DEF Run, Phases
    <2>2. CASE s = [f EXCEPT !.spoke = speaks]
      <3>1. /\ s \in Run /\ s.phase = f.phase /\ s.passes = f.passes /\ s.executions = f.executions
            /\ s.made = f.made /\ s.seen = f.seen /\ s.unshown = f.unshown
            /\ s.turn = f.turn /\ s.parts = f.parts /\ s.kids = f.kids
        BY ONLY <2>1, <2>2, speaks \in BOOLEAN DEF Run
      <3> QED BY ONLY <2>1, <3>1
    <2>3. CASE s = f
      BY ONLY <2>1, <2>3
    <2> QED BY ONLY <1>4, <2>2, <2>3
  <1>6. s.turn = <<>> /\ s.parts = <<>> /\ s.kids = <<>> /\ Whole(s) = s.turn
    BY <1>2, <1>5, WholeType
  <1>7. RunningIds(s) = {} /\ DOMAIN s.kids = {} /\ Len(s.turn) = 0
    BY ONLY <1>6 DEF RunningIds
  <1>8. /\ Results(s.turn, {"tool"}) = {} /\ InOrder(s.turn) /\ NoRepeat(s.turn)
        /\ AnsweredBut(s.turn, {}) /\ Closed(s.turn)
        /\ \A n : IdsUpTo(s.turn, n) /\ LastIs(s.turn, n)
    BY ONLY <1>6, NothingCalled
  <1>9. Sound(s)
    BY ONLY <1>2, <1>5, <1>6, <1>7, <1>8 DEF Sound, InTurn, OpenPass
  <1>10. Ran(s) = 0
    BY ONLY <1>6, <1>8, FS_EmptySet DEF Ran
  <1> QED BY ONLY <1>2, <1>5, <1>9, <1>10

LEMMA StartKeeps ==
    ASSUME LoopInv, NEW k \in Agents \ {Root}, StartSubagent(k) PROVE LoopInv'
  <1>1. PICK speaks \in BOOLEAN : Step(k, [FirstPass EXCEPT !.spoke = speaks])
    BY DEF StartSubagent
  <1>2. PICK s : s = [FirstPass EXCEPT !.spoke = speaks]
    OBVIOUS
  <1>3. agent' = [agent EXCEPT ![k] = s] /\ spawned' = spawned /\ over' = over
    BY ONLY <1>1, <1>2 DEF Step
  <1>4. s \in Run /\ Sound(s) /\ Ran(s) = 0 /\ s.executions = 0
    BY <1>2, FirstRun
  <1>5. spawned \in Agents /\ over \in Seq(Agents) /\ k # Root /\ ToolBudget(k) \in Nat
    BY Own, Numbers
  <1>6. Spends(k, s, spawned)
    BY ONLY <1>4, <1>5 DEF Spends
  <1> QED BY <1>3, <1>4, <1>5, <1>6, RunStep

LEMMA PassKeeps ==
    ASSUME LoopInv, NEW a \in Agents, NEW r, Is(r, agent[a]), r.phase = "joining",
           NEW e, Is(e, Extended(r)), NEW phase, NEW passes, NEW s, NextOf(s, e, phase, passes),
           \/ phase = "reading" /\ passes = r.passes + 1
           \/ phase = "summary" /\ passes = r.passes,
           agent' = [agent EXCEPT ![a] = s], spawned' = spawned, over' = over
    PROVE  LoopInv'
  <1>1. /\ r \in Run /\ Sound(r) /\ Spends(a, r, spawned) /\ (a = Root => Siblings(r, spawned))
        /\ spawned \in Agents /\ spawned \in Nat /\ over \in Seq(Agents) /\ MaxSiblings \in Nat
    BY Own, Numbers DEF Is
  <1>2. r.passes \in Nat /\ passes \in Nat /\ phase \in {"reading", "summary"} /\ passes >= r.passes
    BY <1>1, RunType
  <1>3. /\ s \in Run /\ Sound(s) /\ Ran(s) = Ran(r) /\ Ran(r) \in Nat /\ s.phase = phase
        /\ s.passes = passes /\ s.executions = r.executions /\ Len(s.kids) = 0
    BY <1>1, <1>2, NextRun
  <1>4. Spends(a, s, spawned)
    BY ONLY <1>1, <1>2, <1>3, r.phase = "joining" DEF Spends
  <1>5. ASSUME a = Root PROVE Siblings(s, spawned)
    <2>1. PICK before, now : Is(before, MaxSiblings * r.passes) /\ Is(now, MaxSiblings * passes)
      BY DEF Is
    <2>2. before \in Nat /\ now \in Nat /\ before <= now
      BY ONLY <1>1, <1>2, <2>1 DEF Is
    <2>3. r.passes >= 1 /\ spawned <= before
      BY ONLY <1>1, <1>5, <2>1, r.phase = "joining" DEF Siblings, Is
    <2>4. spawned <= now /\ passes >= 1
      BY ONLY <1>1, <1>2, <2>2, <2>3
    <2>5. ASSUME phase = "reading" PROVE spawned <= MaxSiblings * (passes - 1) + Len(s.kids)
      <3>1. passes - 1 = r.passes
        BY ONLY <1>2, <2>5, \/ phase = "reading" /\ passes = r.passes + 1
                            \/ phase = "summary" /\ passes = r.passes
      <3> QED BY ONLY <1>1, <1>3, <2>1, <2>2, <2>3, <3>1 DEF Is
    <2> QED BY ONLY <1>2, <1>3, <2>1, <2>4, <2>5 DEF Siblings, Is
  <1> QED BY <1>1, <1>3, <1>4, <1>5, RunStep

LEMMA NextPassKeeps == ASSUME LoopInv, NEW a \in Agents, NextPass(a) PROVE LoopInv'
  <1>1. PICK r : Is(r, agent[a])
    BY DEF Is
  <1>2. PICK e : Is(e, Extended(r))
    BY DEF Is
  <1>3. PICK phase, passes : phase = "reading" /\ passes = r.passes + 1
    OBVIOUS
  <1>4. PICK s : NextOf(s, e, phase, passes)
    BY DEF NextOf
  <1>5. e.passes = r.passes /\ r.phase = "joining"
    <2>1. r.phase = "joining"
      BY <1>1 DEF NextPass, PassEnds, Is
    <2>2. r \in Run /\ Sound(r)
      BY <1>1, Own DEF Is
    <2> QED BY <1>2, <2>1, <2>2, ExtendedRun
  <1>6. agent' = [agent EXCEPT ![a] = s] /\ spawned' = spawned /\ over' = over
    <2>1. s = [e EXCEPT !.phase = "reading", !.passes = @ + 1, !.seen = Len(e.turn)]
      BY ONLY <1>3, <1>4, <1>5 DEF NextOf
    <2>2. e = Extended(agent[a])
      BY ONLY <1>1, <1>2 DEF Is
    <2> QED BY ONLY <2>1, <2>2, NextPass(a) DEF NextPass, Step
  <1> QED BY <1>1, <1>2, <1>3, <1>4, <1>5, <1>6, PassKeeps

LEMMA SummaryPassKeeps == ASSUME LoopInv, NEW a \in Agents, SummaryPass(a) PROVE LoopInv'
  <1>1. PICK r : Is(r, agent[a])
    BY DEF Is
  <1>2. PICK e : Is(e, Extended(r))
    BY DEF Is
  <1>3. PICK phase, passes : phase = "summary" /\ passes = r.passes
    OBVIOUS
  <1>4. PICK s : NextOf(s, e, phase, passes)
    BY DEF NextOf
  <1>5. e \in Run /\ e.passes = r.passes /\ r.phase = "joining"
    <2>1. r.phase = "joining"
      BY <1>1 DEF SummaryPass, PassesDone, PassEnds, Is
    <2>2. r \in Run /\ Sound(r)
      BY <1>1, Own DEF Is
    <2> QED BY <1>2, <2>1, <2>2, ExtendedRun
  <1>6. agent' = [agent EXCEPT ![a] = s] /\ spawned' = spawned /\ over' = over
    <2>1. s = [e EXCEPT !.phase = "summary", !.seen = Len(e.turn)]
      BY ONLY <1>3, <1>4, <1>5 DEF NextOf, Run
    <2>2. e = Extended(agent[a])
      BY ONLY <1>1, <1>2 DEF Is
    <2> QED BY ONLY <2>1, <2>2, SummaryPass(a) DEF SummaryPass, Step
  <1> QED BY <1>1, <1>2, <1>3, <1>4, <1>5, <1>6, PassKeeps

LEMMA EndKeeps ==
    ASSUME LoopInv, NEW a \in Agents, NEW turn \in Seq(Part), InOrder(turn), NoRepeat(turn),
           Cardinality(Results(turn, {"tool"})) = Ran(agent[a]),
           NEW spoke \in BOOLEAN, NEW unshown, unshown = FALSE, NEW s, Ended(s, turn, spoke, unshown),
           agent' = [agent EXCEPT ![a] = s], over' = Append(over, a), spawned' = spawned
    PROVE  LoopInv'
  <1>1. PICK r : Is(r, agent[a])
    BY DEF Is
  <1>2. /\ r \in Run /\ Spends(a, r, spawned) /\ (a = Root => Siblings(r, spawned))
        /\ spawned \in Agents /\ over \in Seq(Agents)
    BY <1>1, Own DEF Is
  <1>3. s \in Run /\ Sound(s) /\ s.phase = "over" /\ Ran(s) = Cardinality(Results(turn, {"tool"}))
    BY EndedRun
  <1>4. Ran(s) = Ran(r)
    BY <1>1, <1>3 DEF Is
  <1>5. Spends(a, s, spawned) /\ (a = Root => Siblings(s, spawned))
    BY ONLY <1>2, <1>3, <1>4 DEF Spends, Siblings
  <1>6. over' \in Seq(Agents)
    BY <1>2
  <1> QED BY <1>2, <1>3, <1>5, <1>6, RunStep

\* A turn that ends without a summary ended on a response without calls, or
\* with an error: all of it was shown.
LEMMA EndTurnKeeps == ASSUME LoopInv, NEW a \in Agents, EndTurn(a) PROVE LoopInv'
  <1>1. PICK r : Is(r, agent[a])
    BY DEF Is
  <1>2. PICK e : Is(e, Extended(r))
    BY DEF Is
  <1>3. /\ r \in Run /\ Sound(r) /\ r.phase = "joining"
        /\ r.err \/ r.calls = 0
    <2>1. r \in Run /\ Sound(r)
      BY <1>1, Own DEF Is
    <2>2. PassesDone(a) /\ ~BudgetHit(a, r) /\ r.phase = "joining"
      BY ONLY <1>1, EndTurn(a) DEF EndTurn, PassesDone, PassEnds, Is
    <2>3. Leaves(r) \/ r.passes = ModelBudget(a)
      BY ONLY <1>1, <2>2 DEF PassesDone, Is
    <2>4. r.calls \in Nat
      BY <2>1, RunType
    <2>5. ~r.capHit /\ (r.passes = ModelBudget(a) => ~(ToolsLast(r) > 0))
      BY ONLY <2>2 DEF BudgetHit
    <2>6. ~r.err => ToolsLast(r) = r.calls
      BY DEF ToolsLast
    <2>7. CASE Leaves(r)
      BY ONLY <2>1, <2>2, <2>5, <2>7 DEF Leaves
    <2>8. CASE r.passes = ModelBudget(a)
      BY ONLY <2>1, <2>2, <2>4, <2>5, <2>6, <2>8
    <2> QED BY ONLY <2>1, <2>2, <2>3, <2>7, <2>8
  <1>4. /\ e \in Run /\ e.err = r.err /\ e.seen = r.seen /\ e.spoke = r.spoke
        /\ e.turn \in Seq(Part) /\ InOrder(e.turn) /\ NoRepeat(e.turn)
        /\ r.calls = 0 => e.turn = r.turn
        /\ Cardinality(Results(e.turn, {"tool"})) = Ran(r)
    BY <1>2, <1>3, ExtendedRun
  <1>5. PICK unshown : unshown = (~e.err /\ \E i \in DOMAIN e.turn : i > e.seen /\ e.turn[i].part = "result")
    OBVIOUS
  <1>6. unshown = FALSE
    <2>1. ASSUME ~e.err PROVE ~\E i \in DOMAIN e.turn : i > e.seen
      <3>1. e.turn = r.turn /\ r.seen = Len(r.turn) /\ r.turn \in Seq(Part)
        BY <1>3, <1>4, <2>1, RunType DEF Sound, InTurn
      <3>2. DOMAIN r.turn = 1 .. Len(r.turn) /\ Len(r.turn) \in Nat
        BY ONLY <3>1
      <3> QED BY ONLY <1>4, <3>1, <3>2
    <2> QED BY ONLY <1>5, <2>1
  <1>7. PICK turn, spoke : turn = e.turn /\ spoke = e.spoke
    OBVIOUS
  <1>8. PICK s : Ended(s, turn, spoke, unshown)
    BY DEF Ended
  <1>9. agent' = [agent EXCEPT ![a] = s] /\ over' = Append(over, a) /\ spawned' = spawned
    <2>1. s = [Unborn EXCEPT !.phase = "over", !.turn = e.turn, !.spoke = e.spoke,
                  !.unshown = ~e.err /\ \E i \in DOMAIN e.turn : i > e.seen /\ e.turn[i].part = "result"]
      BY ONLY <1>5, <1>7, <1>8 DEF Ended
    <2>2. e = Extended(agent[a])
      BY ONLY <1>1, <1>2 DEF Is
    <2> QED BY ONLY <2>1, <2>2, EndTurn(a) DEF EndTurn, Ends
  <1>10. spoke \in BOOLEAN /\ Ran(r) = Ran(agent[a])
    BY <1>1, <1>4, <1>7, RunType DEF Is
  <1> QED BY <1>4, <1>6, <1>7, <1>8, <1>9, <1>10, EndKeeps

\* A summary pass answers nothing, so what it adds need not be shown.
LEMMA EndSummaryKeeps ==
    ASSUME LoopInv, NEW a \in Agents, NEW failed \in BOOLEAN, EndSummary(a, failed) PROVE LoopInv'
  <1>1. PICK r : Is(r, agent[a])
    BY DEF Is
  <1>2. r \in Run /\ Sound(r) /\ r.phase = "summary"
    BY <1>1, Own DEF Is, EndSummary
  <1>3. PICK turn : Is(turn, r.turn \o r.parts)
    BY DEF Is
  <1>4. PICK e : e = [r EXCEPT !.turn = turn, !.parts = <<>>, !.calls = 0, !.err = @ \/ failed]
    OBVIOUS
  <1>5. /\ turn = Whole(r) /\ turn \in Seq(Part) /\ InOrder(turn) /\ NoRepeat(turn)
        /\ r.turn \in Seq(Part) /\ r.parts \in Seq(Part) /\ r.seen = Len(r.turn) /\ LastPass(r)
        /\ r.spoke \in BOOLEAN
    BY <1>2, <1>3, RunType, WholeType DEF Sound, InTurn, Whole, Is
  <1>6. e.turn = turn /\ e.seen = r.seen /\ e.spoke = r.spoke
    BY ONLY <1>2, <1>4 DEF Run
  <1>7. PICK unshown : unshown = (~e.err /\ \E i \in DOMAIN e.turn : i > e.seen /\ e.turn[i].part = "result")
    OBVIOUS
  <1>8. unshown = FALSE
    <2>1. ASSUME NEW i \in DOMAIN turn, i > r.seen PROVE turn[i].part # "result"
      <3>1. Extends(turn, r.turn, r.parts)
        BY ONLY <1>3 DEF Extends, Is
      <3>2. /\ DOMAIN r.turn = 1 .. Len(r.turn) /\ Len(r.turn) \in Nat
            /\ i \in DOMAIN r.turn \/ \E j \in DOMAIN r.parts : turn[i] = r.parts[j]
        BY ONLY <1>5, <3>1, i \in DOMAIN turn, Longer
      <3>3. i \notin DOMAIN r.turn
        BY ONLY <1>5, <2>1, <3>2
      <3> QED BY ONLY <1>5, <3>2, <3>3 DEF LastPass
    <2> QED BY ONLY <1>6, <1>7, <2>1
  <1>9. PICK spoke : spoke = r.spoke
    OBVIOUS
  <1>10. PICK s : Ended(s, turn, spoke, unshown)
    BY DEF Ended
  <1>11. agent' = [agent EXCEPT ![a] = s] /\ over' = Append(over, a) /\ spawned' = spawned
    <2>1. s = [Unborn EXCEPT !.phase = "over", !.turn = e.turn, !.spoke = e.spoke,
                  !.unshown = ~e.err /\ \E i \in DOMAIN e.turn : i > e.seen /\ e.turn[i].part = "result"]
      BY ONLY <1>6, <1>7, <1>9, <1>10 DEF Ended
    <2>2. e = [agent[a] EXCEPT !.turn = @ \o agent[a].parts, !.parts = <<>>, !.calls = 0, !.err = @ \/ failed]
      BY ONLY <1>1, <1>3, <1>4 DEF Is
    <2>3. Ends(a, e)
      BY ONLY <2>2, EndSummary(a, failed) DEF EndSummary
    <2> QED BY ONLY <2>1, <2>3 DEF Ends
  <1>12. spoke \in BOOLEAN /\ Cardinality(Results(turn, {"tool"})) = Ran(agent[a])
    BY <1>1, <1>5, <1>9 DEF Is, Ran
  <1> QED BY <1>5, <1>8, <1>10, <1>11, <1>12, EndKeeps

-----------------------------------------------------------------------------
(* The invariant, and what it says.                                         *)

LEMMA LoopInit == Init => LoopInv
  <1> SUFFICES ASSUME Init PROVE LoopInv
    OBVIOUS
  <1>1. Root \in Agents /\ 0 \in Agents /\ MaxAgents \in Nat /\ MaxSiblings \in Nat
    BY Numbers DEF Root
  <1>2. PICK f, u : Is(f, FirstPass) /\ Is(u, Unborn)
    BY DEF Is
  <1>3. f \in Run /\ Sound(f) /\ Ran(f) = 0 /\ f.phase = "reading" /\ f.passes = 1 /\ f.executions = 0
    BY <1>2, FirstRun DEF Is
  <1>4. /\ u \in Run /\ u.phase = "unborn" /\ u.executions = 0 /\ u.seen = 0 /\ u.made = 0
        /\ ~u.unshown /\ u.turn = <<>> /\ u.parts = <<>> /\ u.kids = <<>>
    BY ONLY <1>2, UnbornRun DEF Is
  <1>5. Whole(u) = u.turn
    BY <1>4, WholeType
  <1>6. /\ Results(u.turn, {"tool"}) = {} /\ InOrder(u.turn) /\ NoRepeat(u.turn)
        /\ \A n : IdsUpTo(u.turn, n) /\ LastIs(u.turn, n)
    BY ONLY <1>4, NothingCalled
  <1>7. Sound(u) /\ Ran(u) = 0
    <2>1. DOMAIN u.kids = {} /\ Len(u.turn) = 0
      BY ONLY <1>4
    <2>2. Sound(u)
      BY ONLY <1>4, <1>5, <1>6, <2>1 DEF Sound, InTurn
    <2>3. Ran(u) = 0
      BY ONLY <1>5, <1>6, FS_EmptySet DEF Ran
    <2> QED BY ONLY <2>2, <2>3
  <1>8. /\ agent = [a \in Agents |-> IF a = Root THEN f ELSE u] /\ spawned = 0 /\ over = <<>>
    BY <1>2 DEF Init, Is
  <1>9. TypeOK
    BY ONLY <1>1, <1>3, <1>4, <1>8 DEF TypeOK
  <1>10. ASSUME NEW a \in Agents PROVE Sound(agent[a]) /\ Spends(a, agent[a], spawned)
    <2>1. PICK r : Is(r, agent[a])
      BY DEF Is
    <2>2. r = f \/ r = u
      BY ONLY <1>8, <2>1, a \in Agents DEF Is
    <2>3. Sound(r) /\ Ran(r) = 0 /\ r.executions = 0
      BY ONLY <1>3, <1>4, <1>7, <2>2
    <2>4. ToolBudget(a) \in Nat
      BY Numbers
    <2>5. Spends(a, r, 0)
      BY ONLY <2>3, <2>4 DEF Spends
    <2> QED BY ONLY <1>8, <2>1, <2>3, <2>5 DEF Is
  <1>11. Siblings(agent[Root], spawned)
    <2>1. agent[Root] = f
      BY ONLY <1>1, <1>8
    <2>2. Siblings(f, 0)
      <3>1. Len(f.kids) \in Nat
        BY <1>3, RunType
      <3>2. MaxSiblings * f.passes = MaxSiblings /\ MaxSiblings * (f.passes - 1) = 0
        BY ONLY <1>1, <1>3
      <3>3. 0 <= MaxSiblings * f.passes
        BY ONLY <1>1, <3>2
      <3>4. 0 <= MaxSiblings * (f.passes - 1) + Len(f.kids)
        BY ONLY <3>1, <3>2
      <3>5. f.passes >= 1 /\ f.phase # "unborn"
        BY ONLY <1>3
      <3> QED BY ONLY <3>3, <3>4, <3>5 DEF Siblings
    <2> QED BY ONLY <1>8, <2>1, <2>2
  <1> QED BY <1>9, <1>10, <1>11 DEF LoopInv

LEMMA LoopStutter == ASSUME LoopInv, UNCHANGED vars PROVE LoopInv'
  <1>1. PICK r : r = agent[Root]
    OBVIOUS
  <1>2. Root \in Agents /\ agent \in [Agents -> Run] /\ agent' = agent /\ spawned' = spawned /\ over' = over
    BY Numbers DEF LoopInv, TypeOK, vars
  <1>3. r \in Run /\ Sound(r) /\ Spends(Root, r, spawned) /\ Siblings(r, spawned)
        /\ spawned \in Agents /\ over' \in Seq(Agents)
    BY <1>1, <1>2, Own
  <1>4. agent' = [agent EXCEPT ![Root] = r]
    BY ONLY <1>1, <1>2
  <1> QED BY <1>2, <1>3, <1>4, RunStep

LEMMA LoopStep == ASSUME LoopInv, [Next]_vars PROVE LoopInv'
  <1>1. ASSUME NEW a \in Agents, AgentStep(a) PROVE LoopInv'
    <2>1. CASE ResponseStep(a)
      BY <2>1, RefusalKeeps, ExecutionKeeps, EndResponseKeeps, EndSummaryKeeps DEF ResponseStep
    <2>2. CASE PassStep(a)
      BY <2>2, NextPassKeeps, SummaryPassKeeps, EndTurnKeeps DEF PassStep
    <2> QED BY <1>1, <2>1, <2>2 DEF AgentStep
  <1>2. CASE DelegateRefused
    <2>1. PICK child : Is(child, NoAgent)
      BY DEF Is
    <2>2. child \in 1 .. NoAgent /\ spawned \in Agents
      BY <2>1, Numbers, Own DEF Is
    <2>3. /\ WithinBudget(Root) /\ agent' = [agent EXCEPT ![Root] = Delegation(Spawn, child)]
          /\ spawned' = spawned /\ over' = over
      BY ONLY <1>2, <2>1 DEF DelegateRefused, Step, Is
    <2> QED BY <2>2, <2>3, DelegationKeeps
  <1>3. CASE Delegate
    <2>1. PICK child : child = spawned + 1
      OBVIOUS
    <2>2. spawned \in 0 .. MaxAgents /\ MaxAgents \in Nat /\ NoAgent = MaxAgents + 1 /\ spawned < MaxAgents
      BY <1>3, Numbers, Own DEF Delegate
    <2>3. child \in 1 .. NoAgent /\ child \in Agents
      BY ONLY <2>1, <2>2 DEF Agents
    <2>4. /\ WithinBudget(Root) /\ agent' = [agent EXCEPT ![Root] = Delegation(Spawn, child)]
          /\ spawned' = child /\ over' = over /\ Len(agent[Root].kids) < MaxSiblings
      BY ONLY <1>3, <2>1 DEF Delegate
    <2> QED BY <2>1, <2>3, <2>4, DelegationKeeps
  <1>4. ASSUME NEW k \in Agents \ {Root}, StartSubagent(k) PROVE LoopInv'
    BY <1>4, StartKeeps
  <1>5. CASE UNCHANGED vars
    BY <1>5, LoopStutter
  <1> QED BY <1>1, <1>2, <1>3, <1>4, <1>5 DEF Next, Over

\* Every agent's run is sound and within its budgets, at every step.
THEOREM LoopIsSound == Spec => []LoopInv
  BY LoopInit, LoopStep, PTL DEF Spec

\* Whatever way a call was answered, the request the model is sent next holds
\* one result for it; no call is carried out twice in a row, over refusals,
\* delegations and passes; and delegations are answered in the order the model
\* asked for them (run_turn_at, execute_tool_call, the join of a pass).
THEOREM ConversationsAreSound == Spec => []ConversationIsSound
  <1>1. LoopInv => ConversationIsSound
    <2> SUFFICES ASSUME LoopInv PROVE ConversationIsSound
      OBVIOUS
    <2>1. \A a \in Agents : agent[a] \in Run /\ Sound(agent[a])
      BY Own
    <2>2. RequestsAreClosed
      BY <2>1 DEF RequestsAreClosed, Reading, Sound
    <2>3. NoImmediateRepeat
      <3> SUFFICES ASSUME NEW a \in Agents
                   PROVE  LET whole == Whole(agent[a])
                              given == Results(whole, {"tool", "nested"})
                          IN  \A i, j \in given :
                                  i < j /\ whole[i].sig = whole[j].sig => \E k \in given : i < k /\ k < j
        BY DEF NoImmediateRepeat
      <3>1. NoRepeat(Whole(agent[a]))
        BY <2>1 DEF Sound
      <3> QED BY ONLY <3>1 DEF NoRepeat, GivenBy
    <2>4. DelegationsInOrder
      <3>1. PICK r : Is(r, agent[Root])
        BY DEF Is
      <3>2. r \in Run /\ InOrder(Whole(r))
        BY <2>1, <3>1, Numbers DEF Sound, Is
      <3>3. /\ r.turn \in Seq(Part) /\ r.parts \in Seq(Part) /\ Extends(Whole(r), r.turn, r.parts)
        BY <3>2, RunType DEF Extends, Whole
      <3>4. ASSUME NEW i \in DOMAIN r.turn, NEW j \in DOMAIN r.turn,
                   r.turn[i].part = "result", r.turn[i].by \in Delegated,
                   r.turn[j].part = "result", r.turn[j].by \in Delegated, i < j
            PROVE  r.turn[i].id < r.turn[j].id
        <4>1. i \in Results(r.turn, Delegated) /\ j \in Results(r.turn, Delegated)
          BY <3>4 DEF Results
        <4>2. /\ Whole(r)[i] = r.turn[i] /\ Whole(r)[j] = r.turn[j]
              /\ i \in Results(Whole(r), Delegated) /\ j \in Results(Whole(r), Delegated)
          BY ONLY <3>3, <4>1, i \in DOMAIN r.turn, j \in DOMAIN r.turn, ResultsOfLonger
        <4> QED BY ONLY <3>2, <3>4, <4>2 DEF InOrder
      <3> QED BY <3>1, <3>4 DEF DelegationsInOrder, Is
    <2> QED BY <2>2, <2>3, <2>4 DEF ConversationIsSound
  <1> QED BY <1>1, LoopIsSound, PTL

\* The tools a turn runs and the subagents it starts share its tool budget, a
\* pass starts no more subagents than run_pass takes, and a subagent's tools
\* stay within its own budget.
THEOREM TurnsStayInBudget == Spec => []CostIsBounded
  <1>1. LoopInv => CostIsBounded
    <2> SUFFICES ASSUME LoopInv PROVE CostIsBounded
      OBVIOUS
    <2>1. Root \in Agents /\ Siblings(agent[Root], spawned)
      BY Numbers DEF LoopInv
    <2>2. \A a \in Agents : Spends(a, agent[a], spawned)
      BY Own
    <2>3. Ran(agent[Root]) + spawned <= ToolCalls
      BY <2>1, <2>2 DEF Spends, ToolBudget
    <2>4. agent[Root].phase # "over" => spawned <= MaxSiblings * agent[Root].passes
      BY ONLY <2>1 DEF Siblings
    <2>5. ASSUME NEW k \in Agents \ {Root} PROVE Ran(agent[k]) <= SubToolCalls
      <3>1. Ran(agent[k]) + 0 <= SubToolCalls
        BY <2>2 DEF Spends, ToolBudget
      <3>2. Ran(agent[k]) \in Nat
        <4>1. agent[k] \in Run
          BY Own
        <4>2. Whole(agent[k]) \in Seq(Part)
          BY <4>1, WholeType
        <4> QED BY <4>2, FiniteResults DEF Ran
      <3> QED BY ONLY <3>1, <3>2
    <2> QED BY <2>3, <2>4, <2>5 DEF CostIsBounded
  <1> QED BY <1>1, LoopIsSound, PTL

\* "the model always gets the last word": a turn that ends without an error
\* does not end on a result the model was never shown, whatever the order of
\* caps, budgets and delegations (the summary pass of run_turn_at).
THEOREM TheModelHasTheLastWord == Spec => []ModelHasLastWord
  <1>1. LoopInv => ModelHasLastWord
    BY DEF LoopInv, Sound, ModelHasLastWord
  <1> QED BY <1>1, LoopIsSound, PTL
=============================================================================

------------------------- MODULE SessionLog_proofs -------------------------
(***************************************************************************)
(* Proofs about the session log.  The numbering of the rows is dense for   *)
(* any ids.  That no stored turn is lost, that repairs stick and that the  *)
(* store implements the append-only log needs the stored ids of a session  *)
(* to be distinct, which TuryaSession's counter does not provide across     *)
(* restarts (TLC shows what happens then).                                 *)
(***************************************************************************)
EXTENDS SessionLog, TLAPS

-----------------------------------------------------------------------------
(* Numbering. *)

(* What a connection appends is a turn.                                     *)
AppendsATurn == \A c \in Conns : pc[c] = "appending" => cur[c] \in tried

(* A transaction that nobody outdated still sees the current number.        *)
FreshReads == \A c \in Conns : pc[c] = "appending" /\ fresh[c] => seen[c] = seq

Numbering == TypeOK /\ SequenceIsDense /\ AppendsATurn /\ FreshReads

LEMMA NumberingInit == Init => Numbering
  <1> SUFFICES ASSUME Init PROVE Numbering
    OBVIOUS
  <1>1. DOMAIN rows = {} /\ 1 .. seq = {} /\ \A c \in Conns : DOMAIN view[c] = {}
    BY DEF Init, Empty
  <1>2. TypeOK
    <2>1. DOMAIN rows \subseteq Nat \ {0} /\ \A s \in DOMAIN rows : rows[s] \in Row
      BY <1>1
    <2>2. DOMAIN view = Conns /\ \A c \in Conns :
             DOMAIN view[c] \subseteq Nat /\ \A s \in DOMAIN view[c] : view[c][s] \in Turns
      BY <1>1 DEF Init
    <2>3. /\ seq \in Nat /\ repaired \in BOOLEAN
          /\ tried \subseteq Turns /\ stored \subseteq tried
          /\ mended \subseteq Nat /\ loads \in Nat
      BY DEF Init
    <2>5. life \in 1 .. MaxLives
      BY LogAssumption DEF Init
    <2>4. /\ pc \in [Conns -> {"idle", "appending", "marking", "repairing"}]
          /\ cur \in [Conns -> Turns \cup {None}]
          /\ seen \in [Conns -> Nat] /\ fresh \in [Conns -> BOOLEAN] /\ at \in [Conns -> Nat]
      BY DEF Init
    <2> QED BY <2>1, <2>2, <2>3, <2>4, <2>5 DEF TypeOK
  <1>3. SequenceIsDense /\ AppendsATurn /\ FreshReads
    BY <1>1 DEF Init, SequenceIsDense, AppendsATurn, FreshReads
  <1> QED BY <1>2, <1>3 DEF Numbering

LEMMA NumberingStep == Numbering /\ [Next]_vars => Numbering'
  <1> SUFFICES ASSUME Numbering, [Next]_vars PROVE Numbering'
    OBVIOUS
  <1> USE LogAssumption DEF Numbering, TypeOK, AppendsATurn, FreshReads, SequenceIsDense,
          store, conns, history
  <1>1. ASSUME NEW c \in Conns, NEW t \in Turns, AppendReads(c, t) PROVE Numbering'
    BY <1>1 DEF AppendReads
  <1>2. ASSUME NEW c \in Conns, AppendCommits(c) PROVE Numbering'
    <2>1. /\ seq' = seq + 1 /\ seen[c] = seq /\ cur[c] \in tried
          /\ pc' = [pc EXCEPT ![c] = "idle"]
          /\ fresh' = [d \in Conns |-> IF d = c THEN fresh[d] ELSE FALSE]
      BY <1>2 DEF AppendCommits, WriteGranted, NextSeq, Commit
    <2>2. rows' = [s \in 1 .. seq + 1 |->
                     IF s = seq + 1 THEN [work |-> cur[c], torn |-> cur[c] \in Torn] ELSE rows[s]]
      <3>1. DOMAIN rows \cup {seq + 1} = 1 .. seq + 1
        OBVIOUS
      <3> QED BY <1>2, <2>1, <3>1 DEF AppendCommits, NextSeq
    <2>3. \A s \in DOMAIN rows' : rows'[s] \in Row
      BY <2>1, <2>2 DEF Row
    <2>4. DOMAIN rows' = 1 .. seq'
      BY <2>1, <2>2
    <2>5. UNCHANGED <<repaired, life, cur, seen, view, at, tried, mended, loads>>
          /\ stored' = stored \cup {cur[c]}
      BY <1>2 DEF AppendCommits
    <2>6. TypeOK'
      <3>1. DOMAIN rows' \subseteq Nat \ {0} /\ seq' \in Nat
        BY <2>1, <2>4
      <3>2. /\ pc' \in [Conns -> {"idle", "appending", "marking", "repairing"}]
            /\ fresh' \in [Conns -> BOOLEAN]
        BY <2>1
      <3>3. stored' \subseteq tried'
        BY <2>1, <2>5
      <3> QED BY <2>3, <2>5, <3>1, <3>2, <3>3
    <2>7. AppendsATurn' /\ FreshReads'
      BY <2>1, <2>5
    <2> QED BY <2>4, <2>6, <2>7
  <1>3. ASSUME NEW c \in Conns, AppendFails(c) PROVE Numbering'
    BY <1>3 DEF AppendFails
  <1>4. ASSUME NEW c \in Conns, LoadReads(c) PROVE Numbering'
    BY <1>4 DEF LoadReads, Row
  <1>5. ASSUME NEW c \in Conns, MarkRepaired(c) PROVE Numbering'
    BY <1>5 DEF MarkRepaired, Commit
  <1>6. ASSUME NEW c \in Conns, RepairRow(c) PROVE Numbering'
    <2> DEFINE n == at[c] + 1
    <2>1. n \in DOMAIN view[c] /\ view[c][n] \in Turns
      BY <1>6 DEF RepairRow
    <2>2. DOMAIN rows' = DOMAIN rows /\ \A s \in DOMAIN rows' : rows'[s] \in Row
      <3>1. CASE \E s \in RowsOf(view[c][n]) :
                   rows' = [rows EXCEPT ![s] = [work |-> view[c][n], torn |-> FALSE]]
        BY <2>1, <3>1 DEF RowsOf, Row
      <3>2. CASE rows' = rows
        BY <3>2
      <3> QED BY <1>6, <3>1, <3>2 DEF RepairRow
    <2>3. /\ at' = [at EXCEPT ![c] = n]
          /\ fresh' = fresh \/ fresh' = [d \in Conns |-> IF d = c THEN fresh[d] ELSE FALSE]
          /\ UNCHANGED <<seq, repaired, life, pc, cur, seen, view, history>>
      BY <1>6 DEF RepairRow, Commit
    <2>4. TypeOK'
      BY <2>1, <2>2, <2>3
    <2>5. AppendsATurn' /\ FreshReads' /\ SequenceIsDense'
      BY <2>2, <2>3
    <2> QED BY <2>4, <2>5
  <1>7. ASSUME NEW c \in Conns, LoadReturns(c) PROVE Numbering'
    BY <1>7 DEF LoadReturns
  <1>8. CASE Restart
    BY <1>8 DEF Restart
  <1>10. ASSUME NEW c \in Conns, Crash(c) PROVE Numbering'
    BY <1>10 DEF Crash
  <1>9. CASE Quiescent \/ UNCHANGED vars
    BY <1>9 DEF Quiescent, vars
  <1> QED BY <1>1, <1>2, <1>3, <1>4, <1>5, <1>6, <1>7, <1>8, <1>9, <1>10 DEF Next, ConnStep

(* The state of the store always has its types.                             *)
THEOREM LogTyped == Spec => []TypeOK
  <1>1. Numbering => TypeOK
    BY DEF Numbering
  <1> QED BY NumberingInit, NumberingStep, <1>1, PTL DEF Spec

(* The numbering has no gap, for any number of connections and restarts and *)
(* for any stored ids.                                                      *)
THEOREM DenseLog == Spec => []SequenceIsDense
  <1>1. Numbering => SequenceIsDense
    BY DEF Numbering
  <1> QED BY NumberingInit, NumberingStep, <1>1, PTL DEF Spec

-----------------------------------------------------------------------------
(* Flagging. *)

(* The session's flag is set before the first row is repaired, and stays.   *)
Flagging == RepairsAreFlagged /\ \A c \in Conns : pc[c] = "repairing" => repaired

LEMMA FlaggingStep == Numbering /\ Flagging /\ [Next]_vars => Flagging'
  <1> SUFFICES ASSUME Numbering, Flagging, [Next]_vars PROVE Flagging'
    OBVIOUS
  <1> USE DEF Flagging, RepairsAreFlagged
  <1>0. /\ pc \in [Conns -> {"idle", "appending", "marking", "repairing"}]
    BY DEF Numbering, TypeOK
  <1>1. ASSUME NEW c \in Conns, NEW t \in Turns, AppendReads(c, t) PROVE Flagging'
    BY <1>0, <1>1 DEF AppendReads, store
  <1>2. ASSUME NEW c \in Conns, AppendCommits(c) PROVE Flagging'
    <2>1. /\ rows' = [s \in DOMAIN rows \cup {NextSeq(c)} |->
                        IF s = NextSeq(c) THEN [work |-> cur[c], torn |-> cur[c] \in Torn]
                        ELSE rows[s]]
          /\ pc' = [pc EXCEPT ![c] = "idle"] /\ repaired' = repaired
      BY <1>2 DEF AppendCommits
    <2>2. \A d \in Conns : pc'[d] = "repairing" => repaired'
      BY <1>0, <2>1
    <2>3. ASSUME NEW s \in DOMAIN rows', rows'[s].work \in Torn, ~rows'[s].torn PROVE repaired'
      <3>1. CASE s = NextSeq(c)
        <4>1. rows'[s].work = cur[c] /\ rows'[s].torn = (cur[c] \in Torn)
          BY <2>1, <3>1
        <4> QED BY <2>3, <4>1
      <3>2. CASE s # NextSeq(c)
        BY <2>1, <2>3, <3>2
      <3> QED BY <3>1, <3>2
    <2> QED BY <2>2, <2>3
  <1>3. ASSUME NEW c \in Conns, AppendFails(c) \/ Crash(c) \/ LoadReturns(c) PROVE Flagging'
    BY <1>0, <1>3 DEF AppendFails, Crash, LoadReturns, store
  <1>4. ASSUME NEW c \in Conns, LoadReads(c) PROVE Flagging'
    BY <1>0, <1>4 DEF LoadReads, store
  <1>5. ASSUME NEW c \in Conns, MarkRepaired(c) PROVE Flagging'
    BY <1>5 DEF MarkRepaired
  <1>6. ASSUME NEW c \in Conns, RepairRow(c) PROVE Flagging'
    <2>1. repaired /\ repaired' = repaired
      BY <1>6 DEF RepairRow
    <2> QED BY <2>1
  <1>7. CASE Restart
    BY <1>7 DEF Restart, store
  <1>8. CASE UNCHANGED vars
    BY <1>8 DEF vars, store, conns
  <1> QED BY <1>1, <1>2, <1>3, <1>4, <1>5, <1>6, <1>7, <1>8 DEF Next, ConnStep, Quiescent

(* What the session's row says of its turns is true, wherever a process     *)
(* ends: their number, and that one of them was repaired (append_turn,      *)
(* load_transcript).                                                        *)
THEOREM SoundLog == Spec => []LogIsSound
  <1>1. Init => Numbering /\ Flagging
    BY NumberingInit DEF Init, Empty, Flagging, RepairsAreFlagged
  <1>2. Numbering /\ Flagging /\ [Next]_vars => Numbering' /\ Flagging'
    BY NumberingStep, FlaggingStep
  <1>3. Numbering /\ Flagging => LogIsSound
    BY DEF Numbering, Flagging, LogIsSound
  <1> QED BY <1>1, <1>2, <1>3, PTL DEF Spec

-----------------------------------------------------------------------------
(* What the rows hold, when the stored ids differ. *)

DistinctTids == \A t, u \in Turns : Tid[t] = Tid[u] => t = u

(* Each turn is in one row at most; one that is being appended is in none,  *)
(* and no other connection is appending it.                                 *)
RowsDiffer ==
    /\ \A r, s \in DOMAIN rows : rows[r].work = rows[s].work => r = s
    /\ \A s \in DOMAIN rows : rows[s].work \in tried
    /\ \A c \in Conns : pc[c] = "appending" => \A s \in DOMAIN rows : rows[s].work # cur[c]
    /\ \A c, d \in Conns :
          pc[c] = "appending" /\ pc[d] = "appending" /\ cur[c] = cur[d] => c = d

(* What a load is writing back is what the rows hold.                       *)
ViewsAreRows ==
    \A c \in Conns : pc[c] \in {"marking", "repairing"} =>
        \A s \in DOMAIN view[c] : s \in DOMAIN rows /\ rows[s].work = view[c][s]

(* The rows it has written back so far are closed.                          *)
RepairsProgress ==
    \A c \in Conns :
        /\ pc[c] = "marking" => at[c] = 0
        /\ pc[c] \in {"marking", "repairing"} =>
              \E k \in Nat : DOMAIN view[c] = 1 .. k /\ at[c] <= k
        /\ pc[c] = "repairing" => \A s \in DOMAIN view[c] : s <= at[c] => ~rows[s].torn

Contents == RowsDiffer /\ ViewsAreRows /\ RepairsProgress /\ StoredWorkKept /\ RepairSticks

IInv == Numbering /\ Contents

LEMMA ContentsInit == Init => Contents
  <1> SUFFICES ASSUME Init PROVE Contents
    OBVIOUS
  <1>1. /\ DOMAIN rows = {} /\ stored = {} /\ mended = {}
        /\ \A c \in Conns : pc[c] = "idle"
    BY DEF Init, Empty
  <1> QED BY <1>1 DEF Contents, RowsDiffer, ViewsAreRows, RepairsProgress, StoredWorkKept,
             RepairSticks

(* A step that writes no row and begins no append keeps the contents.       *)
LEMMA AppendKeepsContents ==
  ASSUME IInv, NEW c \in Conns, AppendCommits(c) PROVE Contents'
  <1> USE DEF IInv, Contents, Numbering
  <1>1. /\ seq' = seq + 1 /\ seen[c] = seq /\ seq \in Nat
        /\ pc[c] = "appending" /\ pc' = [pc EXCEPT ![c] = "idle"]
        /\ stored' = stored \cup {cur[c]}
        /\ DOMAIN rows = 1 .. seq /\ pc \in [Conns -> {"idle", "appending", "marking", "repairing"}]
        /\ UNCHANGED <<cur, view, at, tried, mended>>
        /\ cur[c] \in tried
    BY DEF AppendCommits, WriteGranted, NextSeq, TypeOK, SequenceIsDense, AppendsATurn, FreshReads
  <1>2. /\ DOMAIN rows' = 1 .. seq + 1
        /\ rows'[seq + 1].work = cur[c]
        /\ \A s \in DOMAIN rows : rows'[s] = rows[s]
    <2>1. DOMAIN rows \cup {seq + 1} = 1 .. seq + 1 /\ seq + 1 \notin DOMAIN rows
      BY <1>1
    <2> QED BY <1>1, <2>1 DEF AppendCommits, NextSeq
  <1>3. \A s \in DOMAIN rows' : s = seq + 1 \/ s \in DOMAIN rows
    BY <1>1, <1>2
  <1>4. RowsDiffer'
    <2>1. \A d \in Conns : pc'[d] = "appending" =>
              pc[d] = "appending" /\ d # c /\ cur[d] # cur[c]
      BY <1>1 DEF RowsDiffer
    <2>4. \A d \in Conns : pc'[d] = "appending" =>
              \A s \in DOMAIN rows' : rows'[s].work # cur'[d]
      BY <1>1, <1>2, <1>3, <2>1 DEF RowsDiffer
    <2>5. \A d, e \in Conns :
              pc'[d] = "appending" /\ pc'[e] = "appending" /\ cur'[d] = cur'[e] => d = e
      BY <1>1, <2>1 DEF RowsDiffer
    <2>2. \A s \in DOMAIN rows' : rows'[s].work \in tried'
      BY <1>1, <1>2, <1>3 DEF RowsDiffer
    <2>3. \A r, s \in DOMAIN rows' : rows'[r].work = rows'[s].work => r = s
      BY <1>1, <1>2, <1>3 DEF RowsDiffer
    <2> QED BY <2>2, <2>3, <2>4, <2>5 DEF RowsDiffer
  <1>5. ViewsAreRows'
    BY <1>1, <1>2 DEF ViewsAreRows
  <1>6. RepairsProgress'
    BY <1>1, <1>2 DEF RepairsProgress, ViewsAreRows
  <1>7. StoredWorkKept'
    <2>1. seq + 1 \in DOMAIN rows' /\ DOMAIN rows \subseteq DOMAIN rows'
      BY <1>1, <1>2
    <2> QED BY <1>1, <1>2, <2>1 DEF StoredWorkKept
  <1>8. RepairSticks'
    BY <1>1, <1>2 DEF RepairSticks
  <1> QED BY <1>4, <1>5, <1>6, <1>7, <1>8

(* Writing back a row closes it and leaves its turn where it is.            *)
LEMMA RepairKeepsContents ==
  ASSUME DistinctTids, IInv, NEW c \in Conns, RepairRow(c) PROVE Contents'
  <1> USE DEF IInv, Contents, Numbering
  <1> DEFINE n == at[c] + 1
  <1>1. /\ pc[c] = "repairing" /\ n \in DOMAIN view[c] /\ n \in Nat
        /\ at' = [at EXCEPT ![c] = n]
        /\ UNCHANGED <<pc, cur, view, tried, stored, mended>>
    BY DEF RepairRow, history, TypeOK
  <1>2. n \in DOMAIN rows /\ rows[n].work = view[c][n] /\ rows[n].work \in Turns
    BY <1>1 DEF ViewsAreRows, TypeOK, Row
  <1>3. RowsOf(view[c][n]) = {n}
    <2>1. \A s \in DOMAIN rows : rows[s].work \in Turns
      BY DEF TypeOK, Row
    <2> QED BY <1>2, <2>1 DEF RowsOf, DistinctTids, RowsDiffer
  <1>4. rows' = [rows EXCEPT ![n] = [work |-> view[c][n], torn |-> FALSE]]
    BY <1>3 DEF RepairRow
  <1>5. /\ DOMAIN rows' = DOMAIN rows
        /\ \A s \in DOMAIN rows : rows'[s].work = rows[s].work
        /\ \A s \in DOMAIN rows : rows'[s].torn => rows[s].torn
        /\ ~rows'[n].torn
    BY <1>2, <1>4
  <1>6. RowsDiffer' /\ ViewsAreRows' /\ StoredWorkKept' /\ RepairSticks'
    BY <1>1, <1>5 DEF RowsDiffer, ViewsAreRows, StoredWorkKept, RepairSticks
  <1>7. RepairsProgress'
    <2> SUFFICES ASSUME NEW d \in Conns
                 PROVE  /\ pc'[d] = "marking" => at'[d] = 0
                        /\ pc'[d] \in {"marking", "repairing"} =>
                              \E k \in Nat : DOMAIN view'[d] = 1 .. k /\ at'[d] <= k
                        /\ pc'[d] = "repairing" =>
                              \A s \in DOMAIN view'[d] : s <= at'[d] => ~rows'[s].torn
      BY DEF RepairsProgress
    <2>1. CASE d = c
      <3>1. at'[d] = n /\ view'[d] = view[c] /\ pc'[d] = "repairing"
        BY <1>1, <2>1 DEF TypeOK
      <3>2. PICK k \in Nat : DOMAIN view[c] = 1 .. k /\ at[c] <= k
        BY <1>1 DEF RepairsProgress
      <3>3. n <= k
        BY <1>1, <3>2
      <3>4. \A s \in DOMAIN view[c] : s <= n => s = n \/ s <= at[c]
        BY <1>1, <3>2 DEF TypeOK
      <3>5. \A s \in DOMAIN view[c] : s <= n => ~rows'[s].torn
        BY <1>1, <1>5, <3>4 DEF RepairsProgress, ViewsAreRows
      <3> QED BY <3>1, <3>2, <3>3, <3>5
    <2>2. CASE d # c
      BY ZenonT(30), <1>1, <1>5, <2>2 DEF RepairsProgress, ViewsAreRows, TypeOK
    <2> QED BY <2>1, <2>2
  <1> QED BY <1>6, <1>7

LEMMA ContentsStep == DistinctTids /\ IInv /\ [Next]_vars => Contents'
  <1> SUFFICES ASSUME DistinctTids, IInv, [Next]_vars PROVE Contents'
    OBVIOUS
  <1> USE DEF IInv, Contents, Numbering, TypeOK, store, conns, history
  <1>1. ASSUME NEW c \in Conns, NEW t \in Turns, AppendReads(c, t) PROVE Contents'
    <2>1. /\ UNCHANGED <<rows, view, at, stored, mended>>
          /\ pc' = [pc EXCEPT ![c] = "appending"] /\ cur' = [cur EXCEPT ![c] = t]
          /\ tried' = tried \cup {t} /\ t \notin tried
      BY <1>1 DEF AppendReads
    <2>2. \A d \in Conns : pc'[d] = "appending" =>
              \/ d = c /\ cur'[d] = t
              \/ d # c /\ pc[d] = "appending" /\ cur'[d] = cur[d] /\ cur[d] \in tried
      BY <2>1 DEF AppendsATurn
    <2>3. \A d \in Conns : pc'[d] = "appending" => \A s \in DOMAIN rows' : rows'[s].work # cur'[d]
      BY <2>1, <2>2 DEF RowsDiffer
    <2>4. \A d, e \in Conns :
              pc'[d] = "appending" /\ pc'[e] = "appending" /\ cur'[d] = cur'[e] => d = e
      BY <2>1, <2>2 DEF RowsDiffer
    <2>5. RowsDiffer'
      BY <2>1, <2>3, <2>4 DEF RowsDiffer
    <2>6. ViewsAreRows' /\ StoredWorkKept' /\ RepairSticks'
      BY <2>1 DEF ViewsAreRows, StoredWorkKept, RepairSticks
    <2>7. RepairsProgress'
      BY <2>1 DEF RepairsProgress
    <2> QED BY <2>5, <2>6, <2>7
  <1>2. ASSUME NEW c \in Conns, AppendCommits(c) PROVE Contents'
    BY <1>2, AppendKeepsContents
  <1>3. ASSUME NEW c \in Conns, AppendFails(c) PROVE Contents'
    BY <1>3 DEF AppendFails, RowsDiffer, ViewsAreRows, RepairsProgress, StoredWorkKept, RepairSticks
  <1>4. ASSUME NEW c \in Conns, LoadReads(c) PROVE Contents'
    <2>1. UNCHANGED <<store, cur, tried, stored>> /\ DOMAIN rows = 1 .. seq
      BY <1>4 DEF LoadReads, SequenceIsDense
    <2>2. /\ view' = [view EXCEPT ![c] = [s \in DOMAIN rows |-> rows[s].work]]
          /\ at' = [at EXCEPT ![c] = 0]
          /\ pc' = [pc EXCEPT ![c] = "marking"] \/ pc' = [pc EXCEPT ![c] = "idle"]
          /\ mended' = mended \/ (mended' = mended \cup DOMAIN rows
                                  /\ \A s \in DOMAIN rows : ~rows[s].torn)
      BY <1>4 DEF LoadReads
    <2>3. RowsDiffer' /\ StoredWorkKept' /\ RepairSticks'
      BY ZenonT(30), <2>1, <2>2 DEF RowsDiffer, StoredWorkKept, RepairSticks
    <2>4. ViewsAreRows'
      BY <2>1, <2>2 DEF ViewsAreRows
    <2>5. RepairsProgress'
      BY <2>1, <2>2 DEF RepairsProgress
    <2> QED BY <2>3, <2>4, <2>5
  <1>5. ASSUME NEW c \in Conns, MarkRepaired(c) PROVE Contents'
    <2>1. /\ UNCHANGED <<rows, cur, view, at, tried, stored, mended>>
          /\ pc[c] = "marking" /\ pc' = [pc EXCEPT ![c] = "repairing"]
      BY <1>5 DEF MarkRepaired
    <2>2. RowsDiffer' /\ StoredWorkKept' /\ RepairSticks' /\ ViewsAreRows'
      BY <2>1 DEF RowsDiffer, StoredWorkKept, RepairSticks, ViewsAreRows
    <2>3. RepairsProgress'
      BY <2>1 DEF RepairsProgress
    <2> QED BY <2>2, <2>3
  <1>6. ASSUME NEW c \in Conns, RepairRow(c) PROVE Contents'
    BY <1>6, RepairKeepsContents
  <1>7. ASSUME NEW c \in Conns, LoadReturns(c) PROVE Contents'
    <2>1. PICK k \in Nat : DOMAIN view[c] = 1 .. k /\ at[c] <= k
      BY <1>7 DEF LoadReturns, RepairsProgress
    <2>2. at[c] = k
      BY <1>7, <2>1 DEF LoadReturns
    <2>3. \A s \in DOMAIN view[c] : s \in DOMAIN rows /\ ~rows[s].torn
      BY <1>7, <2>1, <2>2 DEF LoadReturns, RepairsProgress, ViewsAreRows
    <2>4. /\ UNCHANGED <<rows, cur, view, at, tried, stored>>
          /\ pc' = [pc EXCEPT ![c] = "idle"] /\ mended' = mended \cup DOMAIN view[c]
      BY <1>7 DEF LoadReturns
    <2>5. RowsDiffer' /\ ViewsAreRows' /\ RepairsProgress'
      BY <2>4 DEF RowsDiffer, ViewsAreRows, RepairsProgress
    <2>6. StoredWorkKept' /\ RepairSticks'
      BY <2>3, <2>4 DEF StoredWorkKept, RepairSticks
    <2> QED BY <2>5, <2>6
  <1>10. ASSUME NEW c \in Conns, Crash(c) PROVE Contents'
    <2>1. /\ UNCHANGED <<rows, cur, view, at, tried, stored, mended>>
          /\ pc' = [pc EXCEPT ![c] = "idle"]
      BY <1>10 DEF Crash
    <2>2. RowsDiffer' /\ ViewsAreRows'
      BY <2>1 DEF RowsDiffer, ViewsAreRows
    <2>3. RepairsProgress'
      BY <2>1 DEF RepairsProgress
    <2>4. StoredWorkKept' /\ RepairSticks'
      BY <2>1 DEF StoredWorkKept, RepairSticks
    <2> QED BY <2>2, <2>3, <2>4
  <1>8. CASE Restart
    BY <1>8 DEF Restart, RowsDiffer, ViewsAreRows, RepairsProgress, StoredWorkKept, RepairSticks
  <1>9. CASE Quiescent \/ UNCHANGED vars
    BY <1>9 DEF Quiescent, vars, RowsDiffer, ViewsAreRows, RepairsProgress, StoredWorkKept,
                RepairSticks
  <1> QED BY <1>1, <1>2, <1>3, <1>4, <1>5, <1>6, <1>7, <1>8, <1>9, <1>10 DEF Next, ConnStep

LEMMA LogInvariant == ASSUME DistinctTids PROVE Spec => []IInv
  <1>1. Init => IInv
    BY NumberingInit, ContentsInit DEF IInv
  <1>2. IInv /\ [Next]_vars => IInv'
    BY NumberingStep, ContentsStep DEF IInv
  <1> QED BY <1>1, <1>2, PTL DEF Spec

(* When the stored ids of a session differ, no restart and no repair on any *)
(* connection loses a turn that was stored.                                 *)
THEOREM NoStoredTurnIsLost == ASSUME DistinctTids PROVE Spec => []StoredWorkKept
  <1>1. IInv => StoredWorkKept
    BY DEF IInv, Contents
  <1> QED BY LogInvariant, <1>1, PTL

(* Then a finished repair also lasts.                                       *)
THEOREM FinishedRepairsLast == ASSUME DistinctTids PROVE Spec => []RepairSticks
  <1>1. IInv => RepairSticks
    BY DEF IInv, Contents
  <1> QED BY LogInvariant, <1>1, PTL

-----------------------------------------------------------------------------
(* Refinement. *)

LEMMA InitImplementsLog == Init => Log!Init
  BY DEF Init, Log!Init, Empty

(* An append that commits adds its turn; every other step stutters.         *)
LEMMA StepImplementsLog ==
  ASSUME DistinctTids, IInv, IInv', [Next]_vars
  PROVE  [Log!Next]_<<seq, [s \in DOMAIN rows |-> rows[s].work]>>
  <1> DEFINE works == [s \in DOMAIN rows |-> rows[s].work]
  <1> USE DEF IInv, Contents, Numbering, store, conns, history
  <1>1. ASSUME NEW c \in Conns, AppendCommits(c) PROVE Log!Next
    <2>1. /\ seq' = seq + 1 /\ DOMAIN rows = 1 .. seq /\ seq \in Nat
          /\ pc[c] = "appending" /\ cur[c] \in Turns
          /\ rows' = [s \in DOMAIN rows \cup {seq + 1} |->
                        IF s = seq + 1 THEN [work |-> cur[c], torn |-> cur[c] \in Torn]
                                       ELSE rows[s]]
      BY <1>1 DEF AppendCommits, WriteGranted, NextSeq, TypeOK, SequenceIsDense, AppendsATurn,
                  FreshReads
    <2>2. \A s \in 1 .. seq : works[s] # cur[c]
      BY <2>1 DEF RowsDiffer
    <2>3. works' = [s \in 1 .. seq + 1 |-> IF s = seq + 1 THEN cur[c] ELSE works[s]]
      <3>1. DOMAIN rows' = 1 .. seq + 1
        BY <2>1
      <3>2. \A s \in 1 .. seq + 1 : rows'[s].work = IF s = seq + 1 THEN cur[c] ELSE rows[s].work
        BY <2>1
      <3> QED BY <2>1, <3>1, <3>2
    <2> QED BY <2>1, <2>2, <2>3 DEF Log!Next, Log!Add
  <1>2. ASSUME NEW c \in Conns, RepairRow(c) PROVE seq' = seq /\ works' = works
    <2>1. /\ DOMAIN rows' = DOMAIN rows /\ seq' = seq
          /\ \A s \in DOMAIN rows : rows'[s].work = rows[s].work
      <3> DEFINE n == at[c] + 1
      <3>1. pc[c] = "repairing" /\ n \in DOMAIN view[c] /\ seq' = seq
        BY <1>2 DEF RepairRow
      <3>2. n \in DOMAIN rows /\ rows[n].work = view[c][n]
        BY <3>1 DEF ViewsAreRows
      <3>3. \A s \in RowsOf(view[c][n]) : s = n
        BY <3>2 DEF RowsOf, DistinctTids, RowsDiffer, TypeOK, Row
      <3>4. rows' = rows \/ rows' = [rows EXCEPT ![n] = [work |-> view[c][n], torn |-> FALSE]]
        BY <1>2, <3>3 DEF RepairRow
      <3> QED BY <3>1, <3>2, <3>4
    <2> QED BY <2>1
  <1>3. CASE UNCHANGED <<seq, rows>>
    BY <1>3
  <1>4. \/ \E c \in Conns : AppendCommits(c) \/ RepairRow(c)
        \/ UNCHANGED <<seq, rows>>
    BY DEF Next, ConnStep, AppendReads, AppendFails, LoadReads, MarkRepaired, LoadReturns,
           Crash, Restart, Quiescent, vars
  <1> QED BY <1>1, <1>2, <1>3, <1>4

(* With distinct ids the store implements the append-only log.              *)
THEOREM StoreImplementsLog == ASSUME DistinctTids PROVE Spec => ImplementsLog
  <1>1. IInv /\ IInv' /\ [Next]_vars
        => [Log!Next]_<<seq, [s \in DOMAIN rows |-> rows[s].work]>>
    BY StepImplementsLog
  <1> QED BY InitImplementsLog, <1>1, LogInvariant, PTL DEF Spec, ImplementsLog, Log!LogSpec

=============================================================================

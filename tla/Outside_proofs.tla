--------------------------- MODULE Outside_proofs ---------------------------
(***************************************************************************)
(* Proofs about what turya exchanges with the processes of its tools and   *)
(* with a model's server, for any number of pipes, callers, requests,      *)
(* queries, lines and passes: a shell command's output is whole, an MCP    *)
(* call gets its own answer, a language server outlives its query only by  *)
(* the outer deadline, the engine gets what a streamed answer says however *)
(* it is cut, and a model is told of its calls what happened.  Each is an  *)
(* invariant of one component that the steps of the others leave alone.    *)
(***************************************************************************)
EXTENDS MCOutside, Folding, FiniteSetTheorems, SequenceTheorems, TLAPS

-----------------------------------------------------------------------------
(* A shell command.                                                         *)

(* What was printed to a pipe has been read or is in it.                    *)
NothingSpilled ==
    /\ {printed, pipe, got} \subseteq [Pipes -> Nat] /\ kids \in Nat
    /\ \A p \in Pipes : printed[p] = got[p] + pipe[p]

(* Before it starts nobody can print, and a reader that has ended saw its   *)
(* pipe empty when nobody could any more.                                   *)
Unstarted == phase = "called" => ~shell /\ kids = 0 /\ open = Pipes /\ \A p \in Pipes : pipe[p] = 0

EndedReaders ==
    \A p \in Pipes \ open : phase # "called" /\ ~shell /\ kids = 0 /\ pipe[p] = 0

(* An output that was handed over is the beginning of what the readers had  *)
(* when both pipes had ended.                                               *)
HandedLast ==
    phase = "returned" /\ out \in {"exited", "killed"} => open = {} /\ handed = Clip(got)

(* How the command ended is known once its output is collected, not before. *)
EndKnown == phase \in {"called", "waiting"} => out = "none"

BashInv == NothingSpilled /\ Unstarted /\ EndedReaders /\ HandedLast /\ EndKnown

(* What clip_output keeps: all of a text that is not too long, and of a     *)
(* longer one the beginning, standard output first.                         *)
LEMMA ClipKeeps ==
    ASSUME NEW text \in [Pipes -> Nat]
    PROVE  IF Clip(text).cut
           THEN /\ text[Stdout] + text[Stderr] > Longest
                /\ Clip(text).kept[Stdout] + Clip(text).kept[Stderr] = Longest
                /\ \A p \in Pipes : Clip(text).kept[p] <= text[p]
                /\ Clip(text).kept[Stderr] > 0 => Clip(text).kept[Stdout] = text[Stdout]
           ELSE Clip(text).kept = text
  <1> DEFINE first == IF text[Stdout] < Longest THEN text[Stdout] ELSE Longest
             rest == Longest - first
             kept == [p \in Pipes |-> IF p = Stdout THEN first
                                      ELSE IF text[p] < rest THEN text[p] ELSE rest]
             cut == text[Stdout] + text[Stderr] > Longest
  <1>1. Clip(text).kept = kept /\ Clip(text).cut = cut
    BY DEF Clip
  <1>2. Longest \in Nat /\ Stdout # Stderr /\ text[Stdout] \in Nat /\ text[Stderr] \in Nat
    BY BashAssumption DEF Pipes
  <1>3. /\ kept[Stdout] = first
        /\ kept[Stderr] = IF text[Stderr] < rest THEN text[Stderr] ELSE rest
    BY <1>2 DEF Pipes
  <1>4. ASSUME cut
        PROVE  /\ kept[Stdout] + kept[Stderr] = Longest
               /\ kept[Stdout] <= text[Stdout] /\ kept[Stderr] <= text[Stderr]
               /\ kept[Stderr] > 0 => kept[Stdout] = text[Stdout]
    <2>1. /\ first + (IF text[Stderr] < rest THEN text[Stderr] ELSE rest) = Longest
          /\ first <= text[Stdout]
          /\ (IF text[Stderr] < rest THEN text[Stderr] ELSE rest) <= text[Stderr]
          /\ (IF text[Stderr] < rest THEN text[Stderr] ELSE rest) > 0 => first = text[Stdout]
      BY <1>2, <1>4
    <2> QED BY <1>3, <2>1
  <1>5. ASSUME ~cut PROVE kept = text
    <2>1. first = text[Stdout] /\ (IF text[Stderr] < rest THEN text[Stderr] ELSE rest) = text[Stderr]
      BY <1>2, <1>5
    <2>2. kept \in [Pipes -> {first, IF text[Stderr] < rest THEN text[Stderr] ELSE rest}]
      BY <1>2 DEF Pipes
    <2>3. \A p \in Pipes : kept[p] = text[p]
      BY <1>3, <2>1 DEF Pipes
    <2> HIDE DEF kept
    <2> QED BY <2>2, <2>3
  <1> HIDE DEF kept, first, rest
  <1>6. CASE cut
    <2>1. \A p \in Pipes : kept[p] <= text[p]
      BY <1>4, <1>6 DEF Pipes
    <2>2. text[Stdout] + text[Stderr] > Longest
      BY <1>6
    <2> HIDE DEF cut
    <2> QED BY <1>1, <1>4, <1>6, <2>1, <2>2
  <1>7. CASE ~cut
    <2> HIDE DEF cut
    <2> QED BY <1>1, <1>5, <1>7
  <1> QED BY <1>6, <1>7

LEMMA BashInit == Init => BashInv
  BY DEF Init, BashInv, NothingSpilled, Unstarted, EndedReaders, HandedLast, EndKnown

LEMMA BashStep == BashInv /\ [Next]_vars => BashInv'
  <1> SUFFICES ASSUME BashInv, [Next]_vars PROVE BashInv'
    OBVIOUS
  <1> USE DEF BashInv, NothingSpilled, Unstarted, EndedReaders, HandedLast, EndKnown
  <1>1. CASE UNCHANGED vars
    BY <1>1 DEF vars
  <1>2. ASSUME NEW p \in Pipes, Prints(p) PROVE BashInv'
    <2>1. p \in open /\ phase # "called"
      BY <1>2 DEF Prints
    <2>2. ~(phase = "returned" /\ out \in {"exited", "killed"})
      BY <2>1
    <2> QED BY <1>2, <2>1, <2>2 DEF Prints
  <1>3. ASSUME NEW p \in Pipes, Drain(p) PROVE BashInv'
    BY <1>3 DEF Drain, Drains
  <1>4. ASSUME NEW p \in Pipes, ReaderEnds(p) PROVE BashInv'
    BY <1>4 DEF ReaderEnds, Closed
  <1>5. CASE Spawn \/ SpawnFails
    BY <1>5 DEF Spawn, SpawnFails
  <1>6. CASE Fork \/ KidEnds \/ ShellEnds
    BY <1>6 DEF Fork, KidEnds, ShellEnds
  <1>7. CASE Waited \/ Kill \/ TurnKilled
    BY <1>7 DEF Waited, Kill, Deadline, TurnKilled
  <1>9. CASE WaitFails
    <2>1. ~shell => ~shell'
      BY <1>9 DEF WaitFails
    <2> QED BY <1>9, <2>1 DEF WaitFails
  <1>10. CASE Return
    BY <1>10 DEF Return
  <1>8. CASE Settled
    BY <1>1, <1>8 DEF Settled
  <1> QED BY <1>1, <1>2, <1>3, <1>4, <1>5, <1>6, <1>7, <1>8, <1>9, <1>10 DEF Next

(* Whatever processes print, start and end, and however late the deadline   *)
(* comes, the output of a command that exited or was killed is everything   *)
(* that was ever printed, or says that it is the beginning of more than a   *)
(* result may hold and is exactly that (execute, collect_pipes and          *)
(* clip_output).                                                            *)
THEOREM ResultsHoldAllOutput == MCSpec => []OutputIsWhole
  <1>1. MCInit => BashInv
    BY BashInit DEF MCInit
  <1>2. BashInv /\ [MCNext]_outsideVars => BashInv'
    BY BashStep DEF MCNext, outsideVars
  <1>3. BashInv => OutputIsWhole
    <2> SUFFICES ASSUME BashInv, phase = "returned", out \in {"exited", "killed"}
                 PROVE  IF handed.cut
                        THEN /\ printed[Stdout] + printed[Stderr] > Longest
                             /\ handed.kept[Stdout] + handed.kept[Stderr] = Longest
                             /\ \A p \in Pipes : handed.kept[p] <= printed[p]
                             /\ handed.kept[Stderr] > 0 => handed.kept[Stdout] = printed[Stdout]
                        ELSE handed.kept = printed
      BY DEF OutputIsWhole
    <2>1. open = {} /\ handed = Clip(got) /\ got \in [Pipes -> Nat] /\ printed \in [Pipes -> Nat]
      BY DEF BashInv, HandedLast, NothingSpilled
    <2>2. \A p \in Pipes : printed[p] = got[p]
      BY <2>1 DEF BashInv, NothingSpilled, EndedReaders
    <2>3. printed = got
      BY <2>1, <2>2
    <2> QED BY <2>1, <2>3, ClipKeeps
  <1> QED BY <1>1, <1>2, <1>3, PTL DEF MCSpec

-----------------------------------------------------------------------------
(* An MCP server.                                                           *)

Requests == [pc : {"idle", "numbered", "waiting", "reading", "over"}, id : Nat,
             out : Mcp!Outcomes, from : Nat, missed : BOOLEAN]

McpTyped == nextId \in Nat /\ req \in [Mcp!Clients -> Requests]

(* A request under way has a number that was given out already.             *)
Numbered == \A c \in Mcp!Clients : req[c].pc # "idle" => req[c].id < nextId

McpInv == McpTyped /\ Numbered /\ AnswersAreOwn

LEMMA McpInit == Mcp!Init => McpInv
  BY DEF Mcp!Init, Mcp!Quiet, Mcp!Outcomes, McpInv, McpTyped, Numbered, Requests,
         AnswersAreOwn, Mcp!AnswersAreOwn

(* A client that moves on keeps its number, and an answer it takes is its   *)
(* own; so does one that returns.                                           *)
LEMMA Advance ==
    ASSUME McpInv, NEW c \in Mcp!Clients, NEW r \in Requests,
           req' = [req EXCEPT ![c] = r], nextId' = nextId,
           r.pc = "idle" \/ (req[c].pc # "idle" /\ r.id = req[c].id),
           r.out \in {"result", "error"} => r.from = r.id
    PROVE  McpInv'
  <1>1. McpTyped'
    BY DEF McpInv, McpTyped
  <1>2. \A d \in Mcp!Clients : req'[d] = IF d = c THEN r ELSE req[d]
    BY DEF McpInv, McpTyped
  <1>3. Numbered'
    <2> SUFFICES ASSUME NEW d \in Mcp!Clients, req'[d].pc # "idle"
                 PROVE  req'[d].id < nextId
      BY DEF Numbered
    <2> QED BY <1>2 DEF McpInv, Numbered
  <1>4. AnswersAreOwn'
    BY <1>2 DEF McpInv, AnswersAreOwn, Mcp!AnswersAreOwn
  <1> QED BY <1>1, <1>3, <1>4 DEF McpInv

LEMMA McpStep == McpInv /\ [Mcp!Next]_mcpVars => McpInv'
  <1> SUFFICES ASSUME McpInv, [Mcp!Next]_mcpVars PROVE McpInv'
    OBVIOUS
  <1>0. \A c \in Mcp!Clients : req[c] \in Requests
    BY DEF McpInv, McpTyped
  <1>8. Mcp!Quiet \in Requests /\ Mcp!Quiet.pc = "idle" /\ Mcp!Quiet.out = "none"
    BY DEF Mcp!Quiet, Requests, Mcp!Outcomes
  <1>1. CASE UNCHANGED mcpVars
    BY <1>1 DEF mcpVars, McpInv, McpTyped, Numbered, AnswersAreOwn, Mcp!AnswersAreOwn
  <1>2. ASSUME NEW c \in Mcp!Clients, Mcp!TakeId(c) PROVE McpInv'
    <2> DEFINE r == [Mcp!Quiet EXCEPT !.pc = "numbered", !.id = nextId]
    <2>1. req' = [req EXCEPT ![c] = r] /\ nextId' = nextId + 1
      BY <1>2 DEF Mcp!TakeId, Mcp!NextNumber
    <2>0. nextId \in Nat
      BY DEF McpInv, McpTyped
    <2>2. r \in Requests /\ r.id = nextId /\ r.out = "none"
      BY <1>8, <2>0 DEF Requests
    <2> HIDE DEF r
    <2>3. \A d \in Mcp!Clients : req'[d] = IF d = c THEN r ELSE req[d]
      BY <2>1 DEF McpInv, McpTyped
    <2>4. McpTyped'
      BY <2>1, <2>2 DEF McpInv, McpTyped
    <2>5. Numbered'
      <3> SUFFICES ASSUME NEW d \in Mcp!Clients, req'[d].pc # "idle"
                   PROVE  req'[d].id < nextId'
        BY DEF Numbered
      <3>1. CASE d = c
        BY <2>0, <2>1, <2>2, <2>3, <3>1
      <3>2. CASE d # c
        <4>1. req[d].id \in Nat /\ req[d].id < nextId
          BY <1>0, <2>3, <3>2 DEF McpInv, Numbered, Requests
        <4> QED BY <2>0, <2>1, <2>3, <3>2, <4>1
      <3> QED BY <3>1, <3>2
    <2>6. AnswersAreOwn'
      <3>1. \A d \in Mcp!Clients \ {c} :
                req'[d].pc # "idle" => req'[d].id \in Nat /\ req'[d].id < nextId
        BY <1>0, <2>3 DEF McpInv, Numbered, Requests
      <3>2. \A d \in Mcp!Clients \ {c} : req'[d].pc # "idle" => req'[d].id # r.id
        BY <2>2, <3>1
      <3> QED BY <2>2, <2>3, <3>2 DEF McpInv, AnswersAreOwn, Mcp!AnswersAreOwn
    <2> QED BY <2>4, <2>5, <2>6 DEF McpInv
  <1>3. ASSUME NEW c \in Mcp!Clients, Mcp!Write(c) PROVE McpInv'
    <2>1. CASE server
      <3> DEFINE r == [req[c] EXCEPT !.pc = "waiting"]
      <3>1. r \in Requests /\ req' = [req EXCEPT ![c] = r] /\ req[c].pc = "numbered"
        BY <1>0, <1>3, <2>1 DEF Mcp!Write, Requests
      <3>2. r.id = req[c].id /\ (r.out \in {"result", "error"} => r.from = r.id)
        BY <1>0 DEF Requests, McpInv, AnswersAreOwn, Mcp!AnswersAreOwn
      <3>3. nextId' = nextId
        BY <1>3 DEF Mcp!Write
      <3> HIDE DEF r
      <3> QED BY <3>1, <3>2, <3>3, Advance
    <2>2. CASE ~server
      <3> DEFINE r == [req[c] EXCEPT !.pc = "over", !.out = "unwritten"]
      <3>1. r \in Requests /\ req' = [req EXCEPT ![c] = r] /\ req[c].pc = "numbered"
        BY <1>0, <1>3, <2>2 DEF Mcp!Write, Requests, Mcp!Outcomes
      <3>2. r.id = req[c].id /\ r.out = "unwritten"
        BY <1>0 DEF Requests
      <3>3. nextId' = nextId
        BY <1>3 DEF Mcp!Write
      <3> HIDE DEF r
      <3> QED BY <3>1, <3>2, <3>3, Advance
    <2> QED BY <2>1, <2>2
  <1>4. ASSUME NEW c \in Mcp!Clients, Mcp!LockRx(c) PROVE McpInv'
    <2> DEFINE r == [req[c] EXCEPT !.pc = "reading"]
    <2>1. r \in Requests /\ req' = [req EXCEPT ![c] = r] /\ req[c].pc = "waiting"
      BY <1>0, <1>4 DEF Mcp!LockRx, Requests
    <2>2. r.id = req[c].id /\ (r.out \in {"result", "error"} => r.from = r.id)
      BY <1>0 DEF Requests, McpInv, AnswersAreOwn, Mcp!AnswersAreOwn
    <2>3. nextId' = nextId
      BY <1>4 DEF Mcp!LockRx
    <2> QED BY <2>1, <2>2, <2>3, Advance
  <1>5. ASSUME NEW c \in Mcp!Clients, Mcp!TakeLine(c) PROVE McpInv'
    <2> DEFINE line == Head(lines)
               r == IF Mcp!Answers(line, req[c].id)
                    THEN [req[c] EXCEPT !.pc = "over", !.out = line.kind, !.from = line.id]
                    ELSE IF line.kind = "end"
                         THEN [req[c] EXCEPT !.pc = "over", !.out = "exited"]
                         ELSE [req[c] EXCEPT !.pc = "waiting"]
    <2>1. req' = [req EXCEPT ![c] = r] /\ nextId' = nextId /\ req[c].pc = "reading"
      BY <1>5, <1>0 DEF Mcp!TakeLine, McpInv, McpTyped
    <2>2. r \in Requests
      BY <1>0 DEF Mcp!Answers, Requests, Mcp!Outcomes
    <2>3. r.id = req[c].id /\ (r.out \in {"result", "error"} => r.from = r.id)
      BY <1>0 DEF Mcp!Answers, Requests, McpInv, AnswersAreOwn, Mcp!AnswersAreOwn
    <2> QED BY <2>1, <2>2, <2>3, Advance
  <1>6. ASSUME NEW c \in Mcp!Clients, Mcp!Timeout(c) PROVE McpInv'
    <2> DEFINE m == req[c].id \in sent
               r == [req[c] EXCEPT !.pc = "over", !.out = "timeout", !.missed = m]
    <2>0. m \in BOOLEAN
      OBVIOUS
    <2>1. req' = [req EXCEPT ![c] = r] /\ req[c].pc = "reading"
      BY <1>6 DEF Mcp!Timeout
    <2> HIDE DEF m
    <2>3. r \in Requests
      BY <1>0, <2>0 DEF Requests, Mcp!Outcomes
    <2>2. r.id = req[c].id /\ r.out = "timeout"
      BY <1>0 DEF Requests
    <2> QED BY <1>6, <2>1, <2>2, <2>3, Advance DEF Mcp!Timeout
  <1>7. ASSUME NEW c \in Mcp!Clients, Mcp!Disconnected(c) PROVE McpInv'
    <2> DEFINE r == [req[c] EXCEPT !.pc = "over", !.out = "exited"]
    <2>1. r \in Requests /\ req' = [req EXCEPT ![c] = r] /\ req[c].pc = "reading"
      BY <1>0, <1>7 DEF Mcp!Disconnected, Requests, Mcp!Outcomes
    <2>2. r.id = req[c].id /\ r.out = "exited"
      BY <1>0 DEF Requests
    <2> QED BY <1>7, <2>1, <2>2, Advance DEF Mcp!Disconnected
  <1>9. ASSUME NEW c \in Mcp!Clients, Mcp!Return(c) PROVE McpInv'
    BY <1>8, <1>9, Advance DEF Mcp!Return
  <1>10. CASE Mcp!MainStep
    <2>1. CASE Mcp!Handshake \/ Mcp!Listed
      BY <1>8, <2>1, Advance DEF Mcp!Handshake, Mcp!Listed, Mcp!Clients
    <2>2. CASE Mcp!GiveUp \/ Mcp!Described \/ Mcp!Shutdown
      BY <2>2 DEF Mcp!GiveUp, Mcp!Described, Mcp!Shutdown, McpInv, McpTyped, Numbered,
                  AnswersAreOwn, Mcp!AnswersAreOwn
    <2> QED BY <1>10, <2>1, <2>2 DEF Mcp!MainStep
  <1>11. CASE Mcp!ServerStep \/ Mcp!Settled
    <2>1. UNCHANGED <<nextId, req>>
      BY <1>11 DEF Mcp!ServerStep, Mcp!Answer, Mcp!Chatter, Mcp!Exit, Mcp!ReaderEnds,
                   Mcp!Settled, Mcp!vars
    <2> QED BY <2>1 DEF McpInv, McpTyped, Numbered, AnswersAreOwn, Mcp!AnswersAreOwn
  <1> QED
    BY <1>1, <1>2, <1>3, <1>4, <1>5, <1>6, <1>7, <1>9, <1>10, <1>11
    DEF Mcp!Next, Mcp!RequestStep

(* An MCP server's late answers reach nobody: each tool call gets the answer *)
(* to its own request, and no two share a number (Connection::request).     *)
THEOREM McpAnswersAreOwn == MCSpec => []AnswersAreOwn
  <1>1. MCInit => McpInv
    BY McpInit DEF MCInit
  <1>2. McpInv /\ [MCNext]_outsideVars => McpInv'
    BY McpStep DEF MCNext, outsideVars
  <1>3. McpInv => AnswersAreOwn
    BY DEF McpInv
  <1> QED BY <1>1, <1>2, <1>3, PTL DEF MCSpec

-----------------------------------------------------------------------------
(* A language server.                                                       *)

LspInv == left \in Nat /\ slow \in Nat /\ OnlyTimeoutsLeaveServers

LEMMA LspStep == LspInv /\ [Lsp!Next]_lspVars => LspInv'
  BY DEF LspInv, OnlyTimeoutsLeaveServers, Lsp!OnlyTimeoutsLeaveServers, lspVars,
     Lsp!Next, Lsp!NoServer, Lsp!StartServer, Lsp!SpawnFails, Lsp!Drained, Lsp!WriteFails,
     Lsp!Diagnostics, Lsp!Ignored, Lsp!WindowEnds, Lsp!Timeout, Lsp!ServerDies,
     Lsp!OldServerDies, Lsp!Deliver, Lsp!Settled, Lsp!Started, Lsp!EndSession,
     Lsp!StillRunning, Lsp!vars

(* A language server outlives its query only if the outer deadline ended it, *)
(* for any number of queries and however sessions fail (query_server).      *)
THEOREM ServersEndWithTheirQueries == MCSpec => []OnlyTimeoutsLeaveServers
  <1>1. MCInit => LspInv
    BY DEF MCInit, Lsp!Init, LspInv, OnlyTimeoutsLeaveServers, Lsp!OnlyTimeoutsLeaveServers
  <1>2. LspInv /\ [MCNext]_outsideVars => LspInv'
    BY LspStep DEF MCNext, outsideVars
  <1>3. LspInv => OnlyTimeoutsLeaveServers
    BY DEF LspInv
  <1> QED BY <1>1, <1>2, <1>3, PTL DEF MCSpec

-----------------------------------------------------------------------------
(* Sequences put one after another.                                         *)

LEMMA SameMax ==
    ASSUME NEW t
    PROVE  Stream!Max(t) = Greatest(t) /\ History!Max(t) = Greatest(t)
  BY DEF Stream!Max, History!Max, Greatest

LEMMA SameCardinality ==
    ASSUME NEW S
    PROVE  Stream!Cardinality(S) = Cardinality(S) /\ History!Cardinality(S) = Cardinality(S)
  BY DEF Stream!Cardinality, History!Cardinality, Cardinality

Joined(A) == [front \in Seq(A) |-> [part \in Seq(A) |-> front \o part]]

\* Flattening a sequence is a fold.
LEMMA FlattenTrace ==
    ASSUME NEW A, NEW s \in Seq(Seq(A))
    PROVE  EndsAt(Stream!FlattenSeq(s), Seq(A), <<>>, Joined(A), s)
  <1>1. Joined(A) \in [Seq(A) -> [Seq(A) -> Seq(A)]] /\ <<>> \in Seq(A)
    BY ConcatProperties, EmptySeq DEF Joined
  <1> PICK x : Traces(x, Seq(A), <<>>, Joined(A), s)
    BY <1>1, TraceExists
  <1>2. /\ Len(s) \in Nat /\ DOMAIN s = 1 .. Len(s)
        /\ \A i \in 1 .. Len(s) : s[i] \in Seq(A)
    BY LenProperties, ElementOfSeq
  <1>3. CASE Len(s) = 0
    <2>1. s = <<>> /\ Stream!FlattenSeq(s) = s /\ x[0] = <<>>
      BY <1>3, EmptySeq DEF Stream!FlattenSeq, Traces
    <2> QED BY <1>3, <2>1 DEF EndsAt
  <1>4. CASE Len(s) # 0
    <2> DEFINE
          Step(f, i) == IF i = 1 THEN s[i] ELSE f[i - 1] \o s[i]
          flat == CHOOSE f : f = [i \in 1 .. Len(s) |-> Step(f, i)]
    <2>1. Stream!FlattenSeq(s) = flat[Len(s)]
      BY <1>4 DEF Stream!FlattenSeq
    <2>2. \A k \in 1 .. Len(s) : k - 1 \in 0 .. Len(s) /\ (k # 1 => k - 1 \in 1 .. Len(s))
      BY <1>2
    <2>3. \A k \in 1 .. Len(s) : x[k] = x[k - 1] \o s[k] /\ x[k - 1] \in Seq(A)
      <3> SUFFICES ASSUME NEW k \in 1 .. Len(s)
                   PROVE  x[k] = x[k - 1] \o s[k] /\ x[k - 1] \in Seq(A)
        OBVIOUS
      <3>1. x[k - 1] \in Seq(A) /\ s[k] \in Seq(A) /\ x[k] = Joined(A)[x[k - 1]][s[k]]
        BY <1>2, <2>2 DEF Traces
      <3>2. \A p, q \in Seq(A) : Joined(A)[p][q] = p \o q
        BY DEF Joined
      <3> QED BY ONLY <3>1, <3>2
    <2> PICK f : Is(f, [i \in 1 .. Len(s) |-> x[i]])
      BY DEF Is
    <2>4. \A i \in 1 .. Len(s) : f[i] = x[i]
      BY DEF Is
    <2>5. ASSUME NEW i \in 1 .. Len(s) PROVE x[i] = Step(f, i)
      <3>1. CASE i = 1
        <4>1. x[i - 1] = <<>>
          BY <3>1 DEF Traces
        <4>2. <<>> \o s[i] = s[i]
          BY <1>2, ConcatEmptySeq
        <4> QED BY <2>3, <3>1, <4>1, <4>2
      <3>2. CASE i # 1
        BY <2>2, <2>3, <2>4, <3>2
      <3> QED BY <3>1, <3>2
    <2>6. f = [i \in 1 .. Len(s) |-> Step(f, i)]
      <3>1. f = [i \in 1 .. Len(s) |-> x[i]]
        BY DEF Is
      <3> HIDE DEF Step
      <3> QED BY ONLY <2>5, <3>1
    <2>7. flat = [i \in 1 .. Len(s) |-> Step(flat, i)]
      BY <2>6
    <2> HIDE DEF flat
    <2>8. \A i \in 1 .. Len(s) : flat[i] = Step(flat, i)
      BY ONLY <2>7
    <2> DEFINE T == {k \in Nat : k + 1 <= Len(s) => flat[k + 1] = x[k + 1]}
    <2>9. 0 \in T
      <3>1. 1 \in 1 .. Len(s)
        BY <1>2, <1>4
      <3>2. flat[1] = s[1] /\ x[1] = s[1]
        BY <2>5, <2>8, <3>1
      <3> QED BY <3>2
    <2>10. ASSUME NEW k \in Nat, k \in T PROVE k + 1 \in T
      <3> SUFFICES ASSUME (k + 1) + 1 <= Len(s) PROVE flat[(k + 1) + 1] = x[(k + 1) + 1]
        OBVIOUS
      <3> PICK m : m = (k + 1) + 1
        OBVIOUS
      <3>1. m \in 1 .. Len(s) /\ m # 1 /\ m - 1 = k + 1 /\ k + 1 <= Len(s) /\ m - 1 \in 1 .. Len(s)
        BY <1>2
      <3>2. flat[m - 1] = x[m - 1]
        BY <2>10, <3>1
      <3>3. flat[m] = flat[m - 1] \o s[m] /\ x[m] = x[m - 1] \o s[m]
        BY <2>3, <2>8, <3>1
      <3> QED BY ONLY <3>2, <3>3, m = (k + 1) + 1
    <2>11. \A k \in Nat : k \in T
      <3> HIDE DEF T
      <3> QED BY <2>9, <2>10, Induction
    <2> PICK k : k = Len(s) - 1
      OBVIOUS
    <2>12. k \in Nat /\ k + 1 = Len(s) /\ k + 1 <= Len(s)
      BY <1>2, <1>4
    <2>13. k + 1 <= Len(s) => flat[k + 1] = x[k + 1]
      BY ONLY <2>11, <2>12
    <2>14. flat[Len(s)] = x[Len(s)]
      BY ONLY <2>12, <2>13
    <2> QED BY <2>1, <2>14 DEF EndsAt
  <1> QED BY <1>3, <1>4

LEMMA FlattenMore ==
    ASSUME NEW A, NEW s \in Seq(Seq(A)), NEW e \in Seq(A), NEW u, Is(u, Append(s, e))
    PROVE  /\ Stream!FlattenSeq(s) \in Seq(A)
           /\ Stream!FlattenSeq(u) = Stream!FlattenSeq(s) \o e
  <1>1. u \in Seq(Seq(A))
    BY AppendProperties DEF Is
  <1> PICK r, q : Is(r, Stream!FlattenSeq(s)) /\ Is(q, Stream!FlattenSeq(u))
    BY DEF Is
  <1>2. EndsAt(r, Seq(A), <<>>, Joined(A), s) /\ EndsAt(q, Seq(A), <<>>, Joined(A), u)
    BY <1>1, FlattenTrace DEF Is
  <1>3. r \in Seq(A) /\ q = Joined(A)[r][e]
    <2>1. s \in Seq(Seq(A)) /\ e \in Seq(A) /\ Is(u, Append(s, e))
      BY DEF Is
    <2> QED BY ONLY <1>2, <2>1, EndsMore, SMT
  <1>4. \A f, g \in Seq(A) : Joined(A)[f][g] = f \o g
    BY DEF Joined
  <1>5. q = r \o e
    BY <1>3, <1>4
  <1> QED BY <1>3, <1>5 DEF Is

LEMMA FlattenNothing == Stream!FlattenSeq(<<>>) = <<>> /\ History!FlattenSeq(<<>>) = <<>>
  BY DEF Stream!FlattenSeq, History!FlattenSeq

LEMMA SameFlatten == ASSUME NEW s PROVE History!FlattenSeq(s) = Stream!FlattenSeq(s)
  BY DEF Stream!FlattenSeq, History!FlattenSeq

-----------------------------------------------------------------------------
(* A model's streamed answer.                                               *)

LineKinds == {"tool", "prose", "text", "json", "stop", "call", "noise", "error"}
AboutBlocks == {"tool", "prose", "json", "stop"}

Written ==
    {line \in [kind : LineKinds, block : Blocks \cup {0}, at : Nat] :
        line.kind \in AboutBlocks => line.block \in Blocks}

Steps == [kind : {"token", "call"}, from : Nat, input : Seq(Nat), id : Nat]

Readers == [opened : [Blocks -> Nat], json : [Blocks -> Seq(Nat)], calls : Nat,
            steps : Seq(Steps), error : BOOLEAN, harmed : SUBSET Nat]

\* Nothing opens or closes the block after line s and up to line n.
Quiet(answer, b, s, upto) ==
    \A k \in (s + 1) .. upto : answer[k].block = b => answer[k].kind \notin {"tool", "prose", "stop"}

\* The tool call of block b that line s started is not complete at line n.
Running(answer, b, s, upto) ==
    /\ s \in 1 .. upto /\ answer[s].kind = "tool" /\ answer[s].block = b
    /\ Quiet(answer, b, s, upto)

\* What the server writes: a start or a text block where none is open, a fragment
\* in a tool's, a stop where one is.
Proper(answer, i) ==
    LET b == answer[i].block
        running == \E s \in 1 .. (i - 1) : Running(answer, b, s, i - 1)
    IN /\ answer[i].at = i
       /\ answer[i].kind \in {"tool", "prose"} => ~running
       /\ answer[i].kind = "json" => running
       /\ answer[i].kind = "stop" =>
            \E s \in 1 .. (i - 1) : /\ answer[s].kind \in {"tool", "prose"} /\ answer[s].block = b
                                    /\ Quiet(answer, b, s, i - 1)

Answers == {answer \in Seq(Written) : \A i \in 1 .. Len(answer) : Proper(answer, i)}

-----------------------------------------------------------------------------
(* The fragments of a block.                                                *)

Fragments(answer, b, s) ==
    [kept \in Seq(Nat) |->
       [i \in Nat |-> IF i > s /\ answer[i].block = b /\ answer[i].kind = "json"
                      THEN Append(kept, i) ELSE kept]]

\* The numbers of the first lines.
Counted(m) == [i \in 1 .. m |-> i]

LEMMA CountedMore ==
    ASSUME NEW m \in Nat
    PROVE  /\ Counted(m) \in Seq(Nat) /\ Len(Counted(m)) = m /\ Counted(0) = <<>>
           /\ Counted(m + 1) = Append(Counted(m), m + 1)
  <1> PICK s, u, v : /\ Is(s, Counted(m)) /\ Is(u, Append(s, m + 1)) /\ Is(v, Counted(m + 1))
    BY DEF Is
  <1>1. /\ s \in Seq(Nat) /\ Len(s) = m /\ \A i \in 1 .. m : s[i] = i
    <2>1. s \in [1 .. m -> Nat] /\ \A i \in 1 .. m : s[i] = i
      BY DEF Is, Counted
    <2> QED BY <2>1, SeqDef, LenProperties
  <1>2. /\ v \in Seq(Nat) /\ Len(v) = m + 1 /\ \A i \in 1 .. m + 1 : v[i] = i
    <2>1. m + 1 \in Nat /\ v \in [1 .. m + 1 -> Nat] /\ \A i \in 1 .. m + 1 : v[i] = i
      BY DEF Is, Counted
    <2> QED BY <2>1, SeqDef, LenProperties
  <1>3. /\ u \in Seq(Nat) /\ Len(u) = m + 1 /\ u[m + 1] = m + 1
        /\ \A i \in 1 .. m : u[i] = s[i]
        /\ \A i \in 1 .. m + 1 : i = m + 1 \/ i \in 1 .. m
    <2>1. m + 1 \in Nat /\ u = Append(s, m + 1)
      BY DEF Is
    <2> QED BY <1>1, <2>1, Grown
  <1>4. \A i \in 1 .. m + 1 : u[i] = v[i]
    BY ONLY <1>1, <1>2, <1>3
  <1>5. u = v
    BY ONLY <1>2, <1>3, <1>4, SeqEqual
  <1>6. Counted(0) = <<>>
    <2>1. 1 .. 0 = {}
      OBVIOUS
    <2> QED BY <2>1 DEF Counted
  <1> QED BY <1>1, <1>5, <1>6 DEF Is

LEMMA InputsTrace ==
    ASSUME NEW answer, NEW b, NEW st \in Nat, NEW m \in Nat
    PROVE  EndsAt(Stream!Inputs(answer, b, st, m), Seq(Nat), <<>>, Fragments(answer, b, st), Counted(m))
  <1> PICK F, s : Is(F, Fragments(answer, b, st)) /\ Is(s, Counted(m))
    BY DEF Is
  <1>1. F \in [Seq(Nat) -> [Nat -> Seq(Nat)]]
    BY AppendProperties DEF Fragments, Is
  <1>2. s \in Seq(Nat) /\ DOMAIN s = 1 .. Len(s) /\ Len(s) \in Nat /\ \A i \in 1 .. Len(s) : s[i] \in Nat
    BY CountedMore, LenProperties, ElementOfSeq DEF Is
  <1>3. \A t \in SUBSET (1 .. Len(s)) : t # {} => s[Greatest(t)] \in Nat
    BY <1>2, GreatestIndex
  <1> DEFINE
        Op(kept, i) == IF i > st /\ answer[i].block = b /\ answer[i].kind = "json"
                       THEN Append(kept, i) ELSE kept
        Step(g, t) == IF t = {} THEN <<>> ELSE Op(g[t \ {Stream!Max(t)}], s[Stream!Max(t)])
        iter == CHOOSE g : g = [t \in SUBSET (1 .. Len(s)) |-> Step(g, t)]
  <1>4. Stream!Inputs(answer, b, st, m) = iter[1 .. Len(s)]
    <2>1. Stream!Inputs(answer, b, st, m) =
            Stream!FoldLeft(LAMBDA kept, i : IF i > st /\ answer[i].block = b /\ answer[i].kind = "json"
                                             THEN Append(kept, i) ELSE kept, <<>>, s)
      BY DEF Stream!Inputs, Counted, Is
    <2> QED BY <1>2, <2>1 DEF Stream!FoldLeft, Stream!MapThenFoldSet
  <1>5. <<>> \in Seq(Nat)
    BY EmptySeq
  <1> PICK g \in [SUBSET (1 .. Len(s)) -> Seq(Nat)] :
         \A t \in SUBSET (1 .. Len(s)) : Folds(g, <<>>, F, s, t)
    BY <1>1, <1>2, <1>5, FoldExists
  <1>6. \A r \in Seq(Nat), d \in Nat : F[r][d] = Op(r, d)
    BY DEF Fragments, Is
  <1> HIDE DEF Op
  <1>7. ASSUME NEW t \in SUBSET (1 .. Len(s)) PROVE g[t] = Step(g, t)
    <2>1. t # {} => g[t \ {Greatest(t)}] \in Seq(Nat)
      OBVIOUS
    <2> QED BY <1>3, <1>6, <2>1, SameMax DEF Folds
  <1>8. g = [t \in SUBSET (1 .. Len(s)) |-> Step(g, t)]
    BY <1>7
  <1>9. iter = [t \in SUBSET (1 .. Len(s)) |-> Step(iter, t)]
    BY <1>8
  <1> HIDE DEF iter
  <1>10. ASSUME NEW t \in SUBSET (1 .. Len(s)) PROVE Stepped(iter, Seq(Nat), <<>>, F, s, t)
    <2>1. iter[t] = Step(iter, t)
      BY ONLY <1>9, t \in SUBSET (1 .. Len(s))
    <2> QED BY <1>3, <1>6, <2>1, SameMax DEF Stepped
  <1>11. EndsAt(iter[1 .. Len(s)], Seq(Nat), <<>>, F, s)
    <2>1. Iterates(iter, Seq(Nat), Nat, <<>>, F, s)
      BY <1>1, <1>2, <1>5, <1>10 DEF Iterates
    <2> QED BY <2>1, FoldTraces
  <1> QED BY <1>4, <1>11 DEF Is

LEMMA InputsMore ==
    ASSUME NEW answer, NEW b, NEW st \in Nat, NEW m \in Nat
    PROVE  /\ Stream!Inputs(answer, b, st, 0) = <<>>
           /\ Stream!Inputs(answer, b, st, m) \in Seq(Nat)
           /\ Stream!Inputs(answer, b, st, m + 1) =
                IF m + 1 > st /\ answer[m + 1].block = b /\ answer[m + 1].kind = "json"
                THEN Append(Stream!Inputs(answer, b, st, m), m + 1)
                ELSE Stream!Inputs(answer, b, st, m)
  <1> PICK F, z, r, q, s, u : /\ Is(F, Fragments(answer, b, st)) /\ Is(s, Counted(m)) /\ Is(u, Counted(m + 1))
                           /\ Is(z, Stream!Inputs(answer, b, st, 0))
                           /\ Is(r, Stream!Inputs(answer, b, st, m))
                           /\ Is(q, Stream!Inputs(answer, b, st, m + 1))
    BY DEF Is
  <1>1. z = <<>>
    <2>1. EndsAt(z, Seq(Nat), <<>>, F, <<>>)
      <3>1. 0 \in Nat /\ Counted(0) = <<>>
        BY CountedMore
      <3>2. EndsAt(Stream!Inputs(answer, b, st, 0), Seq(Nat), <<>>, Fragments(answer, b, st), Counted(0))
        BY <3>1, InputsTrace
      <3> QED BY <3>1, <3>2 DEF Is
    <2> QED BY <2>1, EndsEmpty
  <1>2. EndsAt(r, Seq(Nat), <<>>, F, s) /\ EndsAt(q, Seq(Nat), <<>>, F, u)
    <2>1. m + 1 \in Nat
      OBVIOUS
    <2> QED BY <2>1, InputsTrace DEF Is
  <1>3. s \in Seq(Nat) /\ m + 1 \in Nat /\ Is(u, Append(s, m + 1))
    <2>1. Counted(m) \in Seq(Nat) /\ m + 1 \in Nat /\ Counted(m + 1) = Append(Counted(m), m + 1)
      BY CountedMore
    <2> QED BY <2>1 DEF Is
  <1>4. r \in Seq(Nat) /\ q = F[r][m + 1]
    BY ONLY <1>2, <1>3, EndsMore, SMT
  <1>5. F[r][m + 1] = IF m + 1 > st /\ answer[m + 1].block = b /\ answer[m + 1].kind = "json"
                      THEN Append(r, m + 1) ELSE r
    BY <1>3, <1>4 DEF Fragments, Is
  <1> QED BY <1>1, <1>4, <1>5 DEF Is

LEMMA InputsNone ==
    ASSUME NEW answer, NEW b, NEW st \in Nat, NEW m \in Nat, m <= st
    PROVE  Stream!Inputs(answer, b, st, m) = <<>>
  <1> DEFINE T == {k \in Nat : k <= st => Stream!Inputs(answer, b, st, k) = <<>>}
  <1>1. 0 \in T
    BY InputsMore
  <1>2. ASSUME NEW k \in Nat, k \in T PROVE k + 1 \in T
    <2> SUFFICES ASSUME k + 1 <= st PROVE Stream!Inputs(answer, b, st, k + 1) = <<>>
      OBVIOUS
    <2>1. ~(k + 1 > st) /\ k <= st
      OBVIOUS
    <2>2. Stream!Inputs(answer, b, st, k + 1) = Stream!Inputs(answer, b, st, k)
      BY <2>1, InputsMore
    <2> QED BY <1>2, <2>1, <2>2
  <1>3. m \in T
    <2> HIDE DEF T
    <2> QED BY <1>1, <1>2, Induction
  <1> QED BY <1>3

LEMMA InputsSame ==
    ASSUME NEW answer, NEW other, NEW b, NEW st \in Nat, NEW m \in Nat,
           \A k \in 1 .. m : answer[k] = other[k]
    PROVE  Stream!Inputs(answer, b, st, m) = Stream!Inputs(other, b, st, m)
  <1> DEFINE T == {k \in Nat : k <= m =>
                     Stream!Inputs(answer, b, st, k) = Stream!Inputs(other, b, st, k)}
  <1>1. 0 \in T
    BY InputsMore
  <1>2. ASSUME NEW k \in Nat, k \in T PROVE k + 1 \in T
    <2> SUFFICES ASSUME k + 1 <= m
                 PROVE  Stream!Inputs(answer, b, st, k + 1) = Stream!Inputs(other, b, st, k + 1)
      OBVIOUS
    <2>1. k + 1 \in 1 .. m /\ k <= m
      OBVIOUS
    <2>2. answer[k + 1] = other[k + 1] /\ Stream!Inputs(answer, b, st, k) = Stream!Inputs(other, b, st, k)
      BY <1>2, <2>1
    <2> PICK p, q : Is(p, answer) /\ Is(q, other)
      BY DEF Is
    <2>3. /\ Stream!Inputs(p, b, st, k + 1) =
                IF k + 1 > st /\ p[k + 1].block = b /\ p[k + 1].kind = "json"
                THEN Append(Stream!Inputs(p, b, st, k), k + 1) ELSE Stream!Inputs(p, b, st, k)
          /\ Stream!Inputs(q, b, st, k + 1) =
                IF k + 1 > st /\ q[k + 1].block = b /\ q[k + 1].kind = "json"
                THEN Append(Stream!Inputs(q, b, st, k), k + 1) ELSE Stream!Inputs(q, b, st, k)
      BY InputsMore
    <2>4. p[k + 1] = q[k + 1] /\ Stream!Inputs(p, b, st, k) = Stream!Inputs(q, b, st, k)
      BY <2>2 DEF Is
    <2>5. Stream!Inputs(p, b, st, k + 1) = Stream!Inputs(q, b, st, k + 1)
      BY ONLY <2>3, <2>4
    <2> QED BY <2>5 DEF Is
  <1>3. m \in T
    <2> HIDE DEF T
    <2> QED BY <1>1, <1>2, Induction
  <1> QED BY <1>3

-----------------------------------------------------------------------------
(* What the lines say.                                                      *)

LEMMA RunningMore ==
    ASSUME NEW answer, NEW b, NEW m \in Nat
    PROVE  /\ \A s \in 1 .. m :
                Running(answer, b, s, m + 1) <=>
                  /\ Running(answer, b, s, m)
                  /\ answer[m + 1].block = b => answer[m + 1].kind \notin {"tool", "prose", "stop"}
           /\ Running(answer, b, m + 1, m + 1) <=>
                answer[m + 1].kind = "tool" /\ answer[m + 1].block = b
  <1>1. ASSUME NEW s \in 1 .. m
        PROVE  Quiet(answer, b, s, m + 1) <=>
                  /\ Quiet(answer, b, s, m)
                  /\ answer[m + 1].block = b => answer[m + 1].kind \notin {"tool", "prose", "stop"}
    <2>1. /\ \A k \in (s + 1) .. m : k \in (s + 1) .. (m + 1)
          /\ \A k \in (s + 1) .. (m + 1) : k = m + 1 \/ k \in (s + 1) .. m
          /\ m + 1 \in (s + 1) .. (m + 1)
      OBVIOUS
    <2> QED BY <2>1 DEF Quiet
  <1>2. \A s \in 1 .. m : s \in 1 .. (m + 1)
    OBVIOUS
  <1>3. m + 1 \in 1 .. (m + 1) /\ \A k \in ((m + 1) + 1) .. (m + 1) : FALSE
    OBVIOUS
  <1> QED BY <1>1, <1>2, <1>3 DEF Running, Quiet

LEMMA OneRunning ==
    ASSUME NEW answer, NEW b, NEW m \in Nat, NEW s, NEW r, Running(answer, b, s, m), Running(answer, b, r, m)
    PROVE  s = r
  <1>1. s \in 1 .. m /\ r \in 1 .. m
    BY DEF Running
  <1>2. CASE s < r
    <2>1. r \in (s + 1) .. m
      BY <1>1, <1>2
    <2> QED BY <2>1 DEF Running, Quiet
  <1>3. CASE r < s
    <2>1. s \in (r + 1) .. m
      BY <1>1, <1>3
    <2> QED BY <2>1 DEF Running, Quiet
  <1> QED BY <1>1, <1>2, <1>3

CallsOf(answer, m) == {j \in 1 .. m : answer[j].kind = "call"}

LEMMA CallsOfMore ==
    ASSUME NEW answer, NEW m \in Nat
    PROVE  /\ Cardinality(CallsOf(answer, 0)) = 0 /\ Cardinality(CallsOf(answer, m)) \in Nat
           /\ Cardinality(CallsOf(answer, m + 1)) =
                Cardinality(CallsOf(answer, m)) + (IF answer[m + 1].kind = "call" THEN 1 ELSE 0)
  <1>1. CallsOf(answer, 0) = {}
    BY DEF CallsOf
  <1>2. IsFiniteSet(CallsOf(answer, m)) /\ Cardinality(CallsOf(answer, m)) \in Nat
    <2>1. IsFiniteSet(1 .. m)
      BY FS_Interval
    <2>2. CallsOf(answer, m) \subseteq 1 .. m
      BY DEF CallsOf
    <2>3. IsFiniteSet(CallsOf(answer, m))
      BY <2>1, <2>2, FS_Subset
    <2> QED BY <2>3, FS_CardinalityType
  <1>3. m + 1 \notin CallsOf(answer, m)
    BY DEF CallsOf
  <1>4. CallsOf(answer, m + 1) = IF answer[m + 1].kind = "call" THEN CallsOf(answer, m) \cup {m + 1}
                                 ELSE CallsOf(answer, m)
    <2>1. /\ m + 1 \in 1 .. (m + 1) /\ \A k \in 1 .. m : k \in 1 .. (m + 1)
          /\ \A k \in 1 .. (m + 1) : k = m + 1 \/ k \in 1 .. m
      OBVIOUS
    <2> QED BY <2>1 DEF CallsOf
  <1>7. Cardinality(CallsOf(answer, 0)) = 0
    BY <1>1, FS_EmptySet
  <1>8. Cardinality(CallsOf(answer, m) \cup {m + 1}) = Cardinality(CallsOf(answer, m)) + 1
    BY ONLY <1>2, <1>3, FS_AddElement
  <1>5. CASE answer[m + 1].kind = "call"
    BY ONLY <1>2, <1>4, <1>5, <1>7, <1>8
  <1>6. CASE answer[m + 1].kind # "call"
    BY ONLY <1>2, <1>4, <1>6, <1>7
  <1> QED BY <1>5, <1>6

LEMMA SaidStop ==
    ASSUME NEW answer, NEW i \in Nat, answer[i].kind = "stop",
           NEW s \in 1 .. (i - 1), answer[s].kind \in {"tool", "prose"},
           answer[s].block = answer[i].block, Quiet(answer, answer[i].block, s, i - 1)
    PROVE  Stream!Said(answer, i) =
             IF answer[s].kind = "tool"
             THEN <<Stream!Call(s, Stream!Inputs(answer, answer[i].block, s, i), s)>> ELSE <<>>
  <1> DEFINE begun == {j \in 1 .. (i - 1) : /\ answer[j].block = answer[i].block
                                            /\ answer[j].kind \in Stream!OpenKinds}
             start == CHOOSE j \in begun : \A k \in begun : k <= j
  <1>1. s \in begun
    BY DEF Stream!OpenKinds
  <1>2. ASSUME NEW k \in begun PROVE k <= s
    <2> SUFFICES ASSUME k > s PROVE FALSE
      OBVIOUS
    <2>1. k \in (s + 1) .. (i - 1)
      OBVIOUS
    <2> QED BY <2>1 DEF Quiet, Stream!OpenKinds
  <1>3. start \in begun /\ \A k \in begun : k <= start
    <2> HIDE DEF begun
    <2> QED BY <1>1, <1>2
  <1>4. start = s
    <2>1. start <= s /\ s <= start
      BY <1>1, <1>2, <1>3
    <2>2. start \in Int /\ s \in Int
      BY <1>3
    <2> QED BY ONLY <2>1, <2>2
  <1> HIDE DEF start
  <1>5. Stream!Said(answer, i) =
          IF answer[start].kind = "tool"
          THEN <<Stream!Call(start, Stream!Inputs(answer, answer[i].block, start, i), start)>> ELSE <<>>
    BY DEF Stream!Said, start
  <1> QED BY <1>4, <1>5

LEMMA SaidOther ==
    ASSUME NEW answer, NEW i \in Nat
    PROVE  /\ answer[i].kind = "text" => Stream!Said(answer, i) = <<Stream!Token(answer[i])>>
           /\ answer[i].kind = "call" =>
                Stream!Said(answer, i) =
                  <<Stream!Call(answer[i].at, <<>>, Cardinality(CallsOf(answer, i - 1)) + 1)>>
           /\ answer[i].kind \notin {"text", "call", "stop"} => Stream!Said(answer, i) = <<>>
  <1>1. answer[i].kind = "call" => Stream!Said(answer, i) =
          <<Stream!Call(answer[i].at, <<>>, Stream!Cardinality(CallsOf(answer, i - 1)) + 1)>>
    BY DEF Stream!Said, CallsOf
  <1>2. /\ answer[i].kind = "text" => Stream!Said(answer, i) = <<Stream!Token(answer[i])>>
        /\ answer[i].kind \notin {"text", "call", "stop"} => Stream!Said(answer, i) = <<>>
    BY DEF Stream!Said
  <1> QED BY <1>1, <1>2, SameCardinality

LEMMA AnswerLine ==
    ASSUME NEW answer \in Answers, NEW i \in 1 .. Len(answer)
    PROVE  /\ answer[i] \in Written /\ Proper(answer, i) /\ answer[i].at = i /\ i \in Nat /\ i # 0
           /\ answer[i].kind \in AboutBlocks => answer[i].block \in Blocks
  <1>1. answer \in Seq(Written) /\ Proper(answer, i)
    BY DEF Answers
  <1>2. answer[i] \in Written /\ Len(answer) \in Nat
    BY <1>1, ElementOfSeq, LenProperties
  <1> QED BY <1>1, <1>2 DEF Proper, Written

LEMMA StoppedBlock ==
    ASSUME NEW answer \in Answers, NEW i \in 1 .. Len(answer), answer[i].kind = "stop"
    PROVE  \E s \in 1 .. (i - 1) :
              /\ answer[s].kind \in {"tool", "prose"} /\ answer[s].block = answer[i].block
              /\ Quiet(answer, answer[i].block, s, i - 1) /\ s \in 1 .. Len(answer)
  <1>1. Proper(answer, i)
    BY AnswerLine
  <1> PICK s \in 1 .. (i - 1) :
              /\ answer[s].kind \in {"tool", "prose"} /\ answer[s].block = answer[i].block
              /\ Quiet(answer, answer[i].block, s, i - 1)
    BY <1>1 DEF Proper
  <1>2. Len(answer) \in Nat
    BY LenProperties DEF Answers
  <1>3. s \in 1 .. Len(answer)
    BY <1>2
  <1> QED BY <1>3

LEMMA OneStep == ASSUME NEW e \in Steps PROVE <<e>> \in Seq(Steps)
  OBVIOUS

LEMMA SaidTyped ==
    ASSUME NEW answer \in Answers, NEW i \in 1 .. Len(answer)
    PROVE  Stream!Said(answer, i) \in Seq(Steps)
  <1>1. /\ answer[i] \in Written /\ answer[i].at = i /\ i \in Nat
    BY AnswerLine
  <1>2. CASE answer[i].kind = "text"
    <2>1. Stream!Token(answer[i]) \in Steps
      BY <1>1, EmptySeq DEF Stream!Token, Steps
    <2>2. Stream!Said(answer, i) = <<Stream!Token(answer[i])>>
      BY <1>1, <1>2, SaidOther
    <2> QED BY <2>1, <2>2, OneStep
  <1>3. CASE answer[i].kind = "call"
    <2> PICK c : Is(c, Cardinality(CallsOf(answer, i - 1)) + 1)
      BY DEF Is
    <2>1. c \in Nat
      <3>1. i - 1 \in Nat
        BY <1>1
      <3>2. Cardinality(CallsOf(answer, i - 1)) \in Nat
        BY <3>1, CallsOfMore
      <3> QED BY <3>2 DEF Is
    <2>2. Stream!Call(answer[i].at, <<>>, c) \in Steps
      BY <1>1, <2>1, EmptySeq DEF Stream!Call, Steps
    <2>3. Stream!Said(answer, i) = <<Stream!Call(answer[i].at, <<>>, c)>>
      BY <1>1, <1>3, SaidOther DEF Is
    <2> QED BY <2>2, <2>3, OneStep
  <1>4. CASE answer[i].kind = "stop"
    <2> PICK s \in 1 .. (i - 1) :
              /\ answer[s].kind \in {"tool", "prose"} /\ answer[s].block = answer[i].block
              /\ Quiet(answer, answer[i].block, s, i - 1)
      BY <1>4, StoppedBlock
    <2>1. s \in Nat
      BY <1>1
    <2> PICK held : Is(held, Stream!Inputs(answer, answer[i].block, s, i))
      BY DEF Is
    <2>2. held \in Seq(Nat)
      BY <1>1, <2>1, InputsMore DEF Is
    <2>3. Stream!Call(s, held, s) \in Steps
      BY <2>1, <2>2 DEF Stream!Call, Steps
    <2>4. Stream!Said(answer, i) = IF answer[s].kind = "tool" THEN <<Stream!Call(s, held, s)>> ELSE <<>>
      BY <1>1, <1>4, SaidStop DEF Is
    <2> QED BY <2>3, <2>4, OneStep, EmptySeq
  <1>5. CASE answer[i].kind \notin {"text", "call", "stop"}
    BY <1>1, <1>5, SaidOther, EmptySeq
  <1> QED BY <1>2, <1>3, <1>4, <1>5

LEMMA SaidSame ==
    ASSUME NEW answer \in Answers, NEW other, NEW i \in 1 .. Len(answer),
           \A k \in 1 .. i : answer[k] = other[k]
    PROVE  Stream!Said(answer, i) = Stream!Said(other, i)
  <1>1. /\ answer[i] = other[i] /\ i \in Nat /\ \A k \in 1 .. (i - 1) : answer[k] = other[k]
    BY AnswerLine
  <1>2. CASE answer[i].kind = "text"
    BY <1>1, <1>2, SaidOther
  <1>3. CASE answer[i].kind = "call"
    <2>1. CallsOf(answer, i - 1) = CallsOf(other, i - 1)
      BY <1>1 DEF CallsOf
    <2> QED BY <1>1, <1>3, <2>1, SaidOther
  <1>4. CASE answer[i].kind = "stop"
    <2> PICK b : Is(b, answer[i].block)
      BY DEF Is
    <2> PICK s \in 1 .. (i - 1) :
              /\ answer[s].kind \in {"tool", "prose"} /\ answer[s].block = answer[i].block
              /\ Quiet(answer, answer[i].block, s, i - 1)
      BY <1>4, StoppedBlock
    <2>1. s \in Nat
      BY <1>1
    <2>2. Stream!Inputs(answer, b, s, i) = Stream!Inputs(other, b, s, i)
      BY <1>1, <2>1, InputsSame
    <2>3. Quiet(other, b, s, i - 1)
      <3>1. \A k \in (s + 1) .. (i - 1) : k \in 1 .. (i - 1)
        BY <2>1
      <3> QED BY <1>1, <3>1 DEF Quiet, Is
    <2>4. answer[s] = other[s]
      BY <1>1
    <2>5. /\ Stream!Said(answer, i) = IF answer[s].kind = "tool"
             THEN <<Stream!Call(s, Stream!Inputs(answer, b, s, i), s)>> ELSE <<>>
          /\ Stream!Said(other, i) = IF other[s].kind = "tool"
             THEN <<Stream!Call(s, Stream!Inputs(other, b, s, i), s)>> ELSE <<>>
      BY <1>1, <1>4, <2>3, <2>4, SaidStop DEF Is
    <2> QED BY <2>2, <2>4, <2>5
  <1>5. CASE answer[i].kind \notin {"text", "call", "stop"}
    BY <1>1, <1>5, SaidOther
  <1> QED BY <1>2, <1>3, <1>4, <1>5

Sayings(answer, m) == [i \in 1 .. m |-> Stream!Said(answer, i)]

LEMMA SayingsMore ==
    ASSUME NEW answer \in Answers, NEW m \in Nat, m + 1 <= Len(answer)
    PROVE  /\ Sayings(answer, m) \in Seq(Seq(Steps))
           /\ Sayings(answer, m + 1) = Append(Sayings(answer, m), Stream!Said(answer, m + 1))
  <1>0. \A i \in 1 .. (m + 1) : Stream!Said(answer, i) \in Seq(Steps)
    <2>1. Len(answer) \in Nat
      BY LenProperties DEF Answers
    <2>2. \A i \in 1 .. (m + 1) : i \in 1 .. Len(answer)
      BY <2>1
    <2> QED BY <2>2, SaidTyped
  <1> PICK s, e, u, v : /\ Is(s, Sayings(answer, m)) /\ Is(e, Stream!Said(answer, m + 1))
                     /\ Is(u, Append(s, e)) /\ Is(v, Sayings(answer, m + 1))
    BY DEF Is
  <1>1. /\ s \in Seq(Seq(Steps)) /\ Len(s) = m /\ \A i \in 1 .. m : s[i] = Stream!Said(answer, i)
    <2>1. \A i \in 1 .. m : i \in 1 .. (m + 1)
      OBVIOUS
    <2>2. s \in [1 .. m -> Seq(Steps)] /\ \A i \in 1 .. m : s[i] = Stream!Said(answer, i)
      BY <1>0, <2>1 DEF Is, Sayings
    <2> QED BY <2>2, SeqDef, LenProperties
  <1>2. /\ v \in Seq(Seq(Steps)) /\ Len(v) = m + 1
        /\ \A i \in 1 .. m + 1 : v[i] = Stream!Said(answer, i)
    <2>1. m + 1 \in Nat
      OBVIOUS
    <2>2. /\ v \in [1 .. m + 1 -> Seq(Steps)]
          /\ \A i \in 1 .. m + 1 : v[i] = Stream!Said(answer, i)
      BY <1>0 DEF Is, Sayings
    <2> QED BY <2>1, <2>2, SeqDef, LenProperties
  <1>3. /\ u \in Seq(Seq(Steps)) /\ Len(u) = m + 1 /\ u[m + 1] = e
        /\ \A i \in 1 .. m : u[i] = s[i]
        /\ \A i \in 1 .. m + 1 : i = m + 1 \/ i \in 1 .. m
    <2>1. m + 1 \in 1 .. m + 1
      OBVIOUS
    <2>2. e \in Seq(Steps) /\ u = Append(s, e)
      BY <1>0, <2>1 DEF Is
    <2> QED BY <1>1, <2>2, Grown
  <1>4. \A i \in 1 .. m + 1 : u[i] = v[i]
    BY <1>1, <1>2, <1>3 DEF Is
  <1>5. u = v
    BY ONLY <1>2, <1>3, <1>4, SeqEqual
  <1> QED BY <1>1, <1>5 DEF Is

LEMMA MeaningMore ==
    ASSUME NEW answer \in Answers, NEW m \in Nat, m + 1 <= Len(answer)
    PROVE  /\ Stream!Meaning(answer, m) \in Seq(Steps)
           /\ Stream!Meaning(answer, m + 1) = Stream!Meaning(answer, m) \o Stream!Said(answer, m + 1)
  <1>1. m + 1 \in 1 .. Len(answer)
    BY LenProperties DEF Answers
  <1>2. Stream!Said(answer, m + 1) \in Seq(Steps)
    BY <1>1, SaidTyped
  <1>3. /\ Stream!FlattenSeq(Sayings(answer, m)) \in Seq(Steps)
        /\ Stream!FlattenSeq(Sayings(answer, m + 1)) =
             Stream!FlattenSeq(Sayings(answer, m)) \o Stream!Said(answer, m + 1)
    <2> PICK s, e, u : /\ Is(s, Sayings(answer, m)) /\ Is(e, Stream!Said(answer, m + 1))
                       /\ Is(u, Sayings(answer, m + 1))
      BY DEF Is
    <2>1. s \in Seq(Seq(Steps)) /\ e \in Seq(Steps) /\ Is(u, Append(s, e))
      BY <1>2, SayingsMore DEF Is
    <2>2. Stream!FlattenSeq(s) \in Seq(Steps) /\ Stream!FlattenSeq(u) = Stream!FlattenSeq(s) \o e
      BY ONLY <2>1, FlattenMore
    <2> QED BY <2>2 DEF Is
  <1> QED BY <1>3, SayingsMore DEF Stream!Meaning, Sayings

LEMMA MeaningNothing == ASSUME NEW answer PROVE Stream!Meaning(answer, 0) = <<>>
  <1>1. [i \in 1 .. 0 |-> Stream!Said(answer, i)] = <<>>
    <2>1. 1 .. 0 = {}
      OBVIOUS
    <2> QED BY <2>1
  <1> QED BY <1>1, FlattenNothing DEF Stream!Meaning

LEMMA MeaningSame ==
    ASSUME NEW answer \in Answers, NEW other, NEW m \in Nat, m <= Len(answer),
           \A k \in 1 .. m : answer[k] = other[k]
    PROVE  Stream!Meaning(answer, m) = Stream!Meaning(other, m)
  <1>1. ASSUME NEW i \in 1 .. m PROVE Stream!Said(answer, i) = Stream!Said(other, i)
    <2>1. i \in 1 .. Len(answer) /\ \A k \in 1 .. i : k \in 1 .. m
      BY LenProperties DEF Answers
    <2> QED BY <2>1, SaidSame
  <1>2. [i \in 1 .. m |-> Stream!Said(answer, i)] = [i \in 1 .. m |-> Stream!Said(other, i)]
    BY ONLY <1>1
  <1> QED BY <1>2 DEF Stream!Meaning

-----------------------------------------------------------------------------
(* The reader.                                                              *)

\* What the reader holds of block b after line m.
Held(r, answer, b, m) ==
    IF r.opened[b] = 0
    THEN r.json[b] = <<>> /\ \A s \in 1 .. m : ~Running(answer, b, s, m)
    ELSE /\ Running(answer, b, r.opened[b], m)
         /\ r.json[b] = Stream!Inputs(answer, b, r.opened[b], m)

\* The reader has read m lines.
HasRead(r, answer, m) ==
    /\ r \in Readers
    /\ ~r.error => /\ r.steps = Stream!Meaning(answer, m)
                   /\ r.calls = Cardinality(CallsOf(answer, m))
                   /\ \A b \in Blocks : Held(r, answer, b, m)

LEMMA ReadTyped ==
    ASSUME NEW r \in Readers, NEW line \in Written
    PROVE  Stream!Read(r, line) \in Readers
  <1>1. /\ r.steps \in Seq(Steps) /\ r.calls \in Nat /\ r.opened \in [Blocks -> Nat]
        /\ r.json \in [Blocks -> Seq(Nat)] /\ line.at \in Nat
        /\ line.kind \in AboutBlocks => line.block \in Blocks
    BY DEF Readers, Written
  <1>2. ASSUME NEW e \in Steps PROVE Append(r.steps, e) \in Seq(Steps)
    BY <1>1, AppendProperties
  <1>3. Stream!Token(line) \in Steps
    BY <1>1, EmptySeq DEF Stream!Token, Steps
  <1>4. Stream!Call(line.at, <<>>, r.calls + 1) \in Steps
    BY <1>1, EmptySeq DEF Stream!Call, Steps
  <1>5. CASE r.error
    BY <1>5 DEF Stream!Read
  <1>6. CASE ~r.error /\ line.kind = "text"
    <2> PICK q : Is(q, Append(r.steps, Stream!Token(line)))
      BY DEF Is
    <2>1. q \in Seq(Steps)
      BY <1>2, <1>3 DEF Is
    <2>2. Stream!Read(r, line) = [r EXCEPT !.steps = q]
      BY <1>6 DEF Stream!Read, Is
    <2> QED BY <2>1, <2>2 DEF Readers
  <1>7. CASE ~r.error /\ line.kind = "tool"
    <2> PICK q : Is(q, [r.opened EXCEPT ![line.block] = line.at])
      BY DEF Is
    <2>1. q \in [Blocks -> Nat]
      BY <1>1 DEF Is
    <2>2. Stream!Read(r, line) = [r EXCEPT !.opened = q]
      BY <1>7 DEF Stream!Read, Stream!Started, Is, Readers
    <2> QED BY <2>1, <2>2 DEF Readers
  <1>8. CASE ~r.error /\ line.kind = "json"
    <2>0. line.block \in Blocks
      BY <1>1, <1>8 DEF AboutBlocks
    <2> PICK w : Is(w, Append(r.json[line.block], line.at))
      BY DEF Is
    <2>1. w \in Seq(Nat)
      BY <1>1, <2>0, AppendProperties DEF Is
    <2> PICK q : Is(q, [r.json EXCEPT ![line.block] = w])
      BY DEF Is
    <2>2. q \in [Blocks -> Seq(Nat)]
      BY <1>1, <2>1 DEF Is
    <2>3. Stream!Read(r, line) = [r EXCEPT !.json = q]
      BY <1>8 DEF Stream!Read, Stream!Fragment, Is, Readers
    <2> QED BY <2>2, <2>3 DEF Readers
  <1>9. CASE ~r.error /\ line.kind = "stop"
    <2> PICK b : b = line.block
      OBVIOUS
    <2>0. b \in Blocks
      BY <1>1, <1>9 DEF AboutBlocks
    <2>1. Stream!Read(r, line) = Stream!Stopped(r, line)
      BY <1>9 DEF Stream!Read
    <2>2. CASE r.opened[b] = 0
      BY <2>1, <2>2 DEF Stream!Stopped
    <2>3. CASE r.opened[b] # 0
      <3> PICK w, o, j : /\ Is(w, Append(r.steps, Stream!Call(r.opened[b], r.json[b], r.opened[b])))
                         /\ Is(o, [r.opened EXCEPT ![b] = 0]) /\ Is(j, [r.json EXCEPT ![b] = <<>>])
        BY DEF Is
      <3>1. Stream!Call(r.opened[b], r.json[b], r.opened[b]) \in Steps
        BY <1>1, <2>0 DEF Stream!Call, Steps
      <3>2. w \in Seq(Steps) /\ o \in [Blocks -> Nat] /\ j \in [Blocks -> Seq(Nat)]
        BY <1>1, <1>2, <2>0, <3>1, EmptySeq DEF Is
      <3>3. Stream!Read(r, line) = [r EXCEPT !.steps = w, !.opened = o, !.json = j]
        BY <2>1, <2>3 DEF Stream!Stopped, Is, Readers
      <3> QED BY <3>2, <3>3 DEF Readers
    <2> QED BY <2>2, <2>3
  <1>10. CASE ~r.error /\ line.kind = "call"
    <2> PICK q : Is(q, Append(r.steps, Stream!Call(line.at, <<>>, r.calls + 1)))
      BY DEF Is
    <2>1. q \in Seq(Steps)
      BY <1>2, <1>4 DEF Is
    <2> PICK c : c = r.calls + 1
      OBVIOUS
    <2>2. c \in Nat
      BY <1>1
    <2>3. Stream!Read(r, line) = [r EXCEPT !.calls = c, !.steps = q]
      BY <1>10 DEF Stream!Read, Stream!Whole, Is
    <2> QED BY <2>1, <2>2, <2>3 DEF Readers
  <1>11. CASE ~r.error /\ line.kind \notin {"text", "tool", "json", "stop", "call"}
    BY <1>11 DEF Stream!Read, Stream!Reported, Readers
  <1> QED BY <1>5, <1>6, <1>7, <1>8, <1>9, <1>10, <1>11

\* A block that the line leaves alone is held as before.
LEMMA HeldOn ==
    ASSUME NEW answer, NEW m \in Nat, NEW b \in Blocks, NEW r, NEW q, Held(r, answer, b, m),
           r.opened[b] \in Nat, q.opened[b] = r.opened[b], q.json[b] = r.json[b],
           answer[m + 1].block = b => answer[m + 1].kind \notin AboutBlocks
    PROVE  Held(q, answer, b, m + 1)
  <1>1. m + 1 \in Nat /\ \A s \in 1 .. (m + 1) : s = m + 1 \/ s \in 1 .. m
    OBVIOUS
  <1>2. /\ \A s \in 1 .. m : Running(answer, b, s, m + 1) <=> Running(answer, b, s, m)
        /\ ~Running(answer, b, m + 1, m + 1)
    <2>1. answer[m + 1].block = b => answer[m + 1].kind \notin {"tool", "prose", "stop"}
      BY DEF AboutBlocks
    <2> QED BY ONLY <2>1, RunningMore, m \in Nat
  <1>3. CASE r.opened[b] = 0
    BY <1>1, <1>2, <1>3 DEF Held
  <1>4. CASE r.opened[b] # 0
    <2> PICK o : o = r.opened[b]
      OBVIOUS
    <2>1. o \in 1 .. m /\ Running(answer, b, o, m) /\ r.json[b] = Stream!Inputs(answer, b, o, m)
      BY <1>4 DEF Held, Running
    <2>2. Running(answer, b, o, m + 1)
      BY <1>2, <2>1
    <2>3. Stream!Inputs(answer, b, o, m + 1) = Stream!Inputs(answer, b, o, m)
      <3>1. ~(answer[m + 1].block = b /\ answer[m + 1].kind = "json")
        BY DEF AboutBlocks
      <3> QED BY <3>1, InputsMore
    <2> QED BY <1>4, <2>1, <2>2, <2>3 DEF Held
  <1> QED BY <1>3, <1>4

\* Where a block that is not open is a tool's no more.
LEMMA HeldNot ==
    ASSUME NEW answer, NEW m \in Nat, NEW b, NEW q, q.opened[b] = 0, q.json[b] = <<>>,
           answer[m + 1].block = b, answer[m + 1].kind \in {"prose", "stop"}
    PROVE  Held(q, answer, b, m + 1)
  <1>1. \A s \in 1 .. (m + 1) : s = m + 1 \/ s \in 1 .. m
    OBVIOUS
  <1>2. /\ \A s \in 1 .. m : ~Running(answer, b, s, m + 1)
        /\ ~Running(answer, b, m + 1, m + 1)
    <2>1. answer[m + 1].kind # "tool" /\ answer[m + 1].kind \in {"tool", "prose", "stop"}
      OBVIOUS
    <2> QED BY ONLY <2>1, RunningMore, m \in Nat, answer[m + 1].block = b
  <1> QED BY <1>1, <1>2 DEF Held

LEMMA ReadLine ==
    ASSUME NEW answer \in Answers, NEW m \in Nat, m + 1 <= Len(answer), NEW r, HasRead(r, answer, m)
    PROVE  HasRead(Stream!Read(r, answer[m + 1]), answer, m + 1)
  <1> PICK e, q : Is(e, answer[m + 1]) /\ Is(q, Stream!Read(r, e))
    BY DEF Is
  <1>1. /\ m + 1 \in Nat /\ m + 1 \in 1 .. Len(answer) /\ (m + 1) - 1 = m
        /\ Len(answer) \in Nat
    BY LenProperties DEF Answers
  <1>2. /\ e \in Written /\ e.at = m + 1 /\ Proper(answer, m + 1) /\ e = answer[m + 1]
        /\ e.kind \in AboutBlocks => e.block \in Blocks
    BY <1>1, AnswerLine DEF Is
  <1>3. r \in Readers /\ q \in Readers
    BY <1>2, ReadTyped DEF HasRead, Is
  <1>4. /\ r.steps \in Seq(Steps) /\ r.calls \in Nat /\ r.opened \in [Blocks -> Nat]
        /\ r.json \in [Blocks -> Seq(Nat)]
    BY <1>3 DEF Readers
  <1>5. CASE r.error
    <2>1. q = r
      BY <1>5 DEF Stream!Read, Is
    <2> QED BY <1>3, <1>5, <2>1 DEF HasRead, Is
  <1>6. CASE ~r.error
    <2>1. /\ r.steps = Stream!Meaning(answer, m) /\ r.calls = Cardinality(CallsOf(answer, m))
          /\ \A b \in Blocks : Held(r, answer, b, m)
      BY <1>6 DEF HasRead
    <2>2. Stream!Meaning(answer, m + 1) = r.steps \o Stream!Said(answer, m + 1)
      BY <2>1, MeaningMore
    <2>3. Cardinality(CallsOf(answer, m + 1)) = r.calls + (IF e.kind = "call" THEN 1 ELSE 0)
      BY <1>2, <2>1, CallsOfMore
    <2>4. ASSUME NEW b \in Blocks, e.block = b => e.kind \notin AboutBlocks,
                 q.opened[b] = r.opened[b], q.json[b] = r.json[b]
          PROVE  Held(q, answer, b, m + 1)
      <3>1. Held(r, answer, b, m) /\ r.opened[b] \in Nat
        BY <1>4, <2>1
      <3>2. answer[m + 1].block = b => answer[m + 1].kind \notin AboutBlocks
        BY <1>2, <2>4
      <3> QED BY ONLY <3>1, <3>2, <2>4, HeldOn, m \in Nat
    <2>5. ASSUME NEW s PROVE Append(r.steps, s) = r.steps \o <<s>>
      <3> PICK K : Is(K, Steps \cup {s})
        BY DEF Is
      <3>1. Steps \subseteq K /\ s \in K
        BY DEF Is
      <3>2. r.steps \in Seq(K)
        BY <1>4, <3>1, SeqMonotonic
      <3> QED BY <3>1, <3>2, AppendIsConcat
    <2>6. ASSUME Stream!Said(answer, m + 1) = <<>> PROVE Stream!Meaning(answer, m + 1) = r.steps
      BY <1>4, <2>2, <2>6, ConcatEmptySeq
    <2>7. CASE e.kind = "text"
      <3>1. q = [r EXCEPT !.steps = Append(@, Stream!Token(e))]
        BY <1>6, <2>7 DEF Stream!Read, Is
      <3>2. q.steps = Append(r.steps, Stream!Token(e)) /\ q.calls = r.calls /\ q.opened = r.opened /\ q.json = r.json
        BY <1>3, <3>1 DEF Readers
      <3>3. Stream!Said(answer, m + 1) = <<Stream!Token(e)>>
        BY <1>1, <1>2, <2>7, SaidOther
      <3>4. \A b \in Blocks : Held(q, answer, b, m + 1)
        BY <2>4, <2>7, <3>2 DEF AboutBlocks
      <3>5. q.steps = Stream!Meaning(answer, m + 1)
        BY <2>2, <2>5, <3>2, <3>3
      <3> QED BY <1>3, <1>4, <2>3, <2>7, <3>2, <3>4, <3>5 DEF HasRead, Is
    <2>8. CASE e.kind = "call"
      <3> PICK c : Is(c, Stream!Call(e.at, <<>>, r.calls + 1))
        BY DEF Is
      <3>1. q = [r EXCEPT !.calls = @ + 1, !.steps = Append(@, c)]
        BY <1>6, <2>8 DEF Stream!Read, Stream!Whole, Is
      <3>2. q.steps = Append(r.steps, c) /\ q.calls = r.calls + 1 /\ q.opened = r.opened /\ q.json = r.json
        BY <1>3, <3>1 DEF Readers
      <3>3. Stream!Said(answer, m + 1) = <<c>>
        BY <1>1, <1>2, <2>1, <2>8, SaidOther DEF Is
      <3>4. \A b \in Blocks : Held(q, answer, b, m + 1)
        BY <2>4, <2>8, <3>2 DEF AboutBlocks
      <3>5. q.steps = Stream!Meaning(answer, m + 1)
        BY <2>2, <2>5, <3>2, <3>3
      <3> QED BY <1>3, <1>4, <2>3, <2>8, <3>2, <3>4, <3>5 DEF HasRead, Is
    <2>9. CASE e.kind = "tool"
      <3> PICK b \in Blocks : b = e.block
        BY <1>2, <2>9 DEF AboutBlocks
      <3>1. q = [r EXCEPT !.opened[b] = m + 1]
        BY <1>2, <1>6, <2>9 DEF Stream!Read, Stream!Started, Is
      <3>2. /\ q.steps = r.steps /\ q.calls = r.calls /\ q.json = r.json
            /\ q.opened = [r.opened EXCEPT ![b] = m + 1]
        BY <1>3, <3>1 DEF Readers
      <3>3. Stream!Said(answer, m + 1) = <<>>
        BY <1>1, <1>2, <2>9, SaidOther
      <3>4. r.opened[b] = 0 /\ r.json[b] = <<>>
        <4>1. ~(\E s \in 1 .. m : Running(answer, b, s, m))
          BY <1>1, <1>2, <2>9 DEF Proper
        <4>2. r.opened[b] # 0 => r.opened[b] \in 1 .. m /\ Running(answer, b, r.opened[b], m)
          BY <2>1 DEF Held, Running
        <4>3. r.opened[b] = 0
          BY <4>1, <4>2
        <4> QED BY <2>1, <4>3 DEF Held
      <3>5. ASSUME NEW c \in Blocks PROVE Held(q, answer, c, m + 1)
        <4>1. CASE c = b
          <5>1. q.opened[b] = m + 1 /\ q.json[b] = <<>>
            BY <1>4, <3>2, <3>4
          <5>2. Running(answer, b, m + 1, m + 1)
            BY <1>2, <2>9, RunningMore
          <5>3. Stream!Inputs(answer, b, m + 1, m + 1) = <<>>
            BY <1>1, InputsNone
          <5>4. m + 1 # 0
            OBVIOUS
          <5> QED BY <4>1, <5>1, <5>2, <5>3, <5>4 DEF Held
        <4>2. CASE c # b
          BY <1>4, <2>4, <3>2, <4>2
        <4> QED BY <4>1, <4>2
      <3> QED BY <1>3, <1>4, <2>1, <2>3, <2>6, <2>9, <3>2, <3>3, <3>5 DEF HasRead, Is
    <2>10. CASE e.kind = "json"
      <3> PICK b \in Blocks : b = e.block
        BY <1>2, <2>10 DEF AboutBlocks
      <3>1. q = [r EXCEPT !.json[b] = Append(@, m + 1)]
        BY <1>2, <1>6, <2>10 DEF Stream!Read, Stream!Fragment, Is
      <3>2. /\ q.steps = r.steps /\ q.calls = r.calls /\ q.opened = r.opened
            /\ q.json = [r.json EXCEPT ![b] = Append(r.json[b], m + 1)]
        BY <1>3, <3>1 DEF Readers
      <3>3. Stream!Said(answer, m + 1) = <<>>
        BY <1>1, <1>2, <2>10, SaidOther
      <3> PICK o : o = r.opened[b]
        OBVIOUS
      <3>4. /\ o # 0 /\ o \in 1 .. m /\ Running(answer, b, o, m)
            /\ r.json[b] = Stream!Inputs(answer, b, o, m)
        <4>1. \E s \in 1 .. m : Running(answer, b, s, m)
          BY <1>1, <1>2, <2>10 DEF Proper
        <4> QED BY <2>1, <4>1 DEF Held, Running
      <3>5. ASSUME NEW c \in Blocks PROVE Held(q, answer, c, m + 1)
        <4>1. CASE c = b
          <5>1. q.opened[b] = o /\ q.json[b] = Append(Stream!Inputs(answer, b, o, m), m + 1)
            BY <1>4, <3>2, <3>4
          <5>2. Running(answer, b, o, m + 1)
            <6>1. e.kind \notin {"tool", "prose", "stop"}
              BY <2>10
            <6> QED BY <1>2, <3>4, <6>1, RunningMore
          <5>3. Stream!Inputs(answer, b, o, m + 1) = Append(Stream!Inputs(answer, b, o, m), m + 1)
            <6>1. m + 1 > o /\ o \in Nat /\ answer[m + 1].block = b /\ answer[m + 1].kind = "json"
              BY <1>2, <2>10, <3>4
            <6> QED BY <6>1, InputsMore
          <5> QED BY <3>4, <4>1, <5>1, <5>2, <5>3 DEF Held
        <4>2. CASE c # b
          BY <1>4, <2>4, <3>2, <4>2
        <4> QED BY <4>1, <4>2
      <3> QED BY <1>3, <1>4, <2>1, <2>3, <2>6, <2>10, <3>2, <3>3, <3>5 DEF HasRead, Is
    <2>11. CASE e.kind = "prose"
      <3> PICK b \in Blocks : b = e.block
        BY <1>2, <2>11 DEF AboutBlocks
      <3>1. q = r
        BY <1>6, <2>11 DEF Stream!Read, Is
      <3>2. Stream!Said(answer, m + 1) = <<>>
        BY <1>1, <1>2, <2>11, SaidOther
      <3>3. r.opened[b] = 0 /\ r.json[b] = <<>>
        <4>1. ~(\E s \in 1 .. m : Running(answer, b, s, m))
          BY <1>1, <1>2, <2>11 DEF Proper
        <4>2. r.opened[b] # 0 => r.opened[b] \in 1 .. m /\ Running(answer, b, r.opened[b], m)
          BY <2>1 DEF Held, Running
        <4>3. r.opened[b] = 0
          BY <4>1, <4>2
        <4> QED BY <2>1, <4>3 DEF Held
      <3>4. ASSUME NEW c \in Blocks PROVE Held(q, answer, c, m + 1)
        <4>1. CASE c = b
          BY <1>2, <2>11, <3>1, <3>3, <4>1, HeldNot
        <4>2. CASE c # b
          BY <2>4, <3>1, <4>2
        <4> QED BY <4>1, <4>2
      <3> QED BY <1>3, <1>4, <2>1, <2>3, <2>6, <2>11, <3>1, <3>2, <3>4 DEF HasRead, Is
    <2>12. CASE e.kind = "stop"
      <3> PICK b \in Blocks : b = e.block
        BY <1>2, <2>12 DEF AboutBlocks
      <3> PICK s \in 1 .. m : /\ answer[s].kind \in {"tool", "prose"} /\ answer[s].block = b
                              /\ Quiet(answer, b, s, m)
        BY <1>1, <1>2, <2>12 DEF Proper
      <3>1. Stream!Said(answer, m + 1) =
              IF answer[s].kind = "tool" THEN <<Stream!Call(s, Stream!Inputs(answer, b, s, m + 1), s)>> ELSE <<>>
        BY <1>1, <1>2, <2>12, SaidStop
      <3>2. q = IF r.opened[b] = 0 THEN r
                ELSE [r EXCEPT !.steps = Append(@, Stream!Call(r.opened[b], r.json[b], r.opened[b])),
                               !.opened[b] = 0, !.json[b] = <<>>]
        BY <1>6, <2>12 DEF Stream!Read, Stream!Stopped, Is
      <3>3. CASE r.opened[b] = 0
        <4>1. answer[s].kind # "tool"
          BY <2>1, <3>3 DEF Held, Running
        <4>2. q = r /\ Stream!Said(answer, m + 1) = <<>>
          BY <3>1, <3>2, <3>3, <4>1
        <4>3. ASSUME NEW c \in Blocks PROVE Held(q, answer, c, m + 1)
          <5>1. CASE c = b
            <6>1. r.json[b] = <<>>
              BY <2>1, <3>3 DEF Held
            <6> QED BY <1>2, <2>12, <3>3, <4>2, <5>1, <6>1, HeldNot
          <5>2. CASE c # b
            BY <2>4, <4>2, <5>2
          <5> QED BY <5>1, <5>2
        <4> QED BY <1>3, <1>4, <2>1, <2>3, <2>6, <2>12, <4>2, <4>3 DEF HasRead, Is
      <3>4. CASE r.opened[b] # 0
        <4> PICK o : o = r.opened[b]
          OBVIOUS
        <4>1. o \in 1 .. m /\ Running(answer, b, o, m) /\ r.json[b] = Stream!Inputs(answer, b, o, m)
          BY <2>1, <3>4 DEF Held, Running
        <4>2. s = o
          <5>1. answer[s].kind \in {"tool", "prose", "stop"} /\ answer[o].kind = "tool"
                /\ answer[o].block = b /\ Quiet(answer, b, o, m)
            BY <4>1 DEF Running
          <5>2. CASE s < o
            <6>1. o \in (s + 1) .. m
              BY <4>1, <5>2
            <6> QED BY <5>1, <6>1 DEF Quiet
          <5>3. CASE o < s
            <6>1. s \in (o + 1) .. m
              BY <4>1, <5>3
            <6> QED BY <5>1, <6>1 DEF Quiet
          <5> QED BY <4>1, <5>2, <5>3
        <4> PICK w : Is(w, Stream!Call(o, r.json[b], o))
          BY DEF Is
        <4>3. Stream!Said(answer, m + 1) = <<w>>
          <5>1. Stream!Inputs(answer, b, o, m + 1) = r.json[b]
            <6>1. answer[m + 1].kind # "json" /\ o \in Nat
              BY <1>2, <2>12, <4>1
            <6> QED BY <4>1, <6>1, InputsMore, ZenonT(30)
          <5> QED BY <3>1, <4>1, <4>2, <5>1 DEF Running, Is
        <4>4. /\ q.steps = Append(r.steps, w) /\ q.calls = r.calls
              /\ q.opened = [r.opened EXCEPT ![b] = 0] /\ q.json = [r.json EXCEPT ![b] = <<>>]
          BY <1>3, <3>2, <3>4 DEF Readers, Is
        <4>5. ASSUME NEW c \in Blocks PROVE Held(q, answer, c, m + 1)
          <5>1. CASE c = b
            <6>1. q.opened[b] = 0 /\ q.json[b] = <<>>
              BY <1>4, <4>4
            <6> QED BY <1>2, <2>12, <5>1, <6>1, HeldNot
          <5>2. CASE c # b
            BY <1>4, <2>4, <4>4, <5>2
          <5> QED BY <5>1, <5>2
        <4>6. q.steps = Stream!Meaning(answer, m + 1)
          BY <2>2, <2>5, <4>3, <4>4, ZenonT(30)
        <4> QED BY <1>3, <1>4, <2>3, <2>12, <4>4, <4>5, <4>6 DEF HasRead, Is
      <3> QED BY <3>3, <3>4
    <2>13. CASE e.kind \in {"noise", "error"}
      <3>1. q = r \/ q = [r EXCEPT !.error = TRUE]
        BY <1>6, <2>13 DEF Stream!Read, Stream!Reported, Is
      <3>2. q.steps = r.steps /\ q.calls = r.calls /\ q.opened = r.opened /\ q.json = r.json
        BY <1>3, <3>1 DEF Readers
      <3>3. Stream!Said(answer, m + 1) = <<>>
        BY <1>1, <1>2, <2>13, SaidOther
      <3>4. \A b \in Blocks : Held(q, answer, b, m + 1)
        BY <2>4, <2>13, <3>2 DEF AboutBlocks
      <3> QED BY <1>3, <1>4, <2>1, <2>3, <2>6, <2>13, <3>2, <3>3, <3>4 DEF HasRead, Is
    <2>14. e.kind \in LineKinds
      BY <1>2 DEF Written
    <2> QED BY <2>7, <2>8, <2>9, <2>10, <2>11, <2>12, <2>13, <2>14 DEF LineKinds
  <1> QED BY <1>5, <1>6

-----------------------------------------------------------------------------
(* A chunk.                                                                 *)

LEMMA Halves ==
    ASSUME NEW m \in Nat
    PROVE  /\ m % 2 \in {0, 1} /\ m \div 2 \in Nat /\ m = 2 * (m \div 2) + (m % 2)
           /\ m % 2 = 0 => (m + 1) % 2 = 1 /\ (m + 1) \div 2 = m \div 2
           /\ m % 2 = 1 => (m + 1) % 2 = 0 /\ (m + 1) \div 2 = (m \div 2) + 1
  OBVIOUS

Readings == [left : Seq(Nat), reader : Readers]

Feeds == [st \in Readings |-> [p \in 1 .. 2 * Len(written) |-> Stream!Fed(st, p)]]

LEMMA WholeLine ==
    ASSUME written \in Answers, NEW p \in 1 .. 2 * Len(written), p % 2 = 0
    PROVE  /\ p \div 2 \in 1 .. Len(written) /\ written[p \div 2] \in Written
           /\ written[p \div 2].at = p \div 2
  <1>1. Len(written) \in Nat
    BY LenProperties DEF Answers
  <1>2. p \in Nat /\ p = 2 * (p \div 2) /\ p \div 2 \in Nat
    BY <1>1, Halves
  <1>3. p \div 2 \in 1 .. Len(written)
    BY <1>1, <1>2
  <1> QED BY <1>3, AnswerLine

LEMMA FedTyped ==
    ASSUME written \in Answers, NEW st \in Readings, NEW p \in 1 .. 2 * Len(written)
    PROVE  Stream!Fed(st, p) \in Readings
  <1>1. p \in Nat /\ st.left \in Seq(Nat) /\ st.reader \in Readers
    BY LenProperties DEF Answers, Readings
  <1>2. CASE p % 2 = 1
    <2> PICK l : Is(l, Append(st.left, p))
      BY DEF Is
    <2>1. l \in Seq(Nat)
      BY <1>1, AppendProperties DEF Is
    <2>2. Stream!Fed(st, p) = [st EXCEPT !.left = l]
      BY <1>2 DEF Stream!Fed, Is
    <2> QED BY <2>1, <2>2 DEF Readings
  <1>3. CASE p % 2 # 1
    <2>1. p % 2 = 0
      BY <1>1, <1>3, Halves
    <2> PICK q : Is(q, IF Stream!Legible(st.left, written[p \div 2])
                       THEN Stream!Read(st.reader, written[p \div 2]) ELSE st.reader)
      BY DEF Is
    <2>2. q \in Readers
      BY <1>1, <2>1, WholeLine, ReadTyped DEF Is
    <2>3. Stream!Fed(st, p) = [left |-> <<>>, reader |-> q]
      BY <1>3 DEF Stream!Fed, Is
    <2> QED BY <2>2, <2>3, EmptySeq DEF Readings
  <1> QED BY <1>2, <1>3

LEMMA FedTrace ==
    ASSUME written \in Answers, NEW b \in Readings, NEW s \in Seq(1 .. 2 * Len(written))
    PROVE  EndsAt(Stream!FoldLeft(Stream!Fed, b, s), Readings, b, Feeds, s)
  <1> PICK F, B : Is(F, Feeds) /\ Is(B, 1 .. 2 * Len(written))
    BY DEF Is
  <1>1. F \in [Readings -> [B -> Readings]]
    BY FedTyped DEF Feeds, Is
  <1>2. s \in Seq(B) /\ DOMAIN s = 1 .. Len(s) /\ Len(s) \in Nat /\ \A i \in 1 .. Len(s) : s[i] \in B
    BY LenProperties, ElementOfSeq DEF Is
  <1>3. \A t \in SUBSET (1 .. Len(s)) : t # {} => s[Greatest(t)] \in B
    BY <1>2, GreatestIndex
  <1> DEFINE
        Op(st, p) == Stream!Fed(st, p)
        Step(g, t) == IF t = {} THEN b ELSE Op(g[t \ {Stream!Max(t)}], s[Stream!Max(t)])
        iter == CHOOSE g : g = [t \in SUBSET (1 .. Len(s)) |-> Step(g, t)]
  <1>4. Stream!FoldLeft(Stream!Fed, b, s) = iter[1 .. Len(s)]
    BY <1>2 DEF Stream!FoldLeft, Stream!MapThenFoldSet
  <1> PICK g \in [SUBSET (1 .. Len(s)) -> Readings] :
         \A t \in SUBSET (1 .. Len(s)) : Folds(g, b, F, s, t)
    BY <1>1, <1>2, FoldExists
  <1>6. \A r \in Readings, d \in B : F[r][d] = Op(r, d)
    BY DEF Feeds, Is
  <1> HIDE DEF Op
  <1>7. ASSUME NEW t \in SUBSET (1 .. Len(s)) PROVE g[t] = Step(g, t)
    <2>1. t # {} => g[t \ {Greatest(t)}] \in Readings
      OBVIOUS
    <2> QED BY <1>3, <1>6, <2>1, SameMax DEF Folds
  <1>8. g = [t \in SUBSET (1 .. Len(s)) |-> Step(g, t)]
    BY <1>7
  <1>9. iter = [t \in SUBSET (1 .. Len(s)) |-> Step(iter, t)]
    BY <1>8
  <1> HIDE DEF iter
  <1>10. ASSUME NEW t \in SUBSET (1 .. Len(s)) PROVE Stepped(iter, Readings, b, F, s, t)
    <2>1. iter[t] = Step(iter, t)
      BY ONLY <1>9, t \in SUBSET (1 .. Len(s))
    <2> QED BY <1>3, <1>6, <2>1, SameMax DEF Stepped
  <1>11. EndsAt(iter[1 .. Len(s)], Readings, b, F, s)
    <2>1. Iterates(iter, Readings, B, b, F, s)
      BY <1>1, <1>2, <1>10 DEF Iterates
    <2> QED BY <2>1, FoldTraces
  <1> QED BY <1>4, <1>11 DEF Is

Buffered(m) == IF m % 2 = 1 THEN <<m>> ELSE <<>>

\* The reader has taken the first m pieces.
Took(st, m) ==
    st \in Readings /\ st.left = Buffered(m) /\ HasRead(st.reader, written, m \div 2)

LEMMA TookOne ==
    ASSUME written \in Answers, NEW m \in Nat, m + 1 \in 1 .. 2 * Len(written), NEW st, Took(st, m)
    PROVE  Took(Stream!Fed(st, m + 1), m + 1)
  <1> PICK q : Is(q, Stream!Fed(st, m + 1))
    BY DEF Is
  <1>1. st \in Readings /\ st.left = Buffered(m) /\ HasRead(st.reader, written, m \div 2)
    BY DEF Took
  <1>2. q \in Readings
    BY <1>1, FedTyped DEF Is
  <1>3. CASE m % 2 = 0
    <2>1. (m + 1) % 2 = 1 /\ (m + 1) \div 2 = m \div 2
      BY <1>3, Halves
    <2>2. st.left = <<>>
      BY <1>1, <1>3 DEF Buffered
    <2>3. q = [st EXCEPT !.left = Append(<<>>, m + 1)]
      BY <2>1, <2>2 DEF Stream!Fed, Is
    <2>4. Append(<<>>, m + 1) = <<m + 1>>
      OBVIOUS
    <2>5. q.left = <<m + 1>> /\ q.reader = st.reader
      BY <1>1, <2>3, <2>4 DEF Readings
    <2>6. Buffered(m + 1) = <<m + 1>>
      BY <2>1 DEF Buffered
    <2> QED BY <1>1, <1>2, <2>1, <2>5, <2>6 DEF Took, Is
  <1>4. CASE m % 2 # 0
    <2>1. /\ m % 2 = 1 /\ (m + 1) % 2 = 0 /\ (m + 1) \div 2 = (m \div 2) + 1
          /\ m = 2 * (m \div 2) + 1 /\ m \div 2 \in Nat
      BY <1>4, Halves
    <2> PICK h : h = m \div 2
      OBVIOUS
    <2>2. /\ h \in Nat /\ h + 1 <= Len(written) /\ written[h + 1].at = h + 1
      <3>1. (m + 1) \div 2 = h + 1
        BY <2>1
      <3> QED BY <2>1, <3>1, WholeLine
    <2>3. st.left = <<m>>
      BY <1>1, <2>1 DEF Buffered
    <2>4. Stream!Legible(st.left, written[h + 1])
      <3>1. 1 \in DOMAIN st.left /\ st.left[1] = m
        BY <2>3
      <3>2. m = 2 * written[h + 1].at - 1
        BY <2>1, <2>2
      <3> QED BY <3>1, <3>2 DEF Stream!Legible
    <2>5. q = [left |-> <<>>, reader |-> Stream!Read(st.reader, written[h + 1])]
      <3>1. (m + 1) % 2 # 1 /\ (m + 1) \div 2 = h + 1
        BY <2>1
      <3> QED BY <2>4, <3>1 DEF Stream!Fed, Is
    <2>6. HasRead(Stream!Read(st.reader, written[h + 1]), written, h + 1)
      BY <1>1, <2>2, ReadLine
    <2>7. q.left = <<>> /\ q.reader = Stream!Read(st.reader, written[h + 1])
      BY <2>5
    <2>8. Buffered(m + 1) = <<>>
      BY <2>1 DEF Buffered
    <2> QED BY <1>2, <2>1, <2>6, <2>7, <2>8 DEF Took, Is
  <1> QED BY <1>3, <1>4

\* A chunk of any number of pieces.
LEMMA TookMany ==
    ASSUME written \in Answers, NEW from \in Nat, NEW to \in Nat, from <= to, to <= 2 * Len(written),
           NEW st, Took(st, from)
    PROVE  Took(Stream!FoldLeft(Stream!Fed, st, Stream!Pieces(from, to)), to)
  <1> PICK s, F, B, r : /\ Is(s, Stream!Pieces(from, to)) /\ Is(F, Feeds) /\ Is(B, 1 .. 2 * Len(written))
                        /\ Is(r, Stream!FoldLeft(Stream!Fed, st, s))
    BY DEF Is
  <1>1. Len(written) \in Nat
    BY LenProperties DEF Answers
  <1>2. s \in Seq(B) /\ Len(s) = to - from /\ \A i \in 1 .. (to - from) : s[i] = from + i
    <2>1. to - from \in Nat /\ \A i \in 1 .. (to - from) : from + i \in 1 .. 2 * Len(written)
      BY <1>1
    <2>2. s \in [1 .. (to - from) -> B] /\ \A i \in 1 .. (to - from) : s[i] = from + i
      BY <2>1 DEF Stream!Pieces, Is
    <2> QED BY <2>1, <2>2, SeqDef, LenProperties
  <1>3. st \in Readings
    BY DEF Took
  <1>4. EndsAt(r, Readings, st, F, s)
    BY <1>2, <1>3, FedTrace DEF Is
  <1> DEFINE P == {p \in Nat \X Readings : Took(p[2], from + p[1])}
  <1>5. <<0, st>> \in P
    BY <1>3
  <1>6. ASSUME NEW k \in Nat, NEW v \in Readings, k + 1 \in 1 .. Len(s), <<k, v>> \in P
        PROVE  <<k + 1, F[v][s[k + 1]]>> \in P
    <2>1. /\ s[k + 1] = from + (k + 1) /\ from + (k + 1) = (from + k) + 1 /\ from + k \in Nat
          /\ k + 1 \in Nat
      BY <1>2, <1>6
    <2>2. F[v][s[k + 1]] = Stream!Fed(v, s[k + 1])
      <3>1. s[k + 1] \in B
        BY <1>2, <1>6, ElementOfSeq
      <3> QED BY <3>1 DEF Feeds, Is
    <2>3. Took(v, from + k) /\ (from + k) + 1 \in 1 .. 2 * Len(written)
      <3>1. (from + k) + 1 <= to
        BY <1>2, <1>6, <2>1
      <3>2. (from + k) + 1 \in 1 .. 2 * Len(written)
        BY ONLY <1>1, <2>1, <3>1, to \in Nat, to <= 2 * Len(written)
      <3> QED BY <1>6, <3>2
    <2>4. Took(Stream!Fed(v, (from + k) + 1), (from + k) + 1)
      BY <2>1, <2>3, TookOne
    <2>5. Stream!Fed(v, (from + k) + 1) \in Readings
      BY <2>4 DEF Took
    <2> QED BY <2>1, <2>2, <2>4, <2>5
  <1>7. <<Len(s), r>> \in P
    <2> HIDE DEF P
    <2>1. Preserves(P, Readings, F, s)
      BY <1>6 DEF Preserves
    <2> QED BY ONLY <1>2, <1>4, <1>5, <2>1, FoldInduction
  <1>8. Took(r, to)
    <2>1. Took(r, from + Len(s)) /\ from + Len(s) = to
      BY <1>2, <1>7
    <2> QED BY <2>1
  <1> QED BY <1>8 DEF Is

-----------------------------------------------------------------------------
(* The server.                                                              *)

\* What the answer says of a block's state, and of a line, is about its lines so
\* far.
LEMMA RunningSame ==
    ASSUME NEW answer, NEW other, NEW b, NEW m \in Nat, \A k \in 1 .. m : answer[k] = other[k]
    PROVE  \A s \in 1 .. m :
             /\ Quiet(answer, b, s, m) <=> Quiet(other, b, s, m)
             /\ Running(answer, b, s, m) <=> Running(other, b, s, m)
  <1>1. \A s \in 1 .. m : \A k \in (s + 1) .. m : k \in 1 .. m
    OBVIOUS
  <1> QED BY <1>1 DEF Quiet, Running

LEMMA StateMeans ==
    ASSUME NEW answer \in Seq(Written), NEW b
    PROVE  /\ Stream!State(answer, b) \in {"stop", "tool", "prose"}
           /\ Stream!State(answer, b) = "stop" =>
                \A s \in 1 .. Len(answer) : ~Running(answer, b, s, Len(answer))
           /\ Stream!State(answer, b) # "stop" =>
                \E s \in 1 .. Len(answer) : /\ answer[s].kind = Stream!State(answer, b)
                                            /\ answer[s].block = b
                                            /\ Quiet(answer, b, s, Len(answer))
  <1>1. Len(answer) \in Nat /\ DOMAIN answer = 1 .. Len(answer)
    BY LenProperties
  <1> DEFINE about == {i \in 1 .. Len(answer) :
                         answer[i].block = b /\ answer[i].kind \in {"tool", "prose", "stop"}}
             last == CHOOSE i \in about : \A j \in about : j <= i
  <1>2. Stream!State(answer, b) = IF about = {} THEN "stop" ELSE answer[last].kind
    BY <1>1 DEF Stream!State, Stream!OpenKinds
  <1>3. CASE about = {}
    BY <1>2, <1>3 DEF Running
  <1>4. CASE about # {}
    <2>1. last \in about /\ \A j \in about : j <= last
      <3>1. \E i \in about : \A j \in about : i >= j
        <4>1. about \in SUBSET (1 .. Len(answer))
          OBVIOUS
        <4> HIDE DEF about
        <4> QED BY ONLY <1>1, <1>4, <4>1, Extremes
      <3>2. \E i \in about : \A j \in about : j <= i
        BY <3>1
      <3> HIDE DEF about
      <3> QED BY <3>2
    <2>2. Stream!State(answer, b) = answer[last].kind
      BY <1>2, <1>4
    <2> HIDE DEF last
    <2>3. Quiet(answer, b, last, Len(answer))
      BY <1>1, <2>1 DEF Quiet
    <2>4. ASSUME answer[last].kind = "stop", NEW s \in 1 .. Len(answer), Running(answer, b, s, Len(answer))
          PROVE  FALSE
      <3>1. s \in about /\ s # last /\ s <= last
        BY <2>1, <2>4 DEF Running
      <3>2. last \in (s + 1) .. Len(answer)
        BY <1>1, <2>1, <3>1
      <3> QED BY <2>1, <2>4, <3>2 DEF Running, Quiet
    <2> QED BY <2>1, <2>2, <2>3, <2>4
  <1> QED BY <1>3, <1>4

LEMMA ProperSame ==
    ASSUME NEW answer, NEW other, NEW i \in Nat \ {0}, \A k \in 1 .. i : answer[k] = other[k], Proper(answer, i)
    PROVE  Proper(other, i)
  <1>1. i - 1 \in Nat /\ i \in 1 .. i /\ \A k \in 1 .. (i - 1) : k \in 1 .. i
    OBVIOUS
  <1>2. answer[i] = other[i] /\ \A k \in 1 .. (i - 1) : answer[k] = other[k]
    BY <1>1
  <1> PICK b, m : b = answer[i].block /\ m = i - 1
    OBVIOUS
  <1>3. \A s \in 1 .. m :
             /\ Quiet(answer, b, s, m) <=> Quiet(other, b, s, m)
             /\ Running(answer, b, s, m) <=> Running(other, b, s, m)
    <2>1. m \in Nat /\ \A k \in 1 .. m : answer[k] = other[k]
      BY <1>1, <1>2
    <2> QED BY ONLY <2>1, RunningSame
  <1>4. \A s \in 1 .. m : answer[s] = other[s]
    BY <1>2
  <1> QED BY <1>2, <1>3, <1>4 DEF Proper

\* One more line.
LEMMA AnswersMore ==
    ASSUME NEW answer \in Answers, NEW line \in Written, line.at = Len(answer) + 1,
           line.kind \in {"tool", "prose"} => Stream!State(answer, line.block) = "stop",
           line.kind = "json" => Stream!State(answer, line.block) = "tool",
           line.kind = "stop" => Stream!State(answer, line.block) # "stop"
    PROVE  Append(answer, line) \in Answers
  <1> PICK u, m : Is(u, Append(answer, line)) /\ m = Len(answer)
    BY DEF Is
  <1>1. /\ u \in Seq(Written) /\ Len(u) = m + 1 /\ u[m + 1] = line /\ m \in Nat
        /\ \A i \in 1 .. m : u[i] = answer[i]
        /\ \A i \in 1 .. m + 1 : i = m + 1 \/ i \in 1 .. m
    <2>1. answer \in Seq(Written) /\ u = Append(answer, line)
      BY DEF Answers, Is
    <2> QED BY <2>1, Grown
  <1>2. ASSUME NEW i \in 1 .. m PROVE Proper(u, i)
    <2>1. Proper(answer, i) /\ i \in Nat \ {0}
      BY <1>1 DEF Answers
    <2>2. \A k \in 1 .. i : answer[k] = u[k]
      BY <1>1
    <2> QED BY <2>1, <2>2, ProperSame
  <1>3. Proper(u, m + 1)
    <2> PICK b, st : Is(b, line.block) /\ Is(st, Stream!State(answer, line.block))
      BY DEF Is
    <2>1. /\ st \in {"stop", "tool", "prose"}
          /\ st = "stop" => \A s \in 1 .. m : ~Running(answer, b, s, m)
          /\ st # "stop" => \E s \in 1 .. m : /\ answer[s].kind = st /\ answer[s].block = b
                                              /\ Quiet(answer, b, s, m)
      <3>1. answer \in Seq(Written)
        BY DEF Answers
      <3> QED BY <3>1, StateMeans DEF Is
    <2>2. \A s \in 1 .. m : /\ u[s] = answer[s]
                            /\ Quiet(answer, b, s, m) <=> Quiet(u, b, s, m)
                            /\ Running(answer, b, s, m) <=> Running(u, b, s, m)
      BY ONLY <1>1, RunningSame
    <2>3. (m + 1) - 1 = m
      BY <1>1
    <2>4. line.kind \in {"tool", "prose"} => ~(\E s \in 1 .. m : Running(u, b, s, m))
      BY <2>1, <2>2 DEF Is
    <2>5. line.kind = "json" => \E s \in 1 .. m : Running(u, b, s, m)
      BY <2>1, <2>2 DEF Is, Running
    <2>6. line.kind = "stop" =>
            \E s \in 1 .. m : /\ u[s].kind \in {"tool", "prose"} /\ u[s].block = b
                              /\ Quiet(u, b, s, m)
      BY <2>1, <2>2 DEF Is
    <2> QED BY <1>1, <2>3, <2>4, <2>5, <2>6 DEF Proper, Is
  <1>4. u \in Answers
    BY <1>1, <1>2, <1>3 DEF Answers
  <1> QED BY <1>4 DEF Is

LEMMA HasReadSame ==
    ASSUME NEW answer \in Answers, NEW line \in Written, NEW m \in Nat, m <= Len(answer),
           NEW r, HasRead(r, answer, m)
    PROVE  HasRead(r, Append(answer, line), m)
  <1> PICK u : Is(u, Append(answer, line))
    BY DEF Is
  <1>1. \A k \in 1 .. m : answer[k] = u[k]
    <2>1. answer \in Seq(Written) /\ Len(answer) \in Nat
      BY LenProperties DEF Answers
    <2>2. \A k \in 1 .. Len(answer) : u[k] = answer[k]
      BY <2>1, AppendProperties DEF Is
    <2> QED BY <2>1, <2>2
  <1>2. Stream!Meaning(answer, m) = Stream!Meaning(u, m)
    BY <1>1, MeaningSame
  <1>3. CallsOf(answer, m) = CallsOf(u, m)
    BY <1>1 DEF CallsOf
  <1>4. ASSUME NEW b \in Blocks, Held(r, answer, b, m) PROVE Held(r, u, b, m)
    <2>1. \A s \in 1 .. m : Running(answer, b, s, m) <=> Running(u, b, s, m)
      BY ONLY <1>1, RunningSame, m \in Nat
    <2>2. CASE r.opened[b] = 0
      BY <1>4, <2>1, <2>2 DEF Held
    <2>3. CASE r.opened[b] # 0
      <3> PICK o : o = r.opened[b]
        OBVIOUS
      <3>1. o \in 1 .. m /\ Running(answer, b, o, m) /\ r.json[b] = Stream!Inputs(answer, b, o, m)
        BY <1>4, <2>3 DEF Held, Running
      <3>2. Stream!Inputs(answer, b, o, m) = Stream!Inputs(u, b, o, m)
        BY <1>1, <3>1, InputsSame
      <3> QED BY <2>1, <2>3, <3>1, <3>2 DEF Held
    <2> QED BY <2>2, <2>3
  <1>5. HasRead(r, u, m)
    BY <1>2, <1>3, <1>4 DEF HasRead
  <1> QED BY <1>5 DEF Is

StreamInv ==
    /\ written \in Answers
    /\ arrived \in Nat /\ arrived <= 2 * Len(written)
    /\ buf = Buffered(arrived)
    /\ HasRead(parser, written, arrived \div 2)

LEMMA StreamInit == Stream!Init => StreamInv
  <1> SUFFICES ASSUME Stream!Init PROVE StreamInv
    OBVIOUS
  <1>1. written = <<>> /\ arrived = 0 /\ buf = <<>> /\ parser = Stream!NoReader
    BY DEF Stream!Init
  <1>2. <<>> \in Seq(Written) /\ Len(<<>>) = 0 /\ \A i \in 1 .. 0 : FALSE
    BY EmptySeq
  <1>3. written \in Answers /\ Len(written) = 0
    BY <1>1, <1>2 DEF Answers
  <1>4. 0 \div 2 = 0 /\ 0 % 2 # 1 /\ 0 \in Nat /\ 0 <= 2 * 0
    OBVIOUS
  <1>5. parser \in Readers /\ parser.steps = <<>> /\ parser.calls = 0
        /\ \A b \in Blocks : parser.opened[b] = 0 /\ parser.json[b] = <<>>
    <2>1. <<>> \in Seq(Nat) /\ <<>> \in Seq(Steps)
      BY EmptySeq
    <2> QED BY <1>1, <2>1 DEF Stream!NoReader, Readers
  <1>6. HasRead(parser, written, 0)
    <2>1. Stream!Meaning(written, 0) = <<>> /\ Cardinality(CallsOf(written, 0)) = 0
      BY <1>4, MeaningNothing, CallsOfMore
    <2>2. \A b \in Blocks : Held(parser, written, b, 0)
      BY <1>2, <1>5 DEF Held
    <2> QED BY <1>5, <2>1, <2>2 DEF HasRead
  <1> QED BY <1>1, <1>3, <1>4, <1>6 DEF StreamInv, Buffered

\* A line of this kind that the server writes.
LEMMA WriteStep ==
    ASSUME StreamInv, NEW line \in Written, Stream!Write(line), line.at = Len(written) + 1,
           line.kind \in {"tool", "prose"} => Stream!State(written, line.block) = "stop",
           line.kind = "json" => Stream!State(written, line.block) = "tool",
           line.kind = "stop" => Stream!State(written, line.block) # "stop"
    PROVE  StreamInv'
  <1>1. written' = Append(written, line) /\ UNCHANGED <<arrived, buf, parser>>
    BY DEF Stream!Write
  <1>2. written \in Answers /\ Len(written) \in Nat /\ arrived \in Nat /\ arrived <= 2 * Len(written)
    BY LenProperties DEF StreamInv, Answers
  <1>3. written' \in Answers
    BY <1>1, <1>2, AnswersMore
  <1>4. Len(written') = Len(written) + 1
    BY <1>1, <1>2, AppendProperties DEF Answers
  <1>5. arrived \div 2 \in Nat /\ arrived \div 2 <= Len(written)
    BY <1>2, Halves
  <1>6. HasRead(parser, written', arrived \div 2)
    BY <1>1, <1>2, <1>5, HasReadSame DEF StreamInv
  <1> QED BY <1>1, <1>2, <1>3, <1>4, <1>6 DEF StreamInv

LEMMA StreamStep == StreamInv /\ [Stream!Next]_<<dialect, streamVars>> => StreamInv'
  <1> SUFFICES ASSUME StreamInv, [Stream!Next]_<<dialect, streamVars>> PROVE StreamInv'
    OBVIOUS
  <1>0. written \in Answers /\ Len(written) \in Nat /\ arrived \in Nat /\ arrived <= 2 * Len(written)
    BY LenProperties DEF StreamInv, Answers
  <1>1. ASSUME UNCHANGED <<written, arrived, buf, parser>> PROVE StreamInv'
    BY <1>1 DEF StreamInv
  <1>2. CASE Stream!Server
    <2>1. ASSUME NEW k, NEW b, Stream!Write(Stream!Line(k, b)), k \in LineKinds, b \in Blocks \cup {0},
                 k \in AboutBlocks => b \in Blocks,
                 k \in {"tool", "prose"} => Stream!State(written, b) = "stop",
                 k = "json" => Stream!State(written, b) = "tool",
                 k = "stop" => Stream!State(written, b) # "stop"
          PROVE  StreamInv'
      <3> PICK line : Is(line, Stream!Line(k, b))
        BY DEF Is
      <3>1. line.kind = k /\ line.block = b /\ line.at = Len(written) + 1 /\ line \in Written
        BY <1>0, <2>1 DEF Stream!Line, Is, Written
      <3>2. Stream!Write(line)
        BY <2>1 DEF Is
      <3> QED BY <2>1, <3>1, <3>2, WriteStep
    <2>2. CASE Stream!AnthropicWrites
      <3> PICK b \in Blocks :
             \/ Stream!State(written, b) = "stop" /\ \E k \in {"tool", "prose"} : Stream!Write(Stream!Line(k, b))
             \/ Stream!State(written, b) = "prose" /\ Stream!Write(Stream!Line("text", b))
             \/ Stream!State(written, b) = "tool" /\ Stream!Write(Stream!Line("json", b))
             \/ Stream!State(written, b) # "stop" /\ Stream!Write(Stream!Line("stop", b))
        BY <2>2 DEF Stream!AnthropicWrites, Stream!OpenKinds
      <3>1. CASE Stream!State(written, b) = "stop" /\ \E k \in {"tool", "prose"} : Stream!Write(Stream!Line(k, b))
        <4> PICK k \in {"tool", "prose"} : Stream!Write(Stream!Line(k, b))
          BY <3>1
        <4> QED BY <2>1, <3>1 DEF LineKinds, AboutBlocks
      <3>2. CASE Stream!State(written, b) = "prose" /\ Stream!Write(Stream!Line("text", b))
        BY <2>1, <3>2 DEF LineKinds, AboutBlocks
      <3>3. CASE Stream!State(written, b) = "tool" /\ Stream!Write(Stream!Line("json", b))
        BY <2>1, <3>3 DEF LineKinds, AboutBlocks
      <3>4. CASE Stream!State(written, b) # "stop" /\ Stream!Write(Stream!Line("stop", b))
        BY <2>1, <3>4 DEF LineKinds, AboutBlocks
      <3> QED BY <3>1, <3>2, <3>3, <3>4
    <2>3. CASE Stream!OthersWrite
      <3> PICK k \in {"text", "call"} : Stream!Write(Stream!Line(k, 0))
        BY <2>3 DEF Stream!OthersWrite
      <3> QED BY <2>1 DEF LineKinds, AboutBlocks
    <2>4. CASE Stream!NoiseWrites
      BY <2>1, <2>4 DEF Stream!NoiseWrites, LineKinds, AboutBlocks
    <2>5. CASE Stream!ErrorWrites
      BY <2>1, <2>5 DEF Stream!ErrorWrites, LineKinds, AboutBlocks
    <2> QED BY <1>2, <2>2, <2>3, <2>4, <2>5 DEF Stream!Server
  <1>3. CASE Stream!Chunk
    <2> PICK upto \in (arrived + 1) .. (2 * Len(written)), inside \in BOOLEAN :
           \E fed :
             /\ Is(fed, Stream!FoldLeft(Stream!Fed, [left |-> buf, reader |-> parser],
                                        Stream!Pieces(arrived, upto)))
             /\ arrived' = upto /\ buf' = fed.left
             /\ parser' = IF inside THEN Stream!Split(fed.reader, upto) ELSE fed.reader
             /\ UNCHANGED written
      BY <1>3 DEF Stream!Chunk, Is
    <2> PICK fed :
           /\ Is(fed, Stream!FoldLeft(Stream!Fed, [left |-> buf, reader |-> parser],
                                      Stream!Pieces(arrived, upto)))
           /\ arrived' = upto /\ buf' = fed.left
           /\ parser' = IF inside THEN Stream!Split(fed.reader, upto) ELSE fed.reader
           /\ UNCHANGED written
      OBVIOUS
    <2> PICK st : Is(st, [left |-> buf, reader |-> parser])
      BY DEF Is
    <2>1. Took(st, arrived)
      <3>1. st.left = buf /\ st.reader = parser
        BY DEF Is
      <3>2. parser \in Readers /\ buf \in Seq(Nat)
        BY <1>0 DEF StreamInv, HasRead, Buffered
      <3>3. st \in Readings
        BY <3>2 DEF Readings, Is
      <3> QED BY <3>1, <3>3 DEF Took, StreamInv
    <2>2. upto \in Nat /\ arrived <= upto /\ upto <= 2 * Len(written) /\ upto \div 2 \in Nat
          /\ (upto + 1) \div 2 \in Nat
      BY <1>0, Halves
    <2>3. Took(fed, upto)
      BY <1>0, <2>1, <2>2, TookMany DEF Is
    <2>4. HasRead(fed.reader, written, upto \div 2) /\ fed.left = Buffered(upto)
      BY <2>3 DEF Took
    <2>5. HasRead(Stream!Split(fed.reader, upto), written, upto \div 2)
      <3> PICK r, q : Is(r, fed.reader) /\ Is(q, Stream!Split(r, upto))
        BY DEF Is
      <3>0. r \in Readers
        BY <2>4 DEF Is, HasRead
      <3>1. q = r \/ q = [r EXCEPT !.harmed = @ \cup {(upto + 1) \div 2}]
        BY DEF Stream!Split, Is
      <3> PICK w : w = r.harmed \cup {(upto + 1) \div 2}
        OBVIOUS
      <3>2. w \in SUBSET Nat
        BY <2>2, <3>0 DEF Readers
      <3>3. q = r \/ q = [r EXCEPT !.harmed = w]
        BY <3>1
      <3>4. /\ q \in Readers /\ q.error = r.error /\ q.steps = r.steps /\ q.calls = r.calls
            /\ q.opened = r.opened /\ q.json = r.json
        BY <3>0, <3>2, <3>3 DEF Readers
      <3>5. HasRead(r, written, upto \div 2)
        BY <2>4 DEF Is
      <3>6. HasRead(q, written, upto \div 2)
        BY <3>4, <3>5 DEF HasRead, Held
      <3> QED BY <3>6 DEF Is
    <2>6. HasRead(parser', written, upto \div 2)
      BY <2>4, <2>5
    <2> QED BY <1>0, <2>2, <2>4, <2>6 DEF StreamInv
  <1>4. CASE Stream!Finish \/ Stream!FinishShort \/ Stream!Broken
    BY <1>1, <1>4 DEF Stream!Finish, Stream!FinishShort, Stream!Broken
  <1>5. CASE UNCHANGED <<dialect, streamVars>>
    BY <1>1, <1>5 DEF streamVars
  <1> QED BY <1>2, <1>3, <1>4, <1>5 DEF Stream!Next, Stream!Client

\* However an answer's bytes are cut, however its blocks overlap and whatever
\* noise comes between, the engine gets what the whole lines say, each call once
\* and with its own input, up to an error (generate_turn).
THEOREM StepsAreAsSaid == MCSpec => []StepsAreSaid
  <1>1. MCInit => StreamInv
    BY StreamInit DEF MCInit
  <1>2. StreamInv /\ [MCNext]_outsideVars => StreamInv'
    <2> SUFFICES ASSUME StreamInv, [MCNext]_outsideVars PROVE StreamInv'
      OBVIOUS
    <2>1. CASE Stream!Next
      BY <2>1, StreamStep
    <2>2. CASE UNCHANGED streamVars
      BY <2>2 DEF streamVars, StreamInv
    <2> QED BY <2>1, <2>2 DEF MCNext, outsideVars, modelVars
  <1>3. StreamInv => StepsAreSaid
    BY DEF StreamInv, HasRead, StepsAreSaid, Stream!StepsAreSaid
  <1> QED BY <1>1, <1>2, <1>3, PTL DEF MCSpec

-----------------------------------------------------------------------------
(* What a session records.                                                  *)

TurnParts == [kind : {"user", "text", "call", "result"}, name : Names \cup {""}, place : Nat, id : Nat]

OwnCall(p) == p.kind = "call" /\ p.name # Delegate
OwnResult(p) == p.kind = "result" /\ p.name # Delegate

Answering(r, c) ==
    c.kind = "call" /\ r.kind = "result" /\ r.place = c.place /\ r.name = c.name

\* The places of the calls whose results are recorded.
Given(ps) == {ps[i].place : i \in {j \in 1 .. Len(ps) : ps[j].kind = "result"}}

\* A call's place is its number, a result has the place and the id of a call, and
\* no call has two.
Placed(ps, calls) ==
    /\ \A i \in 1 .. Len(calls) : calls[i].place = i
    /\ \A i \in 1 .. Len(ps) : ps[i].kind = "result" =>
         ps[i].place \in 1 .. Len(calls) /\ calls[ps[i].place].id = ps[i].id
    /\ \A i, j \in 1 .. Len(ps) :
         ps[i].kind = "result" /\ ps[j].kind = "result" /\ ps[i].place = ps[j].place => i = j

\* But for delegations, a call's result comes right after it.
Paired(ps) ==
    \A i \in 1 .. Len(ps) :
        /\ OwnCall(ps[i]) /\ i < Len(ps) => Answering(ps[i + 1], ps[i])
        /\ OwnResult(ps[i]) => i > 1 /\ Answering(ps[i], ps[i - 1])

\* The last part is not a call whose result is to come next.
Complete(ps) == Len(ps) > 0 => ~OwnCall(ps[Len(ps)])

Entries == {ps \in Seq(TurnParts) : Placed(ps, History!CallsIn(ps)) /\ Paired(ps)}

Singles(ps) == [i \in DOMAIN ps |-> IF ps[i].kind = "call" THEN <<ps[i]>> ELSE <<>>]

LEMMA CallsMore ==
    ASSUME NEW ps \in Seq(TurnParts), NEW p \in TurnParts, NEW u, Is(u, Append(ps, p))
    PROVE  /\ History!CallsIn(ps) \in Seq(TurnParts)
           /\ History!CallsIn(u) = IF p.kind = "call" THEN Append(History!CallsIn(ps), p)
                                   ELSE History!CallsIn(ps)
  <1>1. /\ u \in Seq(TurnParts) /\ DOMAIN ps = 1 .. Len(ps) /\ DOMAIN u = 1 .. Len(ps) + 1
        /\ Len(ps) \in Nat /\ Len(u) = Len(ps) + 1 /\ u[Len(ps) + 1] = p
        /\ \A i \in 1 .. Len(ps) : u[i] = ps[i] /\ ps[i] \in TurnParts /\ i \in 1 .. Len(ps) + 1
        /\ \A i \in 1 .. Len(ps) + 1 : i = Len(ps) + 1 \/ i \in 1 .. Len(ps)
    <2>1. u = Append(ps, p)
      BY DEF Is
    <2> QED BY <2>1, Grown
  <1>2. \A c \in TurnParts : <<c>> \in Seq(TurnParts)
    OBVIOUS
  <1> PICK s, e, w, v : /\ Is(s, Singles(ps)) /\ Is(e, IF p.kind = "call" THEN <<p>> ELSE <<>>)
                     /\ Is(w, Append(s, e)) /\ Is(v, Singles(u))
    BY DEF Is
  <1>3. e \in Seq(TurnParts)
    BY <1>2, EmptySeq DEF Is
  <1>4. /\ s \in Seq(Seq(TurnParts)) /\ Len(s) = Len(ps)
        /\ \A i \in 1 .. Len(ps) : s[i] = IF ps[i].kind = "call" THEN <<ps[i]>> ELSE <<>>
    <2>1. /\ s \in [1 .. Len(ps) -> Seq(TurnParts)]
          /\ \A i \in 1 .. Len(ps) : s[i] = IF ps[i].kind = "call" THEN <<ps[i]>> ELSE <<>>
      BY <1>1, <1>2, EmptySeq DEF Is, Singles
    <2> QED BY <1>1, <2>1, SeqDef, LenProperties
  <1>5. /\ v \in Seq(Seq(TurnParts)) /\ Len(v) = Len(ps) + 1
        /\ \A i \in 1 .. Len(ps) + 1 : v[i] = IF u[i].kind = "call" THEN <<u[i]>> ELSE <<>>
    <2>1. \A i \in 1 .. Len(ps) + 1 : u[i] \in TurnParts
      BY <1>1
    <2>2. /\ v \in [1 .. Len(ps) + 1 -> Seq(TurnParts)]
          /\ \A i \in 1 .. Len(ps) + 1 : v[i] = IF u[i].kind = "call" THEN <<u[i]>> ELSE <<>>
      BY <1>1, <1>2, <2>1, EmptySeq DEF Is, Singles
    <2>3. Len(ps) + 1 \in Nat
      BY <1>1
    <2>4. v \in Seq(Seq(TurnParts)) /\ Len(v) = Len(ps) + 1
      BY ONLY <2>2, <2>3, SeqDef, LenProperties
    <2> QED BY <2>2, <2>4
  <1>6. /\ w \in Seq(Seq(TurnParts)) /\ Len(w) = Len(ps) + 1 /\ w[Len(ps) + 1] = e
        /\ \A i \in 1 .. Len(ps) : w[i] = s[i]
    <2>1. w = Append(s, e)
      BY DEF Is
    <2> QED BY <1>3, <1>4, <2>1, Grown
  <1>7. w = v
    <2>0. e = IF p.kind = "call" THEN <<p>> ELSE <<>>
      BY DEF Is
    <2>1. \A i \in 1 .. Len(ps) + 1 : w[i] = v[i]
      <3>1. w[Len(ps) + 1] = v[Len(ps) + 1]
        BY ONLY <1>1, <1>5, <1>6, <2>0
      <3>2. \A i \in 1 .. Len(ps) : w[i] = v[i]
        BY ONLY <1>1, <1>4, <1>5, <1>6
      <3> QED BY ONLY <1>1, <3>1, <3>2
    <2> QED BY ONLY <1>5, <1>6, <2>1, SeqEqual
  <1>8. Stream!FlattenSeq(s) \in Seq(TurnParts) /\ Stream!FlattenSeq(v) = Stream!FlattenSeq(s) \o e
    <2>1. s \in Seq(Seq(TurnParts)) /\ e \in Seq(TurnParts) /\ Is(v, Append(s, e))
      BY <1>3, <1>4, <1>7 DEF Is
    <2> QED BY ONLY <2>1, FlattenMore
  <1>9. History!CallsIn(ps) = Stream!FlattenSeq(s) /\ History!CallsIn(u) = Stream!FlattenSeq(v)
    BY SameFlatten DEF History!CallsIn, Singles, Is
  <1>10. CASE p.kind = "call"
    BY <1>8, <1>9, <1>10, AppendIsConcat DEF Is
  <1>11. CASE p.kind # "call"
    BY <1>8, <1>9, <1>11, ConcatEmptySeq DEF Is
  <1> QED BY <1>8, <1>9, <1>10, <1>11

LEMMA NoCalls == History!CallsIn(<<>>) = <<>>
  <1>1. [i \in DOMAIN <<>> |-> IF <<>>[i].kind = "call" THEN <<<<>>[i]>> ELSE <<>>] = <<>>
    OBVIOUS
  <1> QED BY <1>1, FlattenNothing DEF History!CallsIn

LEMMA AddPart ==
    ASSUME NEW ps \in Entries, NEW p \in TurnParts, NEW u, Is(u, Append(ps, p)),
           NEW calls, Is(calls, History!CallsIn(ps)),
           p.kind = "call" => p.place = Len(calls) + 1,
           p.kind = "result" => /\ p.place \in 1 .. Len(calls) /\ calls[p.place].id = p.id
                                /\ p.place \notin Given(ps),
           OwnResult(p) => Len(ps) > 0 /\ Answering(p, ps[Len(ps)]),
           Len(ps) > 0 /\ OwnCall(ps[Len(ps)]) => Answering(p, ps[Len(ps)])
    PROVE  /\ u \in Entries /\ Len(u) = Len(ps) + 1 /\ u[Len(u)] = p
           /\ Given(u) = IF p.kind = "result" THEN Given(ps) \cup {p.place} ELSE Given(ps)
           /\ History!CallsIn(u) = IF p.kind = "call" THEN Append(calls, p) ELSE calls
           /\ calls \in Seq(TurnParts)
  <1>1. /\ u \in Seq(TurnParts) /\ Len(ps) \in Nat /\ Len(u) = Len(ps) + 1 /\ u[Len(ps) + 1] = p
        /\ \A i \in 1 .. Len(ps) : u[i] = ps[i] /\ ps[i] \in TurnParts /\ i \in 1 .. Len(ps) + 1
        /\ \A i \in 1 .. Len(ps) + 1 : i = Len(ps) + 1 \/ i \in 1 .. Len(ps)
        /\ Len(ps) + 1 \in 1 .. Len(ps) + 1
    <2>1. ps \in Seq(TurnParts) /\ u = Append(ps, p)
      BY DEF Is, Entries
    <2> QED BY <2>1, Grown
  <1> PICK more : Is(more, History!CallsIn(u))
    BY DEF Is
  <1>2. /\ calls \in Seq(TurnParts)
        /\ more = IF p.kind = "call" THEN Append(calls, p) ELSE calls
    BY CallsMore DEF Is, Entries
  <1>3. /\ Placed(ps, calls) /\ Paired(ps)
    BY DEF Entries, Is
  <1>4. /\ Len(calls) \in Nat
        /\ p.kind = "call" => /\ Len(more) = Len(calls) + 1 /\ more[Len(calls) + 1] = p
        /\ \A i \in 1 .. Len(calls) : more[i] = calls[i] /\ i \in 1 .. Len(more)
        /\ \A i \in 1 .. Len(more) : i \in 1 .. Len(calls) \/ (p.kind = "call" /\ i = Len(calls) + 1)
    <2>1. CASE p.kind = "call"
      <3>1. more = Append(calls, p)
        BY <1>2, <2>1
      <3> QED BY <1>2, <2>1, <3>1, Grown
    <2>2. CASE p.kind # "call"
      BY <1>2, <2>2, LenProperties
    <2> QED BY <2>1, <2>2
  <1>5. Given(u) = IF p.kind = "result" THEN Given(ps) \cup {p.place} ELSE Given(ps)
    BY <1>1 DEF Given
  <1>6. Placed(u, more)
    <2>1. \A i \in 1 .. Len(more) : more[i].place = i
      BY <1>3, <1>4 DEF Placed
    <2>2. ASSUME NEW i \in 1 .. Len(u), u[i].kind = "result"
          PROVE  u[i].place \in 1 .. Len(more) /\ more[u[i].place].id = u[i].id
      <3>1. u[i].place \in 1 .. Len(calls) /\ calls[u[i].place].id = u[i].id
        BY <1>1, <1>3, <2>2 DEF Placed
      <3> QED BY <1>4, <3>1
    <2>3. ASSUME NEW i \in 1 .. Len(u), NEW j \in 1 .. Len(u), u[i].kind = "result",
                 u[j].kind = "result", u[i].place = u[j].place
          PROVE  i = j
      <3>1. \A k \in 1 .. Len(ps) : ps[k].kind = "result" => ps[k].place \in Given(ps)
        BY DEF Given
      <3>2. (i \in 1 .. Len(ps) \/ i = Len(ps) + 1) /\ (j \in 1 .. Len(ps) \/ j = Len(ps) + 1)
        BY <1>1
      <3> QED BY <1>1, <1>3, <2>3, <3>1, <3>2 DEF Placed
    <2> QED BY <2>1, <2>2, <2>3 DEF Placed
  <1>7. Paired(u)
    <2> SUFFICES ASSUME NEW i \in 1 .. Len(u)
                 PROVE  /\ OwnCall(u[i]) /\ i < Len(u) => Answering(u[i + 1], u[i])
                        /\ OwnResult(u[i]) => i > 1 /\ Answering(u[i], u[i - 1])
      BY DEF Paired
    <2>1. CASE i = Len(ps) + 1
      <3>1. ~(i < Len(u)) /\ u[i] = p /\ i - 1 = Len(ps)
        BY <1>1, <2>1
      <3>2. Len(ps) > 0 => i > 1 /\ u[Len(ps)] = ps[Len(ps)]
        BY <1>1, <2>1
      <3> QED BY <3>1, <3>2
    <2>2. CASE i \in 1 .. Len(ps)
      <3>1. u[i] = ps[i] /\ i \in Nat
        BY <1>1, <2>2
      <3>2. OwnResult(ps[i]) => i > 1 /\ Answering(ps[i], ps[i - 1])
        BY <1>3, <2>2 DEF Paired
      <3>3. i > 1 => u[i - 1] = ps[i - 1]
        <4>1. i > 1 => i - 1 \in 1 .. Len(ps)
          BY <1>1, <2>2
        <4> QED BY <1>1, <4>1
      <3>4. CASE i < Len(ps)
        <4>1. i + 1 \in 1 .. Len(ps)
          BY <1>1, <2>2, <3>4
        <4>2. u[i + 1] = ps[i + 1]
          BY <1>1, <4>1
        <4> QED BY <1>3, <2>2, <3>1, <3>2, <3>3, <3>4, <4>2 DEF Paired
      <3>5. CASE i = Len(ps)
        BY <1>1, <3>1, <3>2, <3>3, <3>5
      <3> QED BY <1>1, <2>2, <3>4, <3>5
    <2> QED BY <1>1, <2>1, <2>2
  <1>8. u \in Entries
    BY <1>1, <1>6, <1>7 DEF Entries, Is
  <1> QED BY <1>1, <1>2, <1>5, <1>8 DEF Is

\* What each kind of part needs.
LEMMA AddText ==
    ASSUME NEW ps \in Entries, Complete(ps), NEW p \in TurnParts, p.kind \in {"user", "text"},
           NEW u, Is(u, Append(ps, p))
    PROVE  u \in Entries /\ Complete(u) /\ History!CallsIn(u) = History!CallsIn(ps) /\ Given(u) = Given(ps)
  <1> PICK calls : Is(calls, History!CallsIn(ps))
    BY DEF Is
  <1>1. /\ u \in Entries /\ Len(u) = Len(ps) + 1 /\ u[Len(u)] = p /\ Given(u) = Given(ps)
        /\ History!CallsIn(u) = calls
    BY AddPart DEF Complete, OwnResult
  <1> QED BY <1>1 DEF Complete, OwnCall, Is

\* A call, and its result if it is not a delegation.
LEMMA AddCall ==
    ASSUME NEW ps \in Entries, Complete(ps), NEW c \in TurnParts, c.kind = "call",
           c.place = Len(History!CallsIn(ps)) + 1,
           NEW r \in TurnParts, r = [c EXCEPT !.kind = "result"],
           NEW u, Is(u, IF c.name = Delegate THEN Append(ps, c) ELSE Append(Append(ps, c), r))
    PROVE  /\ u \in Entries /\ Complete(u)
           /\ History!CallsIn(u) = Append(History!CallsIn(ps), c)
           /\ Given(u) = IF c.name = Delegate THEN Given(ps) ELSE Given(ps) \cup {c.place}
           /\ History!CallsIn(ps) \in Seq(TurnParts)
  <1> PICK calls, v : Is(calls, History!CallsIn(ps)) /\ Is(v, Append(ps, c))
    BY DEF Is
  <1>1. /\ v \in Entries /\ Len(v) = Len(ps) + 1 /\ v[Len(v)] = c /\ Given(v) = Given(ps)
        /\ History!CallsIn(v) = Append(calls, c) /\ calls \in Seq(TurnParts)
    <2>1. c.place = Len(calls) + 1
      BY DEF Is
    <2> QED BY <2>1, AddPart DEF Complete, OwnResult
  <1>2. CASE c.name = Delegate
    <2>1. u = v
      BY <1>2 DEF Is
    <2> QED BY <1>1, <1>2, <2>1 DEF Complete, OwnCall, Is
  <1>3. CASE c.name # Delegate
    <2> PICK more : Is(more, History!CallsIn(v))
      BY DEF Is
    <2>1. Is(u, Append(v, r))
      BY <1>3 DEF Is
    <2>2. r.kind = "result" /\ r.place = c.place /\ r.id = c.id /\ r.name = c.name
      BY DEF TurnParts
    <2>3. /\ Len(calls) \in Nat /\ Len(more) = Len(calls) + 1 /\ more[Len(calls) + 1] = c
          /\ c.place = Len(calls) + 1 /\ r.place \in 1 .. Len(more)
      <3>1. more = Append(calls, c) /\ c.place = Len(calls) + 1
        BY <1>1 DEF Is
      <3>2. Len(calls) \in Nat /\ Len(more) = Len(calls) + 1 /\ more[Len(calls) + 1] = c
        BY <1>1, <3>1, Grown
      <3> QED BY <2>2, <3>1, <3>2
    <2>4. r.place \notin Given(v)
      <3>1. \A i \in 1 .. Len(ps) : ps[i].kind = "result" => ps[i].place \in 1 .. Len(calls)
        BY DEF Entries, Placed, Is
      <3>2. Len(calls) + 1 \notin 1 .. Len(calls)
        BY <2>3
      <3> QED BY <1>1, <2>2, <2>3, <3>1, <3>2 DEF Given
    <2>5. Answering(r, v[Len(v)]) /\ Len(v) > 0
      <3>1. Len(v) > 0
        <4>1. Len(ps) \in Nat
          BY LenProperties DEF Entries
        <4> QED BY <1>1, <4>1
      <3> QED BY <1>1, <2>2, <3>1 DEF Answering
    <2>6. /\ u \in Entries /\ Len(u) = Len(v) + 1 /\ u[Len(u)] = r
          /\ Given(u) = Given(v) \cup {r.place} /\ History!CallsIn(u) = more
      <3>1. r.place \in 1 .. Len(more) /\ more[r.place].id = r.id
        BY <2>2, <2>3
      <3>2. v \in Entries /\ Is(more, History!CallsIn(v)) /\ r.kind # "call"
        BY <1>1, <2>2
      <3> QED BY ONLY <2>1, <2>2, <2>4, <2>5, <3>1, <3>2, AddPart, r \in TurnParts
    <2> QED BY <1>1, <1>3, <2>2, <2>6 DEF Complete, OwnCall, Is
  <1> QED BY <1>2, <1>3

\* The result of a delegation.
LEMMA AddLate ==
    ASSUME NEW ps \in Entries, Complete(ps), NEW r \in TurnParts, r.kind = "result", r.name = Delegate,
           NEW calls, Is(calls, History!CallsIn(ps)),
           r.place \in 1 .. Len(calls), calls[r.place].id = r.id, r.place \notin Given(ps),
           NEW u, Is(u, Append(ps, r))
    PROVE  /\ u \in Entries /\ Complete(u) /\ History!CallsIn(u) = calls
           /\ Given(u) = Given(ps) \cup {r.place}
  <1>1. /\ u \in Entries /\ Len(u) = Len(ps) + 1 /\ u[Len(u)] = r /\ Given(u) = Given(ps) \cup {r.place}
        /\ History!CallsIn(u) = calls
    BY AddPart DEF Complete, OwnResult
  <1> QED BY <1>1 DEF Complete, OwnCall

LEMMA GivenPlaces ==
    ASSUME NEW ps \in Entries, NEW calls, Is(calls, History!CallsIn(ps))
    PROVE  \A g \in Given(ps) : g \in 1 .. Len(calls)
  BY DEF Entries, Placed, Given, Is

\* A response with the first m of its calls recorded, and the results of the
\* delegations among the first k.
Recording(ps, names, before, m, k) ==
    /\ ps \in Entries /\ Complete(ps)
    /\ Len(History!CallsIn(ps)) = before + m
    /\ \A j \in 1 .. m :
         /\ History!CallsIn(ps)[before + j].id = History!Id(j, before)
         /\ j > k /\ names[j] = Delegate => before + j \notin Given(ps)

Asks(names, before, i) == History!Part("call", names[i], before + i, History!Id(i, before))
Tells(names, before, i) == [Asks(names, before, i) EXCEPT !.kind = "result"]

Own(names, before, i) ==
    IF names[i] = Delegate THEN <<Asks(names, before, i)>>
    ELSE <<Asks(names, before, i), Tells(names, before, i)>>
Late(names, before, i) == IF names[i] = Delegate THEN <<Tells(names, before, i)>> ELSE <<>>

LEMMA AsksTyped ==
    ASSUME NEW m \in Nat, NEW names \in [1 .. m -> Names], NEW before \in Nat, NEW i \in 1 .. m
    PROVE  /\ Asks(names, before, i) \in TurnParts /\ Tells(names, before, i) \in TurnParts
           /\ Own(names, before, i) \in Seq(TurnParts) /\ Late(names, before, i) \in Seq(TurnParts)
           /\ Asks(names, before, i).kind = "call" /\ Asks(names, before, i).name = names[i]
           /\ Asks(names, before, i).place = before + i
           /\ Asks(names, before, i).id = History!Id(i, before)
           /\ Tells(names, before, i).kind = "result" /\ Tells(names, before, i).name = names[i]
           /\ Tells(names, before, i).place = before + i
           /\ Tells(names, before, i).id = History!Id(i, before)
  <1> PICK h : Is(h, History!Id(i, before))
    BY DEF Is
  <1>1. h \in Nat /\ before + i \in Nat /\ names[i] \in Names
    BY DEF History!Id, Is
  <1> PICK c, r : Is(c, Asks(names, before, i)) /\ Is(r, Tells(names, before, i))
    BY DEF Is
  <1>2. /\ c = [kind |-> "call", name |-> names[i], place |-> before + i, id |-> h]
        /\ r = [c EXCEPT !.kind = "result"]
    BY DEF Is, Asks, Tells, History!Part
  <1>3. c \in TurnParts /\ r \in TurnParts
    BY <1>1, <1>2 DEF TurnParts
  <1>4. <<c>> \in Seq(TurnParts) /\ <<r>> \in Seq(TurnParts) /\ <<c, r>> \in Seq(TurnParts)
        /\ <<>> \in Seq(TurnParts)
    BY <1>3
  <1>5. Own(names, before, i) = (IF names[i] = Delegate THEN <<c>> ELSE <<c, r>>)
        /\ Late(names, before, i) = (IF names[i] = Delegate THEN <<r>> ELSE <<>>)
    BY DEF Own, Late, Is
  <1>6. /\ c.kind = "call" /\ c.name = names[i] /\ c.place = before + i /\ c.id = h
        /\ r.kind = "result" /\ r.name = names[i] /\ r.place = before + i /\ r.id = h
    BY <1>2
  <1> QED BY <1>3, <1>4, <1>5, <1>6 DEF Is

LEMMA OneOrTwo ==
    ASSUME NEW S, NEW s \in Seq(S), NEW c \in S, NEW r \in S
    PROVE  s \o <<c>> = Append(s, c) /\ s \o <<c, r>> = Append(Append(s, c), r)
  <1>1. s \o <<c>> = Append(s, c)
    BY AppendIsConcat
  <1> PICK one : Is(one, <<c>>)
    BY DEF Is
  <1>2. one \in Seq(S) /\ <<r>> \in Seq(S) /\ Append(one, r) = <<c, r>>
    <2>1. <<c>> \in Seq(S) /\ <<r>> \in Seq(S)
      OBVIOUS
    <2>2. Append(<<c>>, r) = <<c, r>>
      <3>1. /\ <<c, r>> \in Seq(S) /\ Len(<<c, r>>) = 2 /\ <<c, r>>[1] = c /\ <<c, r>>[2] = r
            /\ Len(<<c>>) = 1 /\ <<c>>[1] = c
        OBVIOUS
      <3>2. /\ Append(<<c>>, r) \in Seq(S) /\ Len(Append(<<c>>, r)) = 2
            /\ Append(<<c>>, r)[1] = c /\ Append(<<c>>, r)[2] = r
        BY <2>1, <3>1, AppendProperties
      <3>3. \A i \in 1 .. 2 : i = 1 \/ i = 2
        OBVIOUS
      <3> QED BY <3>1, <3>2, <3>3, SeqEqual
    <2> QED BY ONLY <2>1, <2>2, Is(one, <<c>>) DEF Is
  <1>3. Append(one, r) = one \o <<r>>
    BY <1>2, AppendIsConcat
  <1>4. s \o (one \o <<r>>) = (s \o one) \o <<r>>
    BY <1>2, ConcatAssociative
  <1>5. s \o one \in Seq(S)
    BY <1>2, ConcatProperties
  <1>6. (s \o one) \o <<r>> = Append(s \o one, r)
    BY <1>5, AppendIsConcat
  <1> QED BY <1>1, <1>2, <1>3, <1>4, <1>6 DEF Is

\* One more call is recorded.
LEMMA OwnOne ==
    ASSUME NEW m \in Nat, NEW names \in [1 .. m -> Names], NEW before \in Nat, NEW k \in Nat,
           k + 1 \in 1 .. m, NEW ps, Recording(ps, names, before, k, 0)
    PROVE  Recording(ps \o Own(names, before, k + 1), names, before, k + 1, 0)
  <1> PICK c, r, calls, u, h :
        /\ Is(c, Asks(names, before, k + 1)) /\ Is(r, Tells(names, before, k + 1))
        /\ Is(calls, History!CallsIn(ps)) /\ Is(u, ps \o Own(names, before, k + 1))
        /\ Is(h, [j \in 1 .. m |-> History!Id(j, before)])
    BY DEF Is
  <1>1. /\ c \in TurnParts /\ r \in TurnParts /\ r = [c EXCEPT !.kind = "result"]
        /\ c.kind = "call" /\ c.name = names[k + 1] /\ c.place = before + (k + 1) /\ c.id = h[k + 1]
    BY AsksTyped DEF Is, Tells
  <1>2. /\ ps \in Entries /\ Complete(ps) /\ Len(calls) = before + k
        /\ \A j \in 1 .. k : /\ calls[before + j].id = h[j]
                             /\ names[j] = Delegate => before + j \notin Given(ps)
    BY DEF Recording, Is
  <1>3. c.place = Len(History!CallsIn(ps)) + 1
    BY <1>1, <1>2 DEF Is
  <1>4. Is(u, IF c.name = Delegate THEN Append(ps, c) ELSE Append(Append(ps, c), r))
    <2>1. ps \o <<c>> = Append(ps, c) /\ ps \o <<c, r>> = Append(Append(ps, c), r)
      <3>1. ps \in Seq(TurnParts)
        BY <1>2 DEF Entries
      <3> QED BY <1>1, <3>1, OneOrTwo
    <2>2. u = ps \o (IF names[k + 1] = Delegate THEN <<c>> ELSE <<c, r>>)
      BY DEF Is, Own
    <2> QED BY <1>1, <2>1, <2>2 DEF Is
  <1> PICK more : Is(more, History!CallsIn(u))
    BY DEF Is
  <1>5. /\ u \in Entries /\ Complete(u) /\ more = Append(calls, c) /\ calls \in Seq(TurnParts)
        /\ Given(u) = IF c.name = Delegate THEN Given(ps) ELSE Given(ps) \cup {c.place}
    <2>1. /\ u \in Entries /\ Complete(u) /\ History!CallsIn(u) = Append(History!CallsIn(ps), c)
          /\ Given(u) = (IF c.name = Delegate THEN Given(ps) ELSE Given(ps) \cup {c.place})
          /\ History!CallsIn(ps) \in Seq(TurnParts)
      BY ONLY <1>1, <1>2, <1>3, <1>4, AddCall
    <2> QED BY <2>1 DEF Is
  <1>6. /\ Len(more) = before + (k + 1) /\ more[before + (k + 1)].id = h[k + 1]
        /\ \A j \in 1 .. k : more[before + j] = calls[before + j]
    <2>1. /\ Len(more) = Len(calls) + 1 /\ more[Len(calls) + 1] = c
          /\ \A j \in 1 .. Len(calls) : more[j] = calls[j]
      BY <1>1, <1>5, AppendProperties
    <2>2. Len(calls) + 1 = before + (k + 1) /\ \A j \in 1 .. k : before + j \in 1 .. Len(calls)
      BY <1>2
    <2> QED BY <1>1, <2>1, <2>2
  <1>7. ASSUME NEW j \in 1 .. (k + 1), names[j] = Delegate PROVE before + j \notin Given(u)
    <2>1. CASE j \in 1 .. k
      <3>1. before + j # before + (k + 1)
        BY <2>1
      <3> QED BY <1>1, <1>2, <1>5, <1>7, <2>1, <3>1
    <2>2. CASE j = k + 1
      <3>1. before + j \notin Given(ps)
        BY <1>2, <2>2, GivenPlaces
      <3> QED BY <1>1, <1>5, <1>7, <2>2, <3>1
    <2> QED BY <2>1, <2>2
  <1>8. \A j \in 1 .. (k + 1) : j \in 1 .. k \/ j = k + 1
    OBVIOUS
  <1>9. \A j \in 1 .. (k + 1) : more[before + j].id = History!Id(j, before)
    <2>1. \A j \in 1 .. (k + 1) : j \in 1 .. m
      OBVIOUS
    <2>2. \A j \in 1 .. (k + 1) : h[j] = History!Id(j, before)
      BY <2>1 DEF Is
    <2> QED BY <1>2, <1>6, <1>8, <2>2
  <1>10. Recording(u, names, before, k + 1, 0)
    BY <1>5, <1>6, <1>7, <1>9 DEF Recording, Is
  <1> QED BY <1>10 DEF Is

\* The result of one more delegation.
LEMMA LateOne ==
    ASSUME NEW m \in Nat, NEW names \in [1 .. m -> Names], NEW before \in Nat, NEW k \in Nat,
           k + 1 \in 1 .. m, NEW ps, Recording(ps, names, before, m, k)
    PROVE  Recording(ps \o Late(names, before, k + 1), names, before, m, k + 1)
  <1> PICK r, calls, u :
        /\ Is(r, Tells(names, before, k + 1))
        /\ Is(calls, History!CallsIn(ps)) /\ Is(u, ps \o Late(names, before, k + 1))
    BY DEF Is
  <1>1. /\ r \in TurnParts /\ r.kind = "result" /\ r.name = names[k + 1]
        /\ r.place = before + (k + 1) /\ r.id = History!Id(k + 1, before)
    <2> PICK h : Is(h, History!Id(k + 1, before))
      BY DEF Is
    <2> PICK c : Is(c, Asks(names, before, k + 1))
      BY DEF Is
    <2>1. /\ c \in TurnParts /\ r \in TurnParts /\ c.name = names[k + 1]
          /\ c.place = before + (k + 1) /\ c.id = h /\ r = [c EXCEPT !.kind = "result"]
      BY AsksTyped, SMTT(20) DEF Is, Tells
    <2>2. r.kind = "result" /\ r.name = c.name /\ r.place = c.place /\ r.id = c.id
      BY ONLY <2>1 DEF TurnParts
    <2> QED BY <2>1, <2>2 DEF Is
  <1>2. /\ ps \in Entries /\ Complete(ps) /\ Len(calls) = before + m
        /\ \A j \in 1 .. m : /\ calls[before + j].id = History!Id(j, before)
                             /\ j > k /\ names[j] = Delegate => before + j \notin Given(ps)
    BY DEF Recording, Is
  <1>3. \A j \in 1 .. m : j > k + 1 => j > k /\ before + j # before + (k + 1)
    OBVIOUS
  <1>4. ps \in Seq(TurnParts)
    BY <1>2 DEF Entries
  <1>5. CASE names[k + 1] = Delegate
    <2>1. Is(u, Append(ps, r))
      BY <1>1, <1>4, <1>5, AppendIsConcat DEF Late, Is
    <2>2. r.place \in 1 .. Len(calls) /\ calls[r.place].id = r.id /\ r.place \notin Given(ps)
      BY <1>1, <1>2, <1>5
    <2>3. r.name = Delegate /\ Is(calls, History!CallsIn(ps))
      BY <1>1, <1>5
    <2>4. /\ u \in Entries /\ Complete(u) /\ History!CallsIn(u) = calls
          /\ Given(u) = Given(ps) \cup {r.place}
      BY ONLY <1>1, <1>2, <2>1, <2>2, <2>3, AddLate
    <2>5. Recording(u, names, before, m, k + 1)
      BY <1>1, <1>2, <1>3, <2>4 DEF Recording
    <2> QED BY <2>5 DEF Is
  <1>6. CASE names[k + 1] # Delegate
    <2>1. u = ps
      BY <1>4, <1>6, ConcatEmptySeq DEF Late, Is
    <2>2. \A j \in 1 .. m : j > k /\ names[j] = Delegate => j > k + 1 \/ j = k + 1
      OBVIOUS
    <2>3. Recording(u, names, before, m, k + 1)
      BY <1>2, <1>3, <2>1, <2>2 DEF Recording, Is
    <2> QED BY <2>3 DEF Is
  <1> QED BY <1>5, <1>6

\* What each sequence preserves is true of all of them in one.
LEMMA FlattenInduction ==
    ASSUME NEW A, NEW m \in Nat, NEW f \in [1 .. m -> Seq(A)], NEW P, <<0, <<>>>> \in P,
           \A k \in Nat, v \in Seq(A) :
              k + 1 \in 1 .. m /\ <<k, v>> \in P => <<k + 1, v \o f[k + 1]>> \in P
    PROVE  Stream!FlattenSeq(f) \in Seq(A) /\ <<m, Stream!FlattenSeq(f)>> \in P
  <1>1. f \in Seq(Seq(A)) /\ Len(f) = m
    BY SeqDef, LenProperties
  <1>2. Preserves(P, Seq(A), Joined(A), f)
    <2> SUFFICES ASSUME NEW k \in Nat, NEW v \in Seq(A), k + 1 \in 1 .. Len(f), <<k, v>> \in P
                 PROVE  <<k + 1, Joined(A)[v][f[k + 1]]>> \in P
      BY DEF Preserves
    <2>1. f[k + 1] \in Seq(A)
      BY <1>1
    <2>2. Joined(A)[v][f[k + 1]] = v \o f[k + 1]
      BY <2>1 DEF Joined
    <2> QED BY <1>1, <2>2
  <1>3. EndsAt(Stream!FlattenSeq(f), Seq(A), <<>>, Joined(A), f)
    BY <1>1, FlattenTrace
  <1> QED BY ONLY <1>1, <1>2, <1>3, FoldInduction, <<0, <<>>>> \in P

LEMMA Together ==
    ASSUME NEW A, NEW s \in Seq(A), NEW t \in Seq(A), NEW w \in Seq(A)
    PROVE  (s \o t) \o w = s \o (t \o w) /\ t \o w \in Seq(A)
  <1>1. (s \o t) \o w = s \o (t \o w)
    BY ConcatAssociative
  <1> QED BY <1>1, ConcatProperties

\* A response's calls are recorded, each with its result, and then the results
\* of its delegations.
LEMMA OwnAll ==
    ASSUME NEW m \in Nat, NEW names \in [1 .. m -> Names], NEW before \in Nat,
           NEW ps, Recording(ps, names, before, 0, 0),
           NEW q, Is(q, Stream!FlattenSeq([i \in 1 .. m |-> Own(names, before, i)]))
    PROVE  q \in Seq(TurnParts) /\ Recording(ps \o q, names, before, m, 0)
  <1> DEFINE P == {w \in Nat \X Seq(TurnParts) : Recording(ps \o w[2], names, before, w[1], 0)}
  <1> PICK f : Is(f, [i \in 1 .. m |-> Own(names, before, i)])
    BY DEF Is
  <1>1. f \in [1 .. m -> Seq(TurnParts)]
    BY AsksTyped DEF Is
  <1>2. ps \in Seq(TurnParts) /\ ps \o <<>> = ps
    <2>1. ps \in Seq(TurnParts)
      BY DEF Recording, Entries
    <2> QED BY <2>1, ConcatEmptySeq
  <1>3. <<0, <<>>>> \in P
    BY <1>2, EmptySeq
  <1>4. ASSUME NEW k \in Nat, NEW v \in Seq(TurnParts), k + 1 \in 1 .. m, <<k, v>> \in P
        PROVE  <<k + 1, v \o f[k + 1]>> \in P
    <2>1. f[k + 1] = Own(names, before, k + 1) /\ f[k + 1] \in Seq(TurnParts)
      BY <1>1, <1>4 DEF Is
    <2>2. Recording(ps \o v, names, before, k, 0)
      BY <1>4
    <2>3. Recording((ps \o v) \o Own(names, before, k + 1), names, before, k + 1, 0)
      BY <1>4, <2>2, OwnOne
    <2>4. (ps \o v) \o f[k + 1] = ps \o (v \o f[k + 1])
      BY ONLY <1>2, <2>1, v \in Seq(TurnParts), Together
    <2>5. v \o f[k + 1] \in Seq(TurnParts)
      BY <2>1, ConcatProperties
    <2>6. Recording(ps \o (v \o f[k + 1]), names, before, k + 1, 0)
      BY <2>1, <2>3, <2>4
    <2> PICK x : Is(x, v \o f[k + 1])
      BY DEF Is
    <2>7. x \in Seq(TurnParts) /\ k + 1 \in Nat /\ Is(x, v \o f[k + 1])
      BY <2>5 DEF Is
    <2>8. <<k + 1, x>> \in P
      BY ONLY <2>6, <2>7 DEF P, Is
    <2> QED BY <2>8 DEF Is
  <1> HIDE DEF P
  <1>5. Stream!FlattenSeq(f) \in Seq(TurnParts) /\ <<m, Stream!FlattenSeq(f)>> \in P
    BY ONLY <1>1, <1>3, <1>4, m \in Nat, FlattenInduction
  <1>6. q = Stream!FlattenSeq(f)
    BY DEF Is
  <1> QED BY <1>5, <1>6 DEF P

LEMMA LateAll ==
    ASSUME NEW m \in Nat, NEW names \in [1 .. m -> Names], NEW before \in Nat,
           NEW ps, Recording(ps, names, before, m, 0),
           NEW q, Is(q, Stream!FlattenSeq([i \in 1 .. m |-> Late(names, before, i)]))
    PROVE  q \in Seq(TurnParts) /\ Recording(ps \o q, names, before, m, m)
  <1> DEFINE P == {w \in Nat \X Seq(TurnParts) : Recording(ps \o w[2], names, before, m, w[1])}
  <1> PICK f : Is(f, [i \in 1 .. m |-> Late(names, before, i)])
    BY DEF Is
  <1>1. f \in [1 .. m -> Seq(TurnParts)]
    BY AsksTyped DEF Is
  <1>2. ps \in Seq(TurnParts) /\ ps \o <<>> = ps
    <2>1. ps \in Seq(TurnParts)
      BY DEF Recording, Entries
    <2> QED BY <2>1, ConcatEmptySeq
  <1>3. <<0, <<>>>> \in P
    BY <1>2, EmptySeq
  <1>4. ASSUME NEW k \in Nat, NEW v \in Seq(TurnParts), k + 1 \in 1 .. m, <<k, v>> \in P
        PROVE  <<k + 1, v \o f[k + 1]>> \in P
    <2>1. f[k + 1] = Late(names, before, k + 1) /\ f[k + 1] \in Seq(TurnParts)
      BY <1>1, <1>4 DEF Is
    <2>2. Recording(ps \o v, names, before, m, k)
      BY <1>4
    <2>3. Recording((ps \o v) \o Late(names, before, k + 1), names, before, m, k + 1)
      BY <1>4, <2>2, LateOne
    <2>4. (ps \o v) \o f[k + 1] = ps \o (v \o f[k + 1])
      BY ONLY <1>2, <2>1, v \in Seq(TurnParts), Together
    <2>5. v \o f[k + 1] \in Seq(TurnParts)
      BY <2>1, ConcatProperties
    <2>6. Recording(ps \o (v \o f[k + 1]), names, before, m, k + 1)
      BY <2>1, <2>3, <2>4
    <2> PICK x : Is(x, v \o f[k + 1])
      BY DEF Is
    <2>7. x \in Seq(TurnParts) /\ k + 1 \in Nat /\ Is(x, v \o f[k + 1])
      BY <2>5 DEF Is
    <2>8. <<k + 1, x>> \in P
      BY ONLY <2>6, <2>7 DEF P, Is
    <2> QED BY <2>8 DEF Is
  <1> HIDE DEF P
  <1>5. Stream!FlattenSeq(f) \in Seq(TurnParts) /\ <<m, Stream!FlattenSeq(f)>> \in P
    BY ONLY <1>1, <1>3, <1>4, m \in Nat, FlattenInduction
  <1>6. q = Stream!FlattenSeq(f)
    BY DEF Is
  <1> QED BY <1>5, <1>6 DEF P

LEMMA RecordedParts ==
    ASSUME parts \in Entries, Complete(parts),
           NEW m \in Nat, NEW names \in [1 .. m -> Names], NEW text \in BOOLEAN,
           NEW u, Is(u, parts \o History!Recorded(names, text))
    PROVE  u \in Entries /\ Complete(u)
  <1> PICK before, a, z, rest :
        /\ Is(before, Len(History!CallsIn(parts)))
        /\ Is(a, Stream!FlattenSeq([i \in 1 .. m |-> Own(names, before, i)]))
        /\ Is(z, Stream!FlattenSeq([i \in 1 .. m |-> Late(names, before, i)]))
        /\ Is(rest, IF text THEN <<History!Text>> ELSE <<>>)
    BY DEF Is
  <1>1. parts \in Seq(TurnParts) /\ before \in Nat
    <2>1. parts \in Seq(TurnParts) /\ \A c \in TurnParts : TRUE
      BY DEF Entries
    <2>2. History!Text \in TurnParts
      BY DEF History!Text, History!Part, TurnParts
    <2>3. History!CallsIn(parts) \in Seq(TurnParts)
      BY <2>1, <2>2, CallsMore DEF Is
    <2> QED BY <2>1, <2>3, LenProperties DEF Is
  <1>2. Recording(parts, names, before, 0, 0)
    <2>1. Len(History!CallsIn(parts)) = before + 0
      BY <1>1 DEF Is
    <2>2. 1 .. 0 = {}
      BY FirstIndices
    <2> QED BY <2>1, <2>2 DEF Recording
  <1>3. a \in Seq(TurnParts) /\ Recording(parts \o a, names, before, m, 0)
    BY ONLY <1>1, <1>2, OwnAll, m \in Nat, names \in [1 .. m -> Names],
            Is(a, Stream!FlattenSeq([i \in 1 .. m |-> Own(names, before, i)]))
  <1>4. z \in Seq(TurnParts) /\ Recording((parts \o a) \o z, names, before, m, m)
    BY ONLY <1>1, <1>3, LateAll, m \in Nat, names \in [1 .. m -> Names],
            Is(z, Stream!FlattenSeq([i \in 1 .. m |-> Late(names, before, i)]))
  <1>5. History!Recorded(names, text) = (a \o z) \o rest
    <2>1. DOMAIN names = 1 .. m
      OBVIOUS
    <2>2. History!Recorded(names, text)
            = (Stream!FlattenSeq([i \in 1 .. m |-> Own(names, Len(History!CallsIn(parts)), i)])
                 \o Stream!FlattenSeq([i \in 1 .. m |-> Late(names, Len(History!CallsIn(parts)), i)]))
              \o (IF text THEN <<History!Text>> ELSE <<>>)
      BY <2>1, SameFlatten DEF History!Recorded, Own, Late, Asks, Tells
    <2> QED BY <2>2 DEF Is
  <1>6. rest \in Seq(TurnParts) /\ (text => rest = <<History!Text>>) /\ (~text => rest = <<>>)
        /\ History!Text \in TurnParts /\ History!Text.kind = "text"
    <2>1. History!Text \in TurnParts /\ History!Text.kind = "text"
      BY DEF History!Text, History!Part, TurnParts
    <2> QED BY <2>1, EmptySeq DEF Is
  <1> PICK v : Is(v, (parts \o a) \o z)
    BY DEF Is
  <1>7. v \in Entries /\ Complete(v) /\ v \in Seq(TurnParts)
    BY <1>4 DEF Recording, Is, Entries
  <1>8. u = v \o rest
    <2>1. parts \o ((a \o z) \o rest) = (parts \o (a \o z)) \o rest
      <3>1. a \o z \in Seq(TurnParts)
        BY <1>3, <1>4, ConcatProperties
      <3> PICK az : Is(az, a \o z)
        BY DEF Is
      <3>2. az \in Seq(TurnParts)
        BY <3>1 DEF Is
      <3>3. (parts \o az) \o rest = parts \o (az \o rest)
        BY ONLY <1>1, <1>6, <3>2, Together
      <3> QED BY <3>3 DEF Is
    <2>2. parts \o (a \o z) = (parts \o a) \o z
      <3>1. parts \in Seq(TurnParts) /\ a \in Seq(TurnParts) /\ z \in Seq(TurnParts)
        BY <1>1, <1>3, <1>4
      <3> QED BY ONLY <3>1, Together
    <2> QED BY <1>5, <2>1, <2>2 DEF Is
  <1>9. CASE text
    <2>1. Is(u, Append(v, History!Text))
      BY <1>6, <1>7, <1>8, <1>9, AppendIsConcat DEF Is
    <2> QED BY <1>6, <1>7, <2>1, AddText
  <1>10. CASE ~text
    <2>1. u = v
      BY <1>6, <1>7, <1>8, <1>10, ConcatEmptySeq
    <2> QED BY <1>7, <2>1
  <1> QED BY <1>9, <1>10

\* What the session has recorded, whenever.
HistoryInv == parts \in Entries /\ Complete(parts) /\ dialect \in {"anthropic", "gemini", "ollama"}

LEMMA HistoryInit == History!Init => HistoryInv
  <1> SUFFICES ASSUME parts = <<>> PROVE parts \in Entries /\ Complete(parts)
    BY DEF History!Init, HistoryInv
  <1>1. Len(parts) = 0 /\ Len(History!CallsIn(parts)) = 0 /\ parts \in Seq(TurnParts)
    BY NoCalls, EmptySeq
  <1>2. 1 .. 0 = {}
    BY FirstIndices
  <1> QED BY <1>1, <1>2 DEF Entries, Placed, Paired, Complete

LEMMA HistoryStep ==
    ASSUME HistoryInv, [History!Next]_<<dialect, historyVars>>
    PROVE  HistoryInv'
  <1>0. /\ History!Text \in TurnParts /\ History!Text.kind = "text"
        /\ History!UserText \in TurnParts /\ History!UserText.kind = "user"
    BY DEF History!Text, History!UserText, History!Part, TurnParts
  <1> PICK next : Is(next, parts')
    BY DEF Is
  <1>1. CASE History!StartTurn
    <2>1. Is(next, Append(parts, History!UserText)) /\ dialect' = dialect
      BY <1>1 DEF History!StartTurn, Is
    <2>2. next \in Entries /\ Complete(next)
      BY ONLY <1>0, <2>1, HistoryInv, AddText DEF HistoryInv
    <2> QED BY <2>1, <2>2 DEF HistoryInv, Is
  <1>2. CASE History!PassWithCalls
    <2> PICK m \in 1 .. MaxCalls, text \in BOOLEAN :
           \E names \in [1 .. m -> Names] : parts' = parts \o History!Recorded(names, text)
      BY <1>2 DEF History!PassWithCalls
    <2> PICK names \in [1 .. m -> Names] : parts' = parts \o History!Recorded(names, text)
      OBVIOUS
    <2>1. Is(next, parts \o History!Recorded(names, text)) /\ dialect' = dialect /\ m \in Nat
      BY <1>2 DEF History!PassWithCalls, Is
    <2>2. next \in Entries /\ Complete(next)
      BY ONLY <2>1, HistoryInv, RecordedParts, names \in [1 .. m -> Names], text \in BOOLEAN
         DEF HistoryInv
    <2> QED BY <2>1, <2>2 DEF HistoryInv, Is
  <1>3. CASE History!FinalPass
    <2>1. Is(next, Append(parts, History!Text)) /\ dialect' = dialect
      BY <1>3 DEF History!FinalPass, Is
    <2>2. next \in Entries /\ Complete(next)
      BY ONLY <1>0, <2>1, HistoryInv, AddText DEF HistoryInv
    <2> QED BY <2>1, <2>2 DEF HistoryInv, Is
  <1>4. CASE UNCHANGED <<dialect, historyVars>>
    BY <1>4 DEF HistoryInv, historyVars, Entries, Placed, Paired, Complete
  <1> QED BY <1>1, <1>2, <1>3, <1>4 DEF History!Next

-----------------------------------------------------------------------------
(* The messages.                                                            *)

Told == [role : {"user", "assistant"}, content : Seq(TurnParts)]

Projects == [ms \in Seq(Told) |-> [p \in TurnParts |-> History!Project(ms, p)]]

\* The last part of the last message.
Ending(ms) == ms[Len(ms)].content[Len(ms[Len(ms)].content)]

\* A part either opens a message or joins the last.
Opening(u, ms, p) ==
    /\ Len(u) = Len(ms) + 1 /\ \A r \in 1 .. Len(ms) : u[r] = ms[r]
    /\ u[Len(u)].role = History!Role(p) /\ u[Len(u)].content = <<p>>

Joining(u, ms, p) ==
    /\ Len(ms) > 0 /\ p.kind # "result" /\ Ending(ms).kind # "result"
    /\ Len(u) = Len(ms) /\ \A r \in 1 .. Len(ms) : r # Len(ms) => u[r] = ms[r]
    /\ ms[Len(ms)].role = History!Role(p) /\ u[Len(ms)].role = History!Role(p)
    /\ u[Len(ms)].content = Append(ms[Len(ms)].content, p)

LEMMA ProjectMore ==
    ASSUME NEW ms \in Seq(Told), NEW p \in TurnParts, NEW u, Is(u, History!Project(ms, p))
    PROVE  u \in Seq(Told) /\ (Opening(u, ms, p) \/ Joining(u, ms, p))
  <1> PICK role : Is(role, History!Role(p))
    BY DEF Is
  <1>1. role \in {"user", "assistant"} /\ Len(ms) \in Nat
    BY LenProperties DEF Is, History!Role
  <1>2. CASE History!Joins(ms, p)
    <2> PICK last, c : /\ Is(last, ms[Len(ms)])
                       /\ Is(c, [last EXCEPT !.content = Append(ms[Len(ms)].content, p)])
      BY DEF Is
    <2>1. /\ ms # <<>> /\ p.kind # "result" /\ Ending(ms).kind # "result" /\ last.role = role
      BY <1>2 DEF History!Joins, History!Last, Ending, Is
    <2>2. Len(ms) > 0 /\ Len(ms) \in 1 .. Len(ms)
      BY <1>1, <2>1, EmptySeq
    <2>3. last \in Told /\ last = ms[Len(ms)]
      BY <2>2, ElementOfSeq DEF Is
    <2>4. Append(last.content, p) \in Seq(TurnParts)
      BY <2>3, AppendProperties DEF Told
    <2>5. c \in Told /\ c.role = last.role /\ c.content = Append(last.content, p)
      BY <2>3, <2>4 DEF Told, Is
    <2>6. u = [ms EXCEPT ![Len(ms)] = c]
      <3>1. u = [ms EXCEPT ![Len(ms)].content = Append(@, p)]
        BY <1>2 DEF History!Project, Is
      <3> QED BY <3>1 DEF Is
    <2>7. /\ u \in Seq(Told) /\ Len(u) = Len(ms) /\ u[Len(ms)] = c
          /\ \A r \in 1 .. Len(ms) : r # Len(ms) => u[r] = ms[r]
      BY <2>2, <2>5, <2>6, ExceptSeq
    <2> QED BY <2>1, <2>2, <2>3, <2>5, <2>7 DEF Joining, Is
  <1>3. CASE ~History!Joins(ms, p)
    <2> PICK c : Is(c, [role |-> role, content |-> <<p>>])
      BY DEF Is
    <2>1. c \in Told /\ c.role = role /\ c.content = <<p>>
      <3>1. <<p>> \in Seq(TurnParts)
        OBVIOUS
      <3> QED BY <1>1, <3>1 DEF Told, Is
    <2>2. u = Append(ms, c)
      BY <1>3 DEF History!Project, Is
    <2>3. /\ u \in Seq(Told) /\ Len(u) = Len(ms) + 1 /\ u[Len(ms) + 1] = c
          /\ \A r \in 1 .. Len(ms) : u[r] = ms[r]
      BY <2>1, <2>2, Grown
    <2> QED BY <2>1, <2>3 DEF Opening, Is
  <1> QED BY <1>2, <1>3

LEMMA ProjectTrace ==
    ASSUME parts \in Seq(TurnParts)
    PROVE  EndsAt(History!to_messages, Seq(Told), <<>>, Projects, parts)
  <1> PICK F, A, B, s : /\ Is(F, Projects) /\ Is(A, Seq(Told)) /\ Is(B, TurnParts) /\ Is(s, parts)
    BY DEF Is
  <1>1. F \in [A -> [B -> A]] /\ <<>> \in A
    BY ProjectMore, EmptySeq DEF Projects, Is
  <1>2. s \in Seq(B) /\ DOMAIN s = 1 .. Len(s) /\ Len(s) \in Nat /\ \A i \in 1 .. Len(s) : s[i] \in B
    BY LenProperties, ElementOfSeq DEF Is
  <1>3. \A t \in SUBSET (1 .. Len(s)) : t # {} => s[Greatest(t)] \in B
    BY <1>2, GreatestIndex
  <1> DEFINE
        Op(ms, p) == History!Project(ms, p)
        Step(g, t) == IF t = {} THEN <<>> ELSE Op(g[t \ {History!Max(t)}], s[History!Max(t)])
        iter == CHOOSE g : g = [t \in SUBSET (1 .. Len(s)) |-> Step(g, t)]
  <1>4. History!to_messages = iter[1 .. Len(s)]
    BY <1>2 DEF History!to_messages, History!FoldLeft, History!MapThenFoldSet, Is
  <1> PICK g \in [SUBSET (1 .. Len(s)) -> A] :
         \A t \in SUBSET (1 .. Len(s)) : Folds(g, <<>>, F, s, t)
    BY <1>1, <1>2, FoldExists
  <1>6. \A r \in A, d \in B : F[r][d] = Op(r, d)
    BY DEF Projects, Is
  <1> HIDE DEF Op
  <1>7. ASSUME NEW t \in SUBSET (1 .. Len(s)) PROVE g[t] = Step(g, t)
    <2>1. t # {} => g[t \ {Greatest(t)}] \in A
      OBVIOUS
    <2> QED BY <1>3, <1>6, <2>1, SameMax DEF Folds
  <1>8. g = [t \in SUBSET (1 .. Len(s)) |-> Step(g, t)]
    BY <1>7
  <1>9. iter = [t \in SUBSET (1 .. Len(s)) |-> Step(iter, t)]
    BY <1>8
  <1> HIDE DEF iter
  <1>10. ASSUME NEW t \in SUBSET (1 .. Len(s)) PROVE Stepped(iter, A, <<>>, F, s, t)
    <2>1. iter[t] = Step(iter, t)
      BY ONLY <1>9, t \in SUBSET (1 .. Len(s))
    <2> QED BY <1>3, <1>6, <2>1, SameMax DEF Stepped
  <1>11. EndsAt(iter[1 .. Len(s)], A, <<>>, F, s)
    <2>1. Iterates(iter, A, B, <<>>, F, s)
      BY <1>1, <1>2, <1>10 DEF Iterates
    <2> QED BY <2>1, FoldTraces
  <1> QED BY <1>4, <1>11 DEF Is

\* A message is of one side, and a result is alone in its own.
Made(ms) ==
    \A r \in 1 .. Len(ms) :
        /\ Len(ms[r].content) > 0
        /\ \A i \in 1 .. Len(ms[r].content) :
             /\ ms[r].role = History!Role(ms[r].content[i])
             /\ ms[r].content[i].kind = "result" => Len(ms[r].content) = 1

\* The messages are made of the first k parts, each result once.
Taken(ms, k) ==
    /\ k = 0 => ms = <<>>
    /\ k > 0 => Len(ms) > 0 /\ Ending(ms) = parts[k]
    /\ \A r \in 1 .. Len(ms) : ms[r].content[1].kind = "result" =>
         \E i \in 1 .. k : ms[r].content[1] = parts[i]
    /\ \A q, r \in 1 .. Len(ms) :
         /\ ms[q].content[1].kind = "result" /\ ms[r].content[1].kind = "result"
         /\ ms[q].content[1].place = ms[r].content[1].place
         => q = r

\* A call ends its message, which its result follows if there is another; and a
\* result follows its call.
Answered(ms) ==
    \A r \in 1 .. Len(ms) : \A i \in 1 .. Len(ms[r].content) :
        /\ ms[r].content[i].kind = "call" =>
             /\ i = Len(ms[r].content)
             /\ r < Len(ms) => Answering(ms[r + 1].content[1], ms[r].content[i])
        /\ ms[r].content[i].kind = "result" =>
             /\ r > 1 /\ ms[r - 1].role = "assistant"
             /\ Answering(ms[r].content[i], ms[r - 1].content[Len(ms[r - 1].content)])

LEMMA ContentTyped ==
    ASSUME NEW ms \in Seq(Told), NEW r \in 1 .. Len(ms)
    PROVE  /\ ms[r] \in Told /\ ms[r].content \in Seq(TurnParts) /\ Len(ms[r].content) \in Nat
           /\ \A i \in 1 .. Len(ms[r].content) : ms[r].content[i] \in TurnParts
  <1>1. ms[r] \in Told
    BY ElementOfSeq
  <1>2. ms[r].content \in Seq(TurnParts)
    BY <1>1 DEF Told
  <1> QED BY <1>1, <1>2, LenProperties, ElementOfSeq

LEMMA OpeningMade ==
    ASSUME NEW ms \in Seq(Told), NEW p \in TurnParts, NEW u \in Seq(Told), Opening(u, ms, p), Made(ms)
    PROVE  Made(u) /\ Len(u) > 0 /\ Ending(u) = p
  <1>1. /\ Len(ms) \in Nat /\ Len(u) = Len(ms) + 1 /\ \A r \in 1 .. Len(ms) : u[r] = ms[r]
        /\ u[Len(u)].role = History!Role(p) /\ u[Len(u)].content = <<p>>
    BY LenProperties DEF Opening
  <1>2. Len(<<p>>) = 1 /\ <<p>>[1] = p /\ \A i \in 1 .. 1 : i = 1
    OBVIOUS
  <1>3. \A r \in 1 .. Len(u) : r = Len(u) \/ r \in 1 .. Len(ms)
    BY <1>1
  <1>4. Len(u) > 0 /\ Ending(u) = p
    BY <1>1, <1>2 DEF Ending
  <1>5. ASSUME NEW r \in 1 .. Len(u)
        PROVE  /\ Len(u[r].content) > 0
               /\ \A i \in 1 .. Len(u[r].content) :
                    /\ u[r].role = History!Role(u[r].content[i])
                    /\ u[r].content[i].kind = "result" => Len(u[r].content) = 1
    <2>1. CASE r = Len(u)
      <3> PICK d : Is(d, <<p>>)
        BY DEF Is
      <3>1. Len(d) = 1 /\ d[1] = p /\ u[r].content = d /\ u[r].role = History!Role(p)
        BY <1>1, <1>2, <2>1 DEF Is
      <3>2. \A i \in 1 .. Len(d) : d[i] = p
        <4>1. Len(d) = 1 /\ d[1] = p
          BY <3>1
        <4> QED BY ONLY <4>1
      <3>3. /\ Len(d) > 0
            /\ \A i \in 1 .. Len(d) : /\ u[r].role = History!Role(d[i])
                                      /\ d[i].kind = "result" => Len(d) = 1
        BY ONLY <3>1, <3>2
      <3> QED BY <3>1, <3>3
    <2>2. CASE r \in 1 .. Len(ms)
      BY <1>1, <2>2 DEF Made
    <2> QED BY <1>3, <2>1, <2>2
  <1> QED BY <1>4, <1>5 DEF Made

LEMMA JoiningMade ==
    ASSUME NEW ms \in Seq(Told), NEW p \in TurnParts, NEW u \in Seq(Told), Joining(u, ms, p), Made(ms)
    PROVE  /\ Made(u) /\ Len(u) > 0 /\ Ending(u) = p
           /\ \A r \in 1 .. Len(ms) : u[r].content[1] = ms[r].content[1]
           /\ ms[Len(ms)].content[1].kind # "result"
           /\ \A i \in 1 .. Len(ms[Len(ms)].content) : /\ u[Len(ms)].content[i] = ms[Len(ms)].content[i]
                                                       /\ ms[Len(ms)].content[i].kind # "result"
           /\ Len(u[Len(ms)].content) = Len(ms[Len(ms)].content) + 1
           /\ Len(ms[Len(ms)].content) \in Nat
  <1> PICK c, d, z : Is(c, ms[Len(ms)].content) /\ Is(d, u[Len(ms)].content) /\ Is(z, Len(ms))
    BY DEF Is
  <1>1. /\ z \in Nat /\ z = Len(ms) /\ z > 0 /\ p.kind # "result" /\ Ending(ms).kind # "result" /\ Len(u) = z
        /\ \A r \in 1 .. z : r # z => u[r] = ms[r]
        /\ ms[z].role = History!Role(p) /\ u[z].role = History!Role(p)
        /\ d = Append(c, p) /\ c = ms[z].content /\ d = u[z].content
        /\ z \in 1 .. z
    <2>1. z \in Nat
      BY LenProperties DEF Is
    <2>2. z > 0
      BY DEF Joining, Is
    <2> QED BY <2>1, <2>2 DEF Joining, Is
  <1>2. c \in Seq(TurnParts) /\ Len(c) \in Nat /\ Len(c) > 0
    <2>1. c \in Seq(TurnParts) /\ Len(c) \in Nat
      BY <1>1, ContentTyped
    <2> QED BY <1>1, <2>1 DEF Made
  <1>3. /\ Len(d) = Len(c) + 1 /\ d[Len(c) + 1] = p
        /\ \A i \in 1 .. Len(c) : d[i] = c[i]
        /\ \A i \in 1 .. Len(c) + 1 : i = Len(c) + 1 \/ i \in 1 .. Len(c)
    BY <1>1, <1>2, Grown
  <1>4. \A i \in 1 .. Len(c) : c[i].kind # "result"
    <2>1. Ending(ms) = c[Len(c)]
      BY <1>1 DEF Ending
    <2> SUFFICES ASSUME NEW i \in 1 .. Len(c), c[i].kind = "result" PROVE FALSE
      OBVIOUS
    <2>2. Len(c) = 1
      BY <1>1 DEF Made
    <2> QED BY <1>1, <1>2, <2>1, <2>2
  <1>5. 1 \in 1 .. Len(c)
    BY <1>2
  <1>6. Made(u)
    <2> SUFFICES ASSUME NEW r \in 1 .. Len(u)
                 PROVE  /\ Len(u[r].content) > 0
                        /\ \A i \in 1 .. Len(u[r].content) :
                             /\ u[r].role = History!Role(u[r].content[i])
                             /\ u[r].content[i].kind = "result" => Len(u[r].content) = 1
      BY DEF Made
    <2>1. CASE r = z
      <3>1. \A i \in 1 .. Len(c) : ms[z].role = History!Role(c[i])
        BY <1>1 DEF Made
      <3>2. u[r].content = d /\ Len(d) > 0
        BY <1>1, <1>2, <1>3, <2>1
      <3>3. u[r].role = History!Role(p)
        BY <1>1, <2>1
      <3>4. \A i \in 1 .. Len(d) : u[r].role = History!Role(d[i]) /\ d[i].kind # "result"
        BY ONLY <1>1, <1>3, <1>4, <3>1, <3>3
      <3> QED BY ONLY <3>2, <3>4
    <2>2. CASE r # z
      <3>1. u[r] = ms[r] /\ r \in 1 .. Len(ms)
        BY <1>1, <2>2
      <3> QED BY <3>1 DEF Made
    <2> QED BY <2>1, <2>2
  <1>7. Len(u) > 0 /\ Ending(u) = p
    BY <1>1, <1>3 DEF Ending
  <1>8. \A r \in 1 .. Len(ms) : u[r].content[1] = ms[r].content[1]
    BY <1>1, <1>3, <1>5
  <1>9. /\ c[1].kind # "result" /\ Len(d) = Len(c) + 1 /\ Len(c) \in Nat
        /\ \A i \in 1 .. Len(c) : d[i] = c[i] /\ c[i].kind # "result"
    BY <1>2, <1>3, <1>4, <1>5
  <1> QED BY <1>6, <1>7, <1>8, <1>9 DEF Is

LEMMA ProjectMade ==
    ASSUME NEW ms \in Seq(Told), NEW p \in TurnParts, NEW u, Is(u, History!Project(ms, p)), Made(ms)
    PROVE  u \in Seq(Told) /\ Made(u)
  BY ProjectMore, OpeningMade, JoiningMade

\* One more part.
LEMMA ProjectTaken ==
    ASSUME parts \in Entries, NEW k \in Nat, k + 1 \in 1 .. Len(parts),
           NEW ms \in Seq(Told), Made(ms), Taken(ms, k),
           NEW u, Is(u, History!Project(ms, parts[k + 1]))
    PROVE  Taken(u, k + 1)
  <1> PICK p : Is(p, parts[k + 1])
    BY DEF Is
  <1>1. /\ p \in TurnParts /\ p = parts[k + 1] /\ Len(ms) \in Nat /\ u \in Seq(Told)
        /\ Opening(u, ms, p) \/ Joining(u, ms, p)
    <2>1. p \in TurnParts /\ p = parts[k + 1] /\ Is(u, History!Project(ms, p))
      BY ElementOfSeq DEF Entries, Is
    <2> QED BY <2>1, ProjectMore, LenProperties
  <1>2. /\ \A i \in 1 .. k : i \in 1 .. k + 1 /\ i \in 1 .. Len(parts) /\ i # k + 1
        /\ k + 1 \in 1 .. k + 1
    <2>1. Len(parts) \in Nat
      BY LenProperties DEF Entries
    <2> QED BY <2>1
  <1>3. CASE Opening(u, ms, p)
    <2>1. /\ Len(u) = Len(ms) + 1 /\ \A r \in 1 .. Len(ms) : u[r] = ms[r]
          /\ u[Len(u)].content[1] = p
      <3>1. <<p>>[1] = p
        OBVIOUS
      <3> QED BY <1>3, <3>1 DEF Opening
    <2>2. Len(u) > 0 /\ Ending(u) = parts[k + 1]
      BY <1>1, <1>3, OpeningMade
    <2>3. \A r \in 1 .. Len(u) : r = Len(u) \/ r \in 1 .. Len(ms)
      BY <1>1, <2>1
    <2>4. \A r \in 1 .. Len(u) : u[r].content[1].kind = "result" =>
            \E i \in 1 .. k + 1 : u[r].content[1] = parts[i]
      BY <1>1, <1>2, <2>1, <2>3 DEF Taken
    <2>5. \A r \in 1 .. Len(ms) : ~(/\ ms[r].content[1].kind = "result" /\ p.kind = "result"
                                    /\ ms[r].content[1].place = p.place)
      <3> SUFFICES ASSUME NEW r \in 1 .. Len(ms), ms[r].content[1].kind = "result", p.kind = "result",
                          ms[r].content[1].place = p.place
                   PROVE  FALSE
        OBVIOUS
      <3> PICK i \in 1 .. k : ms[r].content[1] = parts[i]
        BY DEF Taken
      <3> QED BY <1>1, <1>2 DEF Entries, Placed
    <2>6. ASSUME NEW q \in 1 .. Len(u), NEW r \in 1 .. Len(u),
                 u[q].content[1].kind = "result", u[r].content[1].kind = "result",
                 u[q].content[1].place = u[r].content[1].place
          PROVE  q = r
      <3>1. CASE q \in 1 .. Len(ms) /\ r \in 1 .. Len(ms)
        BY <2>1, <2>6, <3>1 DEF Taken
      <3>2. CASE q = Len(u) /\ r = Len(u)
        BY <3>2
      <3>3. CASE q \in 1 .. Len(ms) /\ r = Len(u)
        BY <2>1, <2>5, <2>6, <3>3
      <3>4. CASE q = Len(u) /\ r \in 1 .. Len(ms)
        BY <2>1, <2>5, <2>6, <3>4
      <3> QED BY <2>3, <3>1, <3>2, <3>3, <3>4
    <2> QED BY <2>2, <2>4, <2>6 DEF Taken
  <1>4. CASE Joining(u, ms, p)
    <2>1. Len(u) > 0 /\ Ending(u) = p /\ \A r \in 1 .. Len(ms) : u[r].content[1] = ms[r].content[1]
      BY <1>1, <1>4, JoiningMade
    <2>2. Len(u) = Len(ms)
      BY <1>4 DEF Joining
    <2>3. \A r \in 1 .. Len(ms) : ms[r].content[1].kind = "result" =>
            \E i \in 1 .. k : ms[r].content[1] = parts[i]
      BY DEF Taken
    <2>4. \A r \in 1 .. Len(u) : u[r].content[1].kind = "result" =>
            \E i \in 1 .. k + 1 : u[r].content[1] = parts[i]
      BY ONLY <1>2, <2>1, <2>2, <2>3
    <2>5. \A q, r \in 1 .. Len(u) :
            /\ u[q].content[1].kind = "result" /\ u[r].content[1].kind = "result"
            /\ u[q].content[1].place = u[r].content[1].place
            => q = r
      BY <2>1, <2>2 DEF Taken
    <2> QED BY <1>1, <2>1, <2>4, <2>5 DEF Taken
  <1> QED BY <1>1, <1>3, <1>4

\* Without delegations a call's result is the next part.
LEMMA PairedNext ==
    ASSUME parts \in Entries, ~History!Delegating, NEW i \in 1 .. Len(parts)
    PROVE  /\ parts[i].kind = "call" /\ i < Len(parts) => Answering(parts[i + 1], parts[i])
           /\ parts[i].kind = "result" => i > 1 /\ Answering(parts[i], parts[i - 1])
  <1>1. DOMAIN parts = 1 .. Len(parts)
    BY LenProperties DEF Entries
  <1>2. parts[i].name # Delegate
    BY <1>1 DEF History!Delegating
  <1> QED BY <1>2 DEF Entries, Paired, OwnCall, OwnResult

LEMMA ProjectAnswered ==
    ASSUME parts \in Entries, ~History!Delegating, NEW k \in Nat, k + 1 \in 1 .. Len(parts),
           NEW ms \in Seq(Told), Made(ms), Taken(ms, k), Answered(ms),
           NEW u, Is(u, History!Project(ms, parts[k + 1]))
    PROVE  Answered(u)
  <1> PICK p, z : Is(p, parts[k + 1]) /\ Is(z, Len(ms))
    BY DEF Is
  <1>1. /\ p \in TurnParts /\ p = parts[k + 1] /\ z = Len(ms) /\ z \in Nat /\ u \in Seq(Told)
        /\ Opening(u, ms, p) \/ Joining(u, ms, p)
    <2>1. p \in TurnParts /\ p = parts[k + 1] /\ Is(u, History!Project(ms, p))
      BY ElementOfSeq DEF Entries, Is
    <2> QED BY <2>1, ProjectMore, LenProperties DEF Is
  <1>2. /\ z > 0 => k > 0 /\ Ending(ms) = parts[k] /\ k \in 1 .. Len(parts) /\ k < Len(parts)
        /\ k > 0 => z > 0
    <2>1. Len(parts) \in Nat
      BY LenProperties DEF Entries
    <2>2. z > 0 => ms # <<>>
      BY <1>1
    <2> QED BY <1>1, <2>1, <2>2 DEF Taken
  <1>3. z > 0 /\ Ending(ms).kind = "call" => Answering(p, Ending(ms))
    BY <1>1, <1>2, PairedNext
  <1>4. p.kind = "result" => z > 0 /\ Answering(p, Ending(ms))
    <2>1. p.kind = "result" => k + 1 > 1 /\ Answering(p, parts[(k + 1) - 1])
      BY <1>1, PairedNext
    <2>2. (k + 1) - 1 = k
      OBVIOUS
    <2> QED BY <1>2, <2>1, <2>2
  <1>5. z > 0 => /\ z \in 1 .. z /\ Len(ms[z].content) \in 1 .. Len(ms[z].content)
                 /\ Ending(ms) = ms[z].content[Len(ms[z].content)]
                 /\ Len(ms[z].content) \in Nat
    <2> SUFFICES ASSUME z > 0
                 PROVE  /\ z \in 1 .. z /\ Len(ms[z].content) \in 1 .. Len(ms[z].content)
                        /\ Ending(ms) = ms[z].content[Len(ms[z].content)]
                        /\ Len(ms[z].content) \in Nat
      OBVIOUS
    <2>1. z \in 1 .. z
      BY <1>1
    <2>2. Len(ms[z].content) \in Nat /\ Len(ms[z].content) > 0
      BY <1>1, <2>1, ContentTyped DEF Made
    <2> QED BY <1>1, <2>1, <2>2 DEF Ending
  <1>6. ASSUME Opening(u, ms, p), NEW r \in 1 .. Len(u), NEW i \in 1 .. Len(u[r].content)
        PROVE  /\ u[r].content[i].kind = "call" =>
                    /\ i = Len(u[r].content)
                    /\ r < Len(u) => Answering(u[r + 1].content[1], u[r].content[i])
               /\ u[r].content[i].kind = "result" =>
                    /\ r > 1 /\ u[r - 1].role = "assistant"
                    /\ Answering(u[r].content[i], u[r - 1].content[Len(u[r - 1].content)])
    <2> PICK d : Is(d, <<p>>)
      BY DEF Is
    <2>1. Len(d) = 1 /\ d[1] = p
      BY DEF Is
    <2>2. /\ Len(u) = z + 1 /\ \A q \in 1 .. z : u[q] = ms[q]
          /\ u[z + 1].role = History!Role(p) /\ u[z + 1].content = d
      BY <1>1, <1>6 DEF Opening, Is
    <2>3. CASE r = z + 1
      <3>1. u[r].content = d /\ i = 1 /\ ~(r < Len(u)) /\ u[r].content[i] = p
        BY <1>1, <1>6, <2>1, <2>2, <2>3
      <3>2. ASSUME p.kind = "result"
            PROVE  /\ r > 1 /\ u[r - 1].role = "assistant"
                   /\ Answering(p, u[r - 1].content[Len(u[r - 1].content)])
        <4>1. r > 1 /\ r - 1 = z /\ u[r - 1] = ms[z]
          BY <1>1, <1>4, <1>5, <2>2, <2>3, <3>2
        <4>2. Answering(p, Ending(ms)) /\ z \in 1 .. Len(ms)
          BY <1>1, <1>4, <1>5, <3>2
        <4>3. History!Role(Ending(ms)) = "assistant"
          BY <4>2 DEF Answering, History!Role
        <4>4. ms[z].role = "assistant"
          BY <1>4, <1>5, <3>2, <4>2, <4>3 DEF Made
        <4> QED BY <1>4, <1>5, <3>2, <4>1, <4>2, <4>4
      <3> QED BY <2>1, <3>1, <3>2
    <2>4. CASE r \in 1 .. z
      <3>1. u[r] = ms[r] /\ r \in 1 .. Len(ms) /\ i \in 1 .. Len(ms[r].content) /\ z > 0 /\ r \in Nat
        BY <1>1, <1>6, <2>2, <2>4
      <3>2. /\ ms[r].content[i].kind = "call" =>
                 /\ i = Len(ms[r].content)
                 /\ r < Len(ms) => Answering(ms[r + 1].content[1], ms[r].content[i])
            /\ ms[r].content[i].kind = "result" =>
                 /\ r > 1 /\ ms[r - 1].role = "assistant"
                 /\ Answering(ms[r].content[i], ms[r - 1].content[Len(ms[r - 1].content)])
        BY <3>1 DEF Answered
      <3>3. r > 1 => u[r - 1] = ms[r - 1]
        <4>1. r > 1 => r - 1 \in 1 .. z
          BY <1>1, <2>4
        <4> QED BY <2>2, <4>1
      <3>4. r < z => r + 1 \in 1 .. z /\ u[r + 1] = ms[r + 1]
        <4>1. r < z => r + 1 \in 1 .. z
          BY <1>1, <2>4
        <4> QED BY <2>2, <4>1
      <3>5. r = z /\ ms[r].content[i].kind = "call" => Answering(u[r + 1].content[1], u[r].content[i])
        BY <1>3, <1>5, <2>1, <2>2, <3>1, <3>2
      <3>6. r = z \/ r < z
        BY <1>1, <2>4
      <3> QED BY <1>1, <3>1, <3>2, <3>3, <3>4, <3>5, <3>6
    <2>5. r = z + 1 \/ r \in 1 .. z
      BY <1>1, <1>6, <2>2
    <2> QED BY <2>3, <2>4, <2>5
  <1>7. ASSUME Joining(u, ms, p), NEW r \in 1 .. Len(u), NEW i \in 1 .. Len(u[r].content)
        PROVE  /\ u[r].content[i].kind = "call" =>
                    /\ i = Len(u[r].content)
                    /\ r < Len(u) => Answering(u[r + 1].content[1], u[r].content[i])
               /\ u[r].content[i].kind = "result" =>
                    /\ r > 1 /\ u[r - 1].role = "assistant"
                    /\ Answering(u[r].content[i], u[r - 1].content[Len(u[r - 1].content)])
    <2> PICK c, d : Is(c, ms[z].content) /\ Is(d, u[z].content)
      BY DEF Is
    <2>1. c = ms[z].content /\ d = u[z].content
      BY DEF Is
    <2>2. /\ z > 0 /\ p.kind # "result" /\ Len(u) = z
          /\ \A q \in 1 .. z : q # z => u[q] = ms[q]
          /\ d = Append(c, p)
      BY <1>1, <1>7, <2>1 DEF Joining
    <2>3. /\ \A q \in 1 .. z : u[q].content[1] = ms[q].content[1]
          /\ \A j \in 1 .. Len(c) : d[j] = c[j] /\ c[j].kind # "result"
          /\ Len(d) = Len(c) + 1 /\ Len(c) \in Nat
      BY <1>1, <1>7, <2>1, JoiningMade
    <2>4. d[Len(c) + 1] = p
      <3>1. c \in Seq(TurnParts)
        BY <1>1, <1>5, <2>1, <2>2, ContentTyped
      <3> QED BY <1>1, <2>2, <3>1, AppendProperties
    <2>5. \A j \in 1 .. Len(c) : c[j].kind # "call"
      <3> SUFFICES ASSUME NEW j \in 1 .. Len(c), c[j].kind = "call" PROVE FALSE
        OBVIOUS
      <3>1. j = Len(c)
        BY <1>1, <1>5, <2>1, <2>2 DEF Answered
      <3>2. Ending(ms) = c[j]
        BY <1>5, <2>1, <2>2, <3>1
      <3> QED BY <1>3, <2>2, <3>2 DEF Answering
    <2>6. CASE r = z
      <3>1. u[r].content = d /\ ~(r < Len(u)) /\ (i \in 1 .. Len(c) \/ i = Len(c) + 1)
        <4>1. u[r].content = d /\ ~(r < Len(u))
          <5>1. Len(u) = z /\ z \in Nat
            BY <1>1, <2>2
          <5> QED BY ONLY <2>1, <2>6, <5>1
        <4>2. i \in 1 .. Len(c) + 1
          BY <1>7, <2>3, <4>1
        <4> QED BY <2>3, <4>1, <4>2
      <3>2. CASE i \in 1 .. Len(c)
        BY <2>3, <2>5, <3>1, <3>2
      <3>3. CASE i = Len(c) + 1
        BY <2>2, <2>3, <2>4, <3>1, <3>3
      <3> QED BY <3>1, <3>2, <3>3
    <2>7. CASE r # z
      <3>1. /\ r \in 1 .. z /\ r \in Nat /\ r < z /\ u[r] = ms[r] /\ r \in 1 .. Len(ms)
            /\ i \in 1 .. Len(ms[r].content) /\ r + 1 \in 1 .. z /\ r < Len(ms)
            /\ r > 1 => r - 1 \in 1 .. z /\ r - 1 # z
        BY <1>1, <1>7, <2>2, <2>7
      <3>2. /\ ms[r].content[i].kind = "call" =>
                 /\ i = Len(ms[r].content)
                 /\ r < Len(ms) => Answering(ms[r + 1].content[1], ms[r].content[i])
            /\ ms[r].content[i].kind = "result" =>
                 /\ r > 1 /\ ms[r - 1].role = "assistant"
                 /\ Answering(ms[r].content[i], ms[r - 1].content[Len(ms[r - 1].content)])
        BY <3>1 DEF Answered
      <3>3. u[r + 1].content[1] = ms[r + 1].content[1] /\ (r > 1 => u[r - 1] = ms[r - 1])
        BY <2>2, <2>3, <3>1
      <3> QED BY <3>1, <3>2, <3>3
    <2> QED BY <2>6, <2>7
  <1> QED BY <1>1, <1>6, <1>7 DEF Answered

\* What to_messages makes of what is recorded.
LEMMA MessagesMade ==
    ASSUME parts \in Entries
    PROVE  /\ History!to_messages \in Seq(Told) /\ Made(History!to_messages)
           /\ Taken(History!to_messages, Len(parts))
           /\ ~History!Delegating => Answered(History!to_messages)
  <1> PICK F, ms : Is(F, Projects) /\ Is(ms, History!to_messages)
    BY DEF Is
  <1> DEFINE
        Holds(q, k) == Made(q) /\ Taken(q, k) /\ (~History!Delegating => Answered(q))
        P == {w \in Nat \X Seq(Told) : Holds(w[2], w[1])}
  <1>1. parts \in Seq(TurnParts)
    BY DEF Entries
  <1>2. EndsAt(ms, Seq(Told), <<>>, F, parts)
    BY <1>1, ProjectTrace DEF Is
  <1>3. <<0, <<>>>> \in P
    <2> PICK none : Is(none, <<>>)
      BY DEF Is
    <2>1. none = <<>> /\ none \in Seq(Told) /\ Len(none) = 0 /\ 1 .. 0 = {}
      BY FirstIndices, EmptySeq DEF Is
    <2>2. Holds(none, 0)
      BY <2>1 DEF Made, Taken, Answered
    <2> HIDE DEF Holds
    <2>3. <<0, none>> \in P
      <3>1. none \in Seq(Told) /\ 0 \in Nat
        BY <2>1
      <3> QED BY ONLY <2>2, <3>1
    <2> QED BY <2>3 DEF Is
  <1>4. ASSUME NEW k \in Nat, NEW v \in Seq(Told), k + 1 \in 1 .. Len(parts), <<k, v>> \in P
        PROVE  <<k + 1, F[v][parts[k + 1]]>> \in P
    <2> PICK u : Is(u, History!Project(v, parts[k + 1]))
      BY DEF Is
    <2>1. Holds(v, k)
      BY <1>4
    <2>2. parts[k + 1] \in TurnParts
      BY <1>1, <1>4, ElementOfSeq
    <2>3. u \in Seq(Told) /\ Made(u)
      BY <2>1, <2>2, ProjectMade
    <2>4. Taken(u, k + 1) /\ (~History!Delegating => Answered(u))
      BY <1>4, <2>1, ProjectTaken, ProjectAnswered
    <2>5. Holds(u, k + 1)
      BY <2>3, <2>4
    <2>6. F[v][parts[k + 1]] = u
      BY <2>2 DEF Projects, Is
    <2> HIDE DEF Holds
    <2> QED BY <2>3, <2>5, <2>6
  <1>5. ms \in Seq(Told) /\ <<Len(parts), ms>> \in P
    <2> HIDE DEF P
    <2>1. Preserves(P, Seq(Told), F, parts)
      BY <1>4 DEF Preserves
    <2> QED BY ONLY <1>1, <1>2, <1>3, <2>1, FoldInduction
  <1> QED BY <1>5 DEF Is

\* A call is answered right after its message, and nothing else is.
LEMMA AnswersAsked ==
    ASSUME NEW ms \in Seq(Told), Made(ms), Answered(ms), NEW m \in 1 .. Len(ms),
           ms[m].role = "assistant", m = Len(ms) => Ending(ms).kind # "call"
    PROVE  History!Answers(ms, m) = History!Asked(ms, m)
  <1> PICK c : Is(c, ms[m].content)
    BY DEF Is
  <1>1. /\ c = ms[m].content /\ c \in Seq(TurnParts) /\ Len(c) \in Nat /\ DOMAIN c = 1 .. Len(c)
        /\ Len(c) > 0 /\ Len(ms) \in Nat /\ m \in Nat
    BY ContentTyped, LenProperties DEF Is, Made
  <1>2. ASSUME NEW r \in History!Replies(ms, m), ms[r].content[1].kind = "result"
        PROVE  /\ r = m + 1 /\ r <= Len(ms) /\ Answering(ms[r].content[1], c[Len(c)])
    <2>1. r \in 1 .. Len(ms) /\ r \in (m + 1) .. Len(ms) /\ \A k \in (m + 1) .. r : ms[k].role # "assistant"
      BY <1>1 DEF History!Replies
    <2>2. 1 \in 1 .. Len(ms[r].content)
      <3>1. Len(ms[r].content) \in Nat /\ Len(ms[r].content) > 0
        BY <2>1, ContentTyped DEF Made
      <3> QED BY <3>1
    <2>3. /\ ms[r - 1].role = "assistant"
          /\ Answering(ms[r].content[1], ms[r - 1].content[Len(ms[r - 1].content)])
      BY <1>2, <2>1, <2>2 DEF Answered
    <2>4. r = m + 1
      <3>1. r # m + 1 => r - 1 \in (m + 1) .. r
        BY <1>1, <2>1
      <3> QED BY <2>1, <2>3, <3>1
    <2>5. r - 1 = m /\ r <= Len(ms)
      BY <1>1, <2>1, <2>4
    <2> QED BY <1>1, <2>3, <2>4, <2>5
  <1>3. ASSUME NEW i \in 1 .. Len(c), c[i].kind = "call"
        PROVE  /\ i = Len(c) /\ m + 1 \in History!Replies(ms, m)
               /\ Answering(ms[m + 1].content[1], c[i])
    <2>1. i = Len(c) /\ (m < Len(ms) => Answering(ms[m + 1].content[1], c[i]))
      BY <1>1, <1>3 DEF Answered
    <2>2. m # Len(ms)
      BY <1>1, <1>3, <2>1 DEF Ending
    <2>3. m < Len(ms) /\ m + 1 \in 1 .. Len(ms) /\ m + 1 \in (m + 1) .. Len(ms)
          /\ \A k \in (m + 1) .. (m + 1) : k = m + 1
      BY <1>1, <2>2
    <2>4. ms[m + 1].role # "assistant"
      <3>1. 1 \in 1 .. Len(ms[m + 1].content)
        <4>1. Len(ms[m + 1].content) \in Nat /\ Len(ms[m + 1].content) > 0
          BY <2>3, ContentTyped DEF Made
        <4> QED BY <4>1
      <3>2. ms[m + 1].role = History!Role(ms[m + 1].content[1])
        BY <2>3, <3>1 DEF Made
      <3>3. ms[m + 1].content[1].kind = "result"
        BY <2>1, <2>3 DEF Answering
      <3> QED BY <3>2, <3>3 DEF History!Role
    <2> QED BY <2>1, <2>3, <2>4 DEF History!Replies
  <1>4. ASSUME NEW g \in History!Answers(ms, m) PROVE g \in History!Asked(ms, m)
    <2> PICK r \in History!Replies(ms, m) : ms[r].content[1].kind = "result" /\ g = ms[r].content[1].place
      BY <1>4 DEF History!Answers
    <2>1. Answering(ms[r].content[1], c[Len(c)])
      BY <1>2
    <2>2. c[Len(c)].kind = "call" /\ g = c[Len(c)].place /\ Len(c) \in DOMAIN c
      BY <1>1, <2>1 DEF Answering
    <2> QED BY <1>1, <2>2 DEF History!Asked
  <1>5. ASSUME NEW g \in History!Asked(ms, m) PROVE g \in History!Answers(ms, m)
    <2> PICK i \in 1 .. Len(c) : c[i].kind = "call" /\ g = c[i].place
      BY <1>1, <1>5 DEF History!Asked
    <2>1. m + 1 \in History!Replies(ms, m) /\ Answering(ms[m + 1].content[1], c[i])
      BY <1>3
    <2> QED BY <2>1 DEF History!Answers, Answering
  <1> QED BY <1>4, <1>5

LEMMA CallsAnswered == HistoryInv => History!CallsAnsweredNext
  <1> SUFFICES ASSUME HistoryInv, ~History!Delegating,
                      NEW m \in DOMAIN History!Rendered, History!Rendered[m].role = "assistant"
               PROVE  History!Answers(History!Rendered, m) = History!Asked(History!Rendered, m)
    BY DEF History!CallsAnsweredNext
  <1> PICK ms : Is(ms, History!to_messages)
    BY DEF Is
  <1>1. /\ ms \in Seq(Told) /\ Made(ms) /\ Taken(ms, Len(parts)) /\ Answered(ms)
        /\ History!Rendered = ms /\ parts \in Entries /\ Complete(parts)
    BY MessagesMade DEF Is, HistoryInv, History!Rendered
  <1>2. m \in 1 .. Len(ms) /\ Len(ms) \in Nat /\ Len(parts) \in Nat
    BY <1>1, LenProperties DEF Entries
  <1>3. Ending(ms).kind # "call"
    <2>1. ms # <<>>
      BY <1>2
    <2>2. Len(parts) > 0 /\ Ending(ms) = parts[Len(parts)]
      BY <1>1, <1>2, <2>1 DEF Taken
    <2>3. Len(parts) \in DOMAIN parts
      BY <1>1, <1>2, <2>2, LenProperties DEF Entries
    <2> QED BY <1>1, <2>2, <2>3 DEF Complete, OwnCall, History!Delegating
  <1> QED BY <1>1, <1>2, <1>3, AnswersAsked

-----------------------------------------------------------------------------
(* Numbers of things.                                                       *)

LEMMA Sized ==
    ASSUME NEW m \in Nat, NEW f
    PROVE  /\ IsFiniteSet({f[i] : i \in 1 .. m})
           /\ Cardinality({f[i] : i \in 1 .. m}) = m <=> \A i, j \in 1 .. m : f[i] = f[j] => i = j
  <1> PICK g, T, I : Is(g, [i \in 1 .. m |-> f[i]]) /\ Is(T, {f[i] : i \in 1 .. m}) /\ Is(I, 1 .. m)
    BY DEF Is
  <1>1. IsFiniteSet(I) /\ Cardinality(I) = m
    BY FS_Interval DEF Is
  <1>2. g \in [I -> T] /\ (\A t \in T : \E i \in I : g[i] = t) /\ (\A i \in I : g[i] = f[i])
    BY DEF Is
  <1>3. g \in Surjection(I, T)
    BY <1>2 DEF Surjection
  <1>4. IsFiniteSet(T) /\ (Cardinality(T) = Cardinality(I) <=> g \in Injection(I, T))
    BY <1>1, <1>3, FS_Surjection
  <1>5. g \in Injection(I, T) <=> \A i, j \in I : f[i] = f[j] => i = j
    BY <1>2 DEF Injection, IsInjective
  <1> QED BY <1>1, <1>4, <1>5 DEF Is

\* The members of S before r.
Before(S, r) == {s \in S : s.place < r.place}

Distinct(S, m) ==
    /\ IsFiniteSet(S) /\ m \in Nat /\ \A r \in S : r.place \in 1 .. m
    /\ \A r, s \in S : r.place = s.place => r = s

LEMMA Ranked ==
    ASSUME NEW S, NEW m, Distinct(S, m), NEW k \in Nat, k < Cardinality(S)
    PROVE  \E r \in S : Cardinality(Before(S, r)) = k
  <1> DEFINE
        UpTo(l) == {s \in S : s.place <= l}
        T == {l \in Nat : k < Cardinality(UpTo(l))}
  <1>1. /\ IsFiniteSet(S) /\ m \in Nat /\ \A r \in S : r.place \in 1 .. m
        /\ \A r, s \in S : r.place = s.place => r = s
    BY DEF Distinct
  <1>2. UpTo(m) = S /\ UpTo(0) = {}
    <2>1. \A r \in S : r.place <= m /\ ~(r.place <= 0)
      BY <1>1
    <2> QED BY <2>1
  <1>3. m \in T
    BY <1>1, <1>2
  <1> PICK l \in T : \A j \in T : l <= j
    BY <1>3, LeastNumber
  <1>4. l \in Nat /\ k < Cardinality(UpTo(l)) /\ l # 0
    <2>1. Cardinality(UpTo(0)) = 0
      BY <1>2, FS_EmptySet
    <2> QED BY <2>1
  <1> PICK p : p = l - 1
    OBVIOUS
  <1>5. p \in Nat /\ l = p + 1 /\ ~(l <= p)
    BY <1>4
  <1>6. p \notin T
    BY <1>5
  <1>7. \A s \in S : s.place <= l <=> s.place <= p \/ s.place = l
    <2>1. \A s \in S : s.place \in Int
      BY <1>1
    <2> QED BY <1>5, <2>1
  <1> PICK lower, upper : Is(lower, UpTo(p)) /\ Is(upper, UpTo(l))
    BY DEF Is
  <1>8. IsFiniteSet(lower) /\ IsFiniteSet(upper) /\ Cardinality(lower) \in Nat /\ Cardinality(upper) \in Nat
    <2>1. lower \in SUBSET S /\ upper \in SUBSET S
      BY DEF Is
    <2>2. IsFiniteSet(lower) /\ IsFiniteSet(upper)
      BY <1>1, <2>1, FS_Subset
    <2> QED BY <2>2, FS_CardinalityType
  <1>9. k < Cardinality(upper) /\ ~(k < Cardinality(lower))
    BY <1>4, <1>5, <1>6 DEF Is
  <1>10. lower # upper
    BY <1>9
  <1> PICK r \in S : r.place = l
    <2>1. upper = {s \in S : s.place <= l} /\ lower = {s \in S : s.place <= p}
      BY DEF Is
    <2> QED BY <1>7, <1>10, <2>1
  <1>11. upper = lower \cup {r} /\ r \notin lower
    <2>1. upper = {s \in S : s.place <= l} /\ lower = {s \in S : s.place <= p}
      BY DEF Is
    <2>2. \A s \in S : s.place = l => s = r
      BY <1>1
    <2>3. ~(r.place <= p)
      BY <1>5
    <2> QED BY <1>7, <2>1, <2>2, <2>3
  <1>12. Cardinality(upper) = Cardinality(lower) + 1
    BY <1>8, <1>11, FS_AddElement
  <1>13. Cardinality(lower) = k
    BY <1>8, <1>9, <1>12
  <1>14. Before(S, r) = lower
    <2>1. lower = {s \in S : s.place <= p}
      BY DEF Is
    <2>2. \A s \in S : s.place < r.place <=> s.place <= p
      <3>1. \A s \in S : s.place \in Int
        BY <1>1
      <3> QED BY <1>5, <3>1
    <2> QED BY <2>1, <2>2 DEF Before
  <1> QED BY <1>13, <1>14

LEMMA RankGrows ==
    ASSUME NEW S, NEW m, Distinct(S, m), NEW r \in S, NEW q \in S,
           Cardinality(Before(S, r)) < Cardinality(Before(S, q))
    PROVE  r.place < q.place
  <1>1. \A s \in S : s.place \in Int
    BY DEF Distinct
  <1> SUFFICES ASSUME q.place <= r.place PROVE FALSE
    BY <1>1
  <1>2. Before(S, q) \in SUBSET Before(S, r)
    BY <1>1 DEF Before
  <1>3. IsFiniteSet(Before(S, r)) /\ IsFiniteSet(Before(S, q))
    <2>1. Before(S, r) \in SUBSET S /\ Before(S, q) \in SUBSET S /\ IsFiniteSet(S)
      BY DEF Before, Distinct
    <2> QED BY <2>1, FS_Subset
  <1>4. Cardinality(Before(S, q)) <= Cardinality(Before(S, r))
    BY <1>2, <1>3, FS_Subset
  <1>5. Cardinality(Before(S, q)) \in Nat /\ Cardinality(Before(S, r)) \in Nat
    BY <1>3, FS_CardinalityType
  <1> QED BY <1>4, <1>5

-----------------------------------------------------------------------------
(* What Ollama is sent.                                                     *)

Unlike(calls) == \A i, j \in 1 .. Len(calls) : calls[i].id = calls[j].id => i = j

\* A result of one of the calls.
Known(r, calls) ==
    r \in TurnParts /\ r.kind = "result" /\ r.place \in 1 .. Len(calls) /\ calls[r.place].id = r.id

\* Calls of their own ids.
Keyings(calls) == Is(calls, History!Calls) /\ calls \in Seq(TurnParts) /\ Unlike(calls)

LEMMA UnlikeCalls ==
    ASSUME NEW calls, Is(calls, History!Calls), calls \in Seq(TurnParts),
           History!Cardinality(History!Ids(Len(History!Calls))) = Len(History!Calls)
    PROVE  Keyings(calls)
  <1> PICK f : Is(f, [i \in 1 .. Len(calls) |-> calls[i].id])
    BY DEF Is
  <1>1. Len(calls) \in Nat /\ \A i \in 1 .. Len(calls) : f[i] = calls[i].id
    BY LenProperties DEF Is
  <1>2. History!Ids(Len(History!Calls)) = {f[i] : i \in 1 .. Len(calls)}
    BY <1>1 DEF History!Ids, Is
  <1>3. Cardinality({f[i] : i \in 1 .. Len(calls)}) = Len(calls)
    BY <1>2, SameCardinality DEF Is
  <1>4. \A i, j \in 1 .. Len(calls) : f[i] = f[j] => i = j
    BY <1>1, <1>3, Sized
  <1> QED BY <1>1, <1>4 DEF Keyings, Unlike

LEMMA KeyedOne ==
    ASSUME NEW calls, Keyings(calls), NEW r, Known(r, calls)
    PROVE  History!NameOf(r.id) = calls[r.place].name /\ History!Position(r.id) = r.place - 1
  <1>1. /\ calls \in Seq(TurnParts) /\ Len(calls) \in Nat /\ DOMAIN calls = 1 .. Len(calls)
        /\ calls = History!Calls /\ \A i, j \in 1 .. Len(calls) : calls[i].id = calls[j].id => i = j
    BY LenProperties DEF Keyings, Unlike, Is
  <1>2. r.place \in 1 .. Len(calls) /\ calls[r.place].id = r.id /\ r.place - 1 \in Nat /\ r.place - 1 <= Len(calls)
    <2>1. r.place \in 1 .. Len(calls) /\ calls[r.place].id = r.id
      BY DEF Known
    <2> QED BY <1>1, <2>1
  <1>3. History!Keyed(r.id) = {r.place}
    BY <1>1, <1>2 DEF History!Keyed
  <1>4. (CHOOSE i \in {r.place} : \A j \in {r.place} : j <= i) = r.place
    <2>1. r.place \in Int
      BY <1>2
    <2> QED BY <2>1
  <1>5. History!NameOf(r.id) = calls[r.place].name
    <2>1. History!NameOf(r.id)
            = History!Calls[CHOOSE i \in History!Keyed(r.id) : \A j \in History!Keyed(r.id) : j <= i].name
      BY DEF History!NameOf
    <2>2. History!NameOf(r.id) = History!Calls[CHOOSE i \in {r.place} : \A j \in {r.place} : j <= i].name
      BY ONLY <1>3, <2>1
    <2> QED BY ONLY <1>1, <1>4, <2>2
  <1>6. History!Cardinality(History!Ids(r.place - 1)) = r.place - 1
    <2> PICK f, l : Is(f, [i \in 1 .. Len(calls) |-> calls[i].id]) /\ l = r.place - 1
      BY DEF Is
    <2>1. \A i \in 1 .. l : i \in 1 .. Len(calls) /\ f[i] = calls[i].id
      BY <1>1, <1>2 DEF Is
    <2>2. History!Ids(l) = {f[i] : i \in 1 .. l}
      BY <1>1, <2>1 DEF History!Ids
    <2>3. \A i, j \in 1 .. l : f[i] = f[j] => i = j
      BY <1>1, <2>1
    <2>4. l \in Nat /\ Cardinality({f[i] : i \in 1 .. l}) = l
      <3>1. l \in Nat
        BY <1>2
      <3> QED BY ONLY <2>3, <3>1, Sized
    <2> QED BY <2>2, <2>4, SameCardinality
  <1>7. History!Position(r.id) = r.place - 1
    BY <1>3, <1>4, <1>6 DEF History!Position
  <1> QED BY <1>5, <1>7

\* Results of calls, each of another.
Waiting(pending, calls) ==
    /\ pending \in Seq(TurnParts)
    /\ \A i \in 1 .. Len(pending) : Known(pending[i], calls)
    /\ \A i, j \in 1 .. Len(pending) : pending[i].place = pending[j].place => i = j

LEMMA SortedWaiting ==
    ASSUME NEW calls, Keyings(calls), NEW pending, Waiting(pending, calls),
           NEW t, Is(t, History!Sorted(pending))
    PROVE  /\ \A i \in 1 .. Len(pending) : Known(t[i], calls)
           /\ \A i, j \in 1 .. Len(pending) : i < j => t[i].place < t[j].place
  <1> PICK S : Is(S, History!Range(pending))
    BY DEF Is
  <1>1. Len(pending) \in Nat /\ DOMAIN pending = 1 .. Len(pending) /\ Len(calls) \in Nat
    BY LenProperties DEF Waiting, Keyings
  <1>2. S = {pending[i] : i \in 1 .. Len(pending)}
    BY <1>1 DEF History!Range, Is
  <1>3. (\A r \in S : Known(r, calls)) /\ \A r, s \in S : r.place = s.place => r = s
    BY <1>2 DEF Waiting
  <1>4. IsFiniteSet(S) /\ Cardinality(S) = Len(pending)
    <2>1. \A i, j \in 1 .. Len(pending) : pending[i] = pending[j] => i = j
      BY DEF Waiting
    <2> QED BY <1>1, <1>2, <2>1, Sized
  <1>5. Distinct(S, Len(calls))
    BY <1>1, <1>3, <1>4 DEF Distinct, Known
  <1>6. ASSUME NEW r \in S
        PROVE  {s \in S : \/ History!Position(s.id) < History!Position(r.id)
                          \/ /\ History!Position(s.id) = History!Position(r.id)
                             /\ s.place < r.place} = Before(S, r)
    <2>1. \A s \in S : History!Position(s.id) = s.place - 1 /\ s.place \in Int
      BY <1>3, KeyedOne DEF Known
    <2>2. \A s \in S : (\/ History!Position(s.id) < History!Position(r.id)
                        \/ /\ History!Position(s.id) = History!Position(r.id)
                           /\ s.place < r.place) <=> s.place < r.place
      BY <2>1
    <2> QED BY <2>2 DEF Before
  <1>7. ASSUME NEW i \in 1 .. Len(pending)
        PROVE  t[i] \in S /\ Cardinality(Before(S, t[i])) = i - 1
    <2>1. t[i] = CHOOSE r \in S :
                   History!Cardinality({s \in S : \/ History!Position(s.id) < History!Position(r.id)
                                                  \/ /\ History!Position(s.id) = History!Position(r.id)
                                                     /\ s.place < r.place}) = i - 1
      BY <1>1 DEF History!Sorted, Is
    <2>2. i - 1 \in Nat /\ i - 1 < Cardinality(S)
      BY <1>1, <1>4
    <2>3. \E r \in S : Cardinality(Before(S, r)) = i - 1
      BY <1>5, <2>2, Ranked
    <2>4. \A r \in S :
            History!Cardinality({s \in S : \/ History!Position(s.id) < History!Position(r.id)
                                           \/ /\ History!Position(s.id) = History!Position(r.id)
                                              /\ s.place < r.place}) = Cardinality(Before(S, r))
      BY <1>6, SameCardinality
    <2> QED BY <2>1, <2>3, <2>4
  <1>8. \A i \in 1 .. Len(pending) : Known(t[i], calls)
    BY <1>3, <1>7
  <1>9. ASSUME NEW i \in 1 .. Len(pending), NEW j \in 1 .. Len(pending), i < j
        PROVE  t[i].place < t[j].place
    <2>1. Cardinality(Before(S, t[i])) < Cardinality(Before(S, t[j]))
      BY <1>1, <1>7, <1>9
    <2> QED BY <1>5, <1>7, <2>1, RankGrows
  <1> QED BY <1>8, <1>9

Tooled == {[role |-> "tool", content |-> <<History!Tool(History!Sorted(pending)[i])>>] :
             pending \in Seq(TurnParts), i \in Nat}
Outgoing == Told \cup Tooled
Carried == [out : Seq(Outgoing), pending : Seq(TurnParts)]
Wirings == [st \in Carried |-> [message \in Told |-> History!Wire(st, message)]]

Tools(pending) ==
    [i \in DOMAIN pending |->
       [role |-> "tool", content |-> <<History!Tool(History!Sorted(pending)[i])>>]]

LEMMA ToolsTyped ==
    ASSUME NEW pending \in Seq(TurnParts), NEW tools, Is(tools, Tools(pending)),
           NEW t, Is(t, History!Sorted(pending))
    PROVE  /\ tools \in Seq(Outgoing) /\ Len(tools) = Len(pending)
           /\ \A i \in 1 .. Len(pending) :
                tools[i].role = "tool" /\ tools[i].content[1] = History!Tool(t[i])
  <1>1. Len(pending) \in Nat /\ DOMAIN pending = 1 .. Len(pending)
    BY LenProperties
  <1>2. ASSUME NEW i \in 1 .. Len(pending)
        PROVE  /\ tools[i] = [role |-> "tool", content |-> <<History!Tool(t[i])>>]
               /\ tools[i] \in Outgoing
    <2>1. tools[i] = [role |-> "tool", content |-> <<History!Tool(History!Sorted(pending)[i])>>]
      BY <1>1 DEF Tools, Is
    <2>2. i \in Nat
      BY <1>1
    <2>3. tools[i] \in Tooled
      BY <2>1, <2>2 DEF Tooled
    <2> QED BY <2>1, <2>3 DEF Outgoing, Is
  <1>3. tools \in [1 .. Len(pending) -> Outgoing]
    <2>1. tools = [i \in 1 .. Len(pending) |-> tools[i]]
      BY <1>1 DEF Tools, Is
    <2> QED BY ONLY <1>2, <2>1
  <1>4. tools \in Seq(Outgoing) /\ Len(tools) = Len(pending)
    BY <1>1, <1>3, SeqDef, LenProperties
  <1>5. ASSUME NEW i \in 1 .. Len(pending)
        PROVE  tools[i].role = "tool" /\ tools[i].content[1] = History!Tool(t[i])
    <2> PICK x : Is(x, History!Tool(t[i]))
      BY DEF Is
    <2>1. tools[i] = [role |-> "tool", content |-> <<x>>]
      BY <1>2 DEF Is
    <2>2. tools[i].role = "tool" /\ tools[i].content[1] = x
      BY <2>1
    <2> QED BY <2>2 DEF Is
  <1> QED BY <1>4, <1>5

LEMMA FlushedTyped ==
    ASSUME NEW st \in Carried, NEW tools, Is(tools, Tools(st.pending)), NEW u, Is(u, History!Flushed(st))
    PROVE  u \in Carried /\ u.pending = <<>> /\ u.out = st.out \o tools
  <1>1. st.out \in Seq(Outgoing) /\ st.pending \in Seq(TurnParts)
    BY DEF Carried
  <1>2. tools \in Seq(Outgoing)
    <2> PICK t : Is(t, History!Sorted(st.pending))
      BY DEF Is
    <2> QED BY <1>1, ToolsTyped
  <1> PICK whole : Is(whole, st.out \o tools)
    BY DEF Is
  <1>3. whole \in Seq(Outgoing)
    BY <1>1, <1>2, ConcatProperties DEF Is
  <1>4. u = [out |-> whole, pending |-> <<>>]
    BY DEF History!Flushed, Tools, Is
  <1>5. u.out = whole /\ u.pending = <<>> /\ u \in Carried
    BY <1>3, <1>4, EmptySeq DEF Carried
  <1> QED BY <1>5 DEF Is

\* A result is held back, and another message is sent after those that were.
Wired(u, st, message, flushed) ==
    /\ History!IsResult(message) =>
         u.pending = st.pending \o message.content /\ u.out = st.out
    /\ ~History!IsResult(message) =>
         u.pending = <<>> /\ u.out = Append(flushed.out, message)

LEMMA WireTyped ==
    ASSUME NEW st \in Carried, NEW message \in Told, NEW u, Is(u, History!Wire(st, message)),
           NEW flushed, Is(flushed, History!Flushed(st))
    PROVE  u \in Carried /\ flushed \in Carried /\ Wired(u, st, message, flushed)
  <1>1. /\ st.out \in Seq(Outgoing) /\ st.pending \in Seq(TurnParts)
        /\ message.content \in Seq(TurnParts) /\ message \in Outgoing
    BY DEF Carried, Told, Outgoing
  <1>2. flushed \in Carried /\ flushed.pending = <<>> /\ flushed.out \in Seq(Outgoing)
    <2> PICK tools : Is(tools, Tools(st.pending))
      BY DEF Is
    <2>1. flushed \in Carried /\ flushed.pending = <<>>
      BY FlushedTyped
    <2> QED BY <2>1 DEF Carried
  <1>3. CASE History!IsResult(message)
    <2> PICK more : Is(more, st.pending \o message.content)
      BY DEF Is
    <2>1. more \in Seq(TurnParts)
      BY <1>1, ConcatProperties DEF Is
    <2>2. u = [st EXCEPT !.pending = more]
      BY <1>3 DEF History!Wire, Is
    <2>3. u.pending = more /\ u.out = st.out /\ u \in Carried
      BY <2>1, <2>2 DEF Carried
    <2> QED BY <1>2, <1>3, <2>3 DEF Is, Wired
  <1>4. CASE ~History!IsResult(message)
    <2> PICK more : Is(more, Append(flushed.out, message))
      BY DEF Is
    <2>1. more \in Seq(Outgoing)
      BY <1>1, <1>2, AppendProperties DEF Is
    <2>2. u = [flushed EXCEPT !.out = more]
      BY <1>4 DEF History!Wire, Is
    <2>3. u.pending = <<>> /\ u.out = more /\ u \in Carried
      BY <1>2, <2>1, <2>2 DEF Carried
    <2> QED BY <1>2, <1>4, <2>3 DEF Is, Wired
  <1> QED BY <1>3, <1>4

Unsent == [out |-> <<>>, pending |-> <<>>]

LEMMA WireTrace ==
    ASSUME NEW ms \in Seq(Told)
    PROVE  EndsAt(History!FoldLeft(History!Wire, Unsent, ms), Carried, Unsent, Wirings, ms)
  <1> PICK F, A, B, b : /\ Is(F, Wirings) /\ Is(A, Carried) /\ Is(B, Told) /\ Is(b, Unsent)
    BY DEF Is
  <1>1. F \in [A -> [B -> A]] /\ b \in A
    <2>1. \A st \in Carried, message \in Told : History!Wire(st, message) \in Carried
      BY WireTyped DEF Is
    <2>2. b = [out |-> <<>>, pending |-> <<>>]
      BY DEF Unsent, Is
    <2> QED BY <2>1, <2>2, EmptySeq DEF Wirings, Carried, Is
  <1>2. ms \in Seq(B) /\ DOMAIN ms = 1 .. Len(ms) /\ Len(ms) \in Nat /\ \A i \in 1 .. Len(ms) : ms[i] \in B
    BY LenProperties, ElementOfSeq DEF Is
  <1>3. \A t \in SUBSET (1 .. Len(ms)) : t # {} => ms[Greatest(t)] \in B
    BY <1>2, GreatestIndex
  <1> DEFINE
        Op(st, message) == History!Wire(st, message)
        Step(g, t) == IF t = {} THEN b ELSE Op(g[t \ {History!Max(t)}], ms[History!Max(t)])
        iter == CHOOSE g : g = [t \in SUBSET (1 .. Len(ms)) |-> Step(g, t)]
  <1>4. History!FoldLeft(History!Wire, b, ms) = iter[1 .. Len(ms)]
    BY <1>2 DEF History!FoldLeft, History!MapThenFoldSet
  <1> PICK g \in [SUBSET (1 .. Len(ms)) -> A] :
         \A t \in SUBSET (1 .. Len(ms)) : Folds(g, b, F, ms, t)
    BY <1>1, <1>2, FoldExists
  <1>6. \A r \in A, d \in B : F[r][d] = Op(r, d)
    BY DEF Wirings, Is
  <1> HIDE DEF Op
  <1>7. ASSUME NEW t \in SUBSET (1 .. Len(ms)) PROVE g[t] = Step(g, t)
    <2>1. t # {} => g[t \ {Greatest(t)}] \in A
      OBVIOUS
    <2> QED BY <1>3, <1>6, <2>1, SameMax DEF Folds
  <1>8. g = [t \in SUBSET (1 .. Len(ms)) |-> Step(g, t)]
    BY <1>7
  <1>9. iter = [t \in SUBSET (1 .. Len(ms)) |-> Step(iter, t)]
    BY <1>8
  <1> HIDE DEF iter
  <1>10. ASSUME NEW t \in SUBSET (1 .. Len(ms)) PROVE Stepped(iter, A, b, F, ms, t)
    <2>1. iter[t] = Step(iter, t)
      BY ONLY <1>9, t \in SUBSET (1 .. Len(ms))
    <2> QED BY <1>3, <1>6, <2>1, SameMax DEF Stepped
  <1>11. EndsAt(iter[1 .. Len(ms)], A, b, F, ms)
    <2>1. Iterates(iter, A, B, b, F, ms)
      BY <1>1, <1>2, <1>10 DEF Iterates
    <2> QED BY <2>1, FoldTraces
  <1> QED BY <1>4, <1>11 DEF Is

\* Results sent under their names, and those next to each other in call order.
Orderly(wire, calls) ==
    /\ \A i \in 1 .. Len(wire) :
         wire[i].role = "tool" => wire[i].content[1].name = calls[wire[i].content[1].place].name
    /\ \A i \in 1 .. (Len(wire) - 1) :
         wire[i].role = "tool" /\ wire[i + 1].role = "tool" =>
           wire[i].content[1].place < wire[i + 1].content[1].place

Untooled(wire) == Len(wire) > 0 => wire[Len(wire)].role # "tool"

LEMMA FlushedOrderly ==
    ASSUME NEW calls, Keyings(calls), NEW st \in Carried, Waiting(st.pending, calls),
           Orderly(st.out, calls), Untooled(st.out), NEW u, Is(u, History!Flushed(st))
    PROVE  Orderly(u.out, calls)
  <1> PICK tools, t, old, new, pending :
        /\ Is(tools, Tools(st.pending)) /\ Is(t, History!Sorted(st.pending))
        /\ Is(old, st.out) /\ Is(new, u.out) /\ Is(pending, st.pending)
    BY DEF Is
  <1>1. old \in Seq(Outgoing) /\ pending \in Seq(TurnParts) /\ Len(old) \in Nat /\ Len(pending) \in Nat
    BY LenProperties DEF Carried, Is
  <1>2. /\ tools \in Seq(Outgoing) /\ Len(tools) = Len(pending)
        /\ \A i \in 1 .. Len(pending) :
             tools[i].role = "tool" /\ tools[i].content[1] = History!Tool(t[i])
    BY <1>1, ToolsTyped DEF Is
  <1>3. new = old \o tools
    BY FlushedTyped DEF Is
  <1>4. /\ Len(new) = Len(old) + Len(pending)
        /\ \A i \in 1 .. Len(old) : new[i] = old[i]
        /\ \A i \in 1 .. Len(pending) : new[Len(old) + i] = tools[i]
    <2>1. /\ Len(old \o tools) = Len(old) + Len(tools)
          /\ \A i \in 1 .. Len(old) + Len(tools) :
               (old \o tools)[i] = IF i <= Len(old) THEN old[i] ELSE tools[i - Len(old)]
      <3>1. old \in Seq(Outgoing) /\ tools \in Seq(Outgoing)
        BY <1>1, <1>2
      <3> QED BY ONLY <3>1, ConcatProperties
    <2>2. /\ \A i \in 1 .. Len(old) : i \in 1 .. Len(old) + Len(pending) /\ i <= Len(old)
          /\ \A i \in 1 .. Len(pending) : /\ Len(old) + i \in 1 .. Len(old) + Len(pending)
                                          /\ ~(Len(old) + i <= Len(old))
                                          /\ (Len(old) + i) - Len(old) = i
      BY <1>1
    <2> QED BY ONLY <1>2, <1>3, <2>1, <2>2
  <1>5. /\ \A i \in 1 .. Len(pending) : Known(t[i], calls)
        /\ \A i, j \in 1 .. Len(pending) : i < j => t[i].place < t[j].place
    BY SortedWaiting DEF Is
  <1>6. ASSUME NEW i \in 1 .. Len(pending)
        PROVE  /\ tools[i].content[1].place = t[i].place
               /\ tools[i].content[1].name = calls[t[i].place].name
    <2> PICK r, x, name : Is(r, t[i]) /\ Is(x, History!Tool(r)) /\ Is(name, History!NameOf(r.id))
      BY DEF Is
    <2>1. r \in TurnParts /\ Known(r, calls)
      BY <1>5 DEF Known, Is
    <2>2. name = calls[r.place].name
      BY <2>1, KeyedOne DEF Is
    <2>3. x = [r EXCEPT !.kind = "tool", !.name = name]
      BY DEF History!Tool, Is
    <2>4. x.place = r.place /\ x.name = name
      BY <2>1, <2>3 DEF TurnParts
    <2> QED BY <1>2, <2>2, <2>4 DEF Is
  <1>7. /\ \A i \in 1 .. Len(old) :
             old[i].role = "tool" => old[i].content[1].name = calls[old[i].content[1].place].name
        /\ \A i \in 1 .. (Len(old) - 1) :
             old[i].role = "tool" /\ old[i + 1].role = "tool" =>
               old[i].content[1].place < old[i + 1].content[1].place
        /\ Len(old) > 0 => old[Len(old)].role # "tool"
    BY DEF Orderly, Untooled, Is
  <1>8. ASSUME NEW i \in 1 .. Len(new), new[i].role = "tool"
        PROVE  new[i].content[1].name = calls[new[i].content[1].place].name
    <2>1. CASE i \in 1 .. Len(old)
      BY <1>4, <1>7, <1>8, <2>1
    <2>2. CASE i \notin 1 .. Len(old)
      <3> PICK j : j = i - Len(old)
        OBVIOUS
      <3>1. j \in 1 .. Len(pending) /\ i = Len(old) + j
        BY <1>1, <1>4, <1>8, <2>2
      <3> QED BY <1>4, <1>6, <3>1
    <2> QED BY <2>1, <2>2
  <1>9. ASSUME NEW i \in 1 .. (Len(new) - 1), new[i].role = "tool", new[i + 1].role = "tool"
        PROVE  new[i].content[1].place < new[i + 1].content[1].place
    <2>0. i \in 1 .. Len(old) + Len(pending) - 1
      BY <1>4, <1>9
    <2>1. CASE i < Len(old)
      <3>1. i \in 1 .. (Len(old) - 1) /\ i \in 1 .. Len(old) /\ i + 1 \in 1 .. Len(old)
        BY <1>1, <2>0, <2>1
      <3> QED BY <1>4, <1>7, <1>9, <3>1
    <2>2. CASE i = Len(old)
      <3>1. i \in 1 .. Len(old) /\ Len(old) > 0
        BY <1>1, <2>0, <2>2
      <3> QED BY <1>4, <1>7, <1>9, <2>2, <3>1
    <2>3. CASE i > Len(old)
      <3> PICK j : j = i - Len(old)
        OBVIOUS
      <3>1. /\ j \in 1 .. Len(pending) /\ i = Len(old) + j /\ j + 1 \in 1 .. Len(pending)
            /\ i + 1 = Len(old) + (j + 1) /\ j < j + 1
        BY <1>1, <2>0, <2>3
      <3>2. t[j].place < t[j + 1].place
        BY <1>5, <3>1
      <3>3. new[i] = tools[j] /\ new[i + 1] = tools[j + 1]
        BY <1>4, <3>1
      <3> QED BY <1>6, <3>1, <3>2, <3>3
    <2> QED BY <1>1, <2>0, <2>1, <2>2, <2>3
  <1> QED BY <1>8, <1>9 DEF Orderly, Is

LEMMA AppendOrderly ==
    ASSUME NEW calls, NEW old \in Seq(Outgoing), Orderly(old, calls), NEW message \in Told,
           NEW new, new = Append(old, message)
    PROVE  Orderly(new, calls) /\ Untooled(new)
  <1>1. /\ new \in Seq(Outgoing) /\ Len(old) \in Nat /\ Len(new) = Len(old) + 1
        /\ new[Len(old) + 1] = message /\ \A i \in 1 .. Len(old) : new[i] = old[i]
    <2>1. message \in Outgoing
      BY DEF Outgoing
    <2> QED BY <2>1, Grown
  <1>2. message.role # "tool"
    BY DEF Told
  <1>3. Untooled(new)
    BY <1>1, <1>2 DEF Untooled
  <1>4. ASSUME NEW i \in 1 .. Len(new), new[i].role = "tool" PROVE i \in 1 .. Len(old)
    <2>1. i # Len(old) + 1
      BY <1>1, <1>2, <1>4
    <2>2. i \in 1 .. Len(old) + 1
      BY <1>1
    <2> QED BY <1>1, <2>1, <2>2
  <1>5. ASSUME NEW i \in 1 .. (Len(new) - 1), new[i].role = "tool", new[i + 1].role = "tool"
        PROVE  new[i].content[1].place < new[i + 1].content[1].place
    <2>1. i \in 1 .. Len(new) /\ i + 1 \in 1 .. Len(new)
      BY <1>1
    <2>2. i \in 1 .. Len(old) /\ i + 1 \in 1 .. Len(old)
      BY <1>4, <1>5, <2>1
    <2>3. i \in 1 .. (Len(old) - 1)
      BY <1>1, <2>2
    <2> QED BY <1>1, <1>5, <2>2, <2>3 DEF Orderly
  <1>6. \A i \in 1 .. Len(new) :
          new[i].role = "tool" => new[i].content[1].name = calls[new[i].content[1].place].name
    BY <1>1, <1>4 DEF Orderly
  <1> QED BY <1>3, <1>5, <1>6 DEF Orderly

\* Ollama is sent the first k messages.
Sent(st, ms, k, calls) ==
    /\ st \in Carried /\ Waiting(st.pending, calls)
    /\ \A i \in 1 .. Len(st.pending) :
         \E r \in 1 .. k : ms[r].content[1] = st.pending[i] /\ ms[r].content[1].kind = "result"
    /\ Orderly(st.out, calls) /\ Untooled(st.out)

LEMMA SendOne ==
    ASSUME parts \in Entries, NEW calls, Keyings(calls),
           NEW ms \in Seq(Told), Made(ms), Taken(ms, Len(parts)),
           NEW k \in Nat, k + 1 \in 1 .. Len(ms), NEW st, Sent(st, ms, k, calls),
           NEW u, Is(u, History!Wire(st, ms[k + 1]))
    PROVE  Sent(u, ms, k + 1, calls)
  <1> PICK message, c, flushed : /\ Is(message, ms[k + 1]) /\ Is(c, ms[k + 1].content)
                                 /\ Is(flushed, History!Flushed(st))
    BY DEF Is
  <1>1. /\ message \in Told /\ message = ms[k + 1] /\ c = message.content /\ c \in Seq(TurnParts)
        /\ Len(c) \in Nat /\ Len(c) > 0 /\ DOMAIN c = 1 .. Len(c)
    BY ContentTyped, LenProperties DEF Is, Made
  <1>2. /\ st \in Carried /\ Waiting(st.pending, calls) /\ Orderly(st.out, calls) /\ Untooled(st.out)
        /\ \A i \in 1 .. Len(st.pending) :
             \E r \in 1 .. k : ms[r].content[1] = st.pending[i] /\ ms[r].content[1].kind = "result"
    BY DEF Sent
  <1>3. /\ u \in Carried /\ flushed \in Carried
        /\ History!IsResult(message) =>
             u.pending = st.pending \o c /\ u.out = st.out
        /\ ~History!IsResult(message) =>
             u.pending = <<>> /\ u.out = Append(flushed.out, message)
    <2>1. Is(u, History!Wire(st, message))
      BY DEF Is
    <2>2. st \in Carried /\ message \in Told /\ c = message.content
      BY <1>1, <1>2
    <2>3. Is(flushed, History!Flushed(st))
      OBVIOUS
    <2>4. u \in Carried /\ flushed \in Carried /\ Wired(u, st, message, flushed)
      BY ONLY <2>1, <2>2, <2>3, WireTyped
    <2> QED BY ONLY <2>2, <2>4 DEF Wired
  <1>4. CASE History!IsResult(message)
    <2> PICK old, new, r : Is(old, st.pending) /\ Is(new, u.pending) /\ Is(r, c[1])
      BY DEF Is
    <2>1. 1 \in 1 .. Len(c) /\ r = c[1] /\ r \in TurnParts /\ r.kind = "result" /\ Len(c) = 1
      <3>1. 1 \in 1 .. Len(c) /\ r = c[1]
        BY <1>1 DEF Is
      <3>2. r \in TurnParts
        BY <1>1, <3>1, ElementOfSeq
      <3>3. r.kind = "result"
        BY <1>1, <1>4, <3>1 DEF History!IsResult
      <3> QED BY <1>1, <3>1, <3>2, <3>3 DEF Made
    <2>2. /\ old \in Seq(TurnParts) /\ Len(old) \in Nat
          /\ \A i \in 1 .. Len(old) : Known(old[i], calls)
          /\ \A i, j \in 1 .. Len(old) : old[i].place = old[j].place => i = j
          /\ \A i \in 1 .. Len(old) :
               \E q \in 1 .. k : ms[q].content[1] = old[i] /\ ms[q].content[1].kind = "result"
      <3>1. old \in Seq(TurnParts)
        BY <1>2 DEF Waiting, Is
      <3> QED BY <1>2, <3>1, LenProperties DEF Waiting, Is
    <2>3. new = old \o c
      BY <1>3, <1>4 DEF Is
    <2>4. /\ new \in Seq(TurnParts) /\ Len(new) = Len(old) + 1 /\ new[Len(old) + 1] = r
          /\ \A i \in 1 .. Len(old) : new[i] = old[i]
          /\ \A i \in 1 .. Len(new) : i = Len(old) + 1 \/ i \in 1 .. Len(old)
      <3>1. new = Append(old, r)
        <4>1. c = <<r>>
          <5>1. <<r>> \in Seq(TurnParts) /\ Len(<<r>>) = 1 /\ <<r>>[1] = r
            BY <2>1
          <5>2. \A i \in 1 .. 1 : i = 1
            OBVIOUS
          <5> QED BY <1>1, <2>1, <5>1, <5>2, SeqEqual
        <4> QED BY <2>1, <2>2, <2>3, <4>1, AppendIsConcat
      <3> QED BY <2>1, <2>2, <3>1, Grown
    <2>5. Known(r, calls)
      <3>1. ms[k + 1].content[1] = r
        BY <1>1, <2>1
      <3> PICK i \in 1 .. Len(parts) : r = parts[i]
        BY <2>1, <3>1 DEF Taken
      <3>2. r.place \in 1 .. Len(calls) /\ calls[r.place].id = r.id
        BY <2>1 DEF Entries, Placed, Keyings, History!Calls, Is
      <3> QED BY <2>1, <3>2 DEF Known
    <2>6. \A i \in 1 .. Len(old) : old[i].place # r.place
      <3> SUFFICES ASSUME NEW i \in 1 .. Len(old), old[i].place = r.place PROVE FALSE
        OBVIOUS
      <3> PICK q \in 1 .. k : ms[q].content[1] = old[i] /\ ms[q].content[1].kind = "result"
        BY <2>2
      <3>1. ms[k + 1].content[1] = r /\ q \in 1 .. Len(ms) /\ q # k + 1
        <4>1. Len(ms) \in Nat
          BY LenProperties
        <4> QED BY <1>1, <2>1, <4>1
      <3> QED BY <2>1, <3>1 DEF Taken
    <2>7. \A i \in 1 .. Len(new) : Known(new[i], calls)
      BY ONLY <2>2, <2>4, <2>5
    <2>8. \A i, j \in 1 .. Len(new) : new[i].place = new[j].place => i = j
      BY ONLY <2>2, <2>4, <2>6
    <2>9. ASSUME NEW i \in 1 .. Len(new)
          PROVE  \E q \in 1 .. (k + 1) : ms[q].content[1] = new[i] /\ ms[q].content[1].kind = "result"
      <3>1. k + 1 \in 1 .. (k + 1) /\ \A q \in 1 .. k : q \in 1 .. (k + 1)
        OBVIOUS
      <3>2. CASE i = Len(old) + 1
        BY <1>1, <2>1, <2>4, <3>1, <3>2
      <3>3. CASE i \in 1 .. Len(old)
        BY <2>2, <2>4, <3>1, <3>3
      <3> QED BY <2>4, <3>2, <3>3
    <2>10. Waiting(new, calls)
      BY <2>4, <2>7, <2>8 DEF Waiting
    <2> QED BY <1>2, <1>3, <1>4, <2>9, <2>10 DEF Sent, Is
  <1>5. CASE ~History!IsResult(message)
    <2>1. Orderly(flushed.out, calls)
      BY <1>2, FlushedOrderly
    <2>2. flushed.out \in Seq(Outgoing)
      BY <1>3 DEF Carried
    <2>3. Orderly(u.out, calls) /\ Untooled(u.out)
      BY <1>1, <1>3, <1>5, <2>1, <2>2, AppendOrderly
    <2>4. u.pending = <<>> /\ Len(<<>>) = 0 /\ 1 .. 0 = {} /\ <<>> \in Seq(TurnParts)
      BY <1>3, <1>5, FirstIndices, EmptySeq
    <2> QED BY <1>3, <2>3, <2>4 DEF Sent, Waiting
  <1> QED BY <1>4, <1>5

LEMMA SentAll ==
    ASSUME parts \in Entries, NEW calls, Keyings(calls),
           NEW ms \in Seq(Told), Made(ms), Taken(ms, Len(parts)),
           NEW st, Is(st, History!FoldLeft(History!Wire, Unsent, ms))
    PROVE  Sent(st, ms, Len(ms), calls)
  <1> PICK F, b : Is(F, Wirings) /\ Is(b, Unsent)
    BY DEF Is
  <1> DEFINE P == {w \in Nat \X Carried : Sent(w[2], ms, w[1], calls)}
  <1>1. EndsAt(st, Carried, b, F, ms)
    BY WireTrace DEF Is
  <1>2. <<0, b>> \in P
    <2>1. b = [out |-> <<>>, pending |-> <<>>]
      BY DEF Unsent, Is
    <2>2. b.out = <<>> /\ b.pending = <<>> /\ b \in Carried
      BY <2>1, EmptySeq DEF Carried
    <2>3. Len(<<>>) = 0 /\ 1 .. 0 = {} /\ 1 .. (0 - 1) = {} /\ <<>> \in Seq(TurnParts)
      BY FirstIndices, EmptySeq
    <2>4. Sent(b, ms, 0, calls)
      BY <2>2, <2>3 DEF Sent, Waiting, Orderly, Untooled
    <2> QED BY <2>2, <2>4
  <1>3. ASSUME NEW k \in Nat, NEW v \in Carried, k + 1 \in 1 .. Len(ms), <<k, v>> \in P
        PROVE  <<k + 1, F[v][ms[k + 1]]>> \in P
    <2> PICK u : Is(u, History!Wire(v, ms[k + 1]))
      BY DEF Is
    <2>1. Sent(v, ms, k, calls)
      BY <1>3
    <2>2. Sent(u, ms, k + 1, calls)
      BY <1>3, <2>1, SendOne
    <2>3. u \in Carried
      BY <2>2 DEF Sent
    <2>4. F[v][ms[k + 1]] = u
      <3>1. ms[k + 1] \in Told
        BY <1>3, ElementOfSeq
      <3> QED BY <3>1 DEF Wirings, Is
    <2> QED BY <2>2, <2>3, <2>4
  <1>4. <<Len(ms), st>> \in P
    <2> HIDE DEF P
    <2>1. Preserves(P, Carried, F, ms)
      BY <1>3 DEF Preserves
    <2> QED BY ONLY <1>1, <1>2, <2>1, ms \in Seq(Told), FoldInduction
  <1> QED BY <1>4

LEMMA TailOrderly ==
    ASSUME NEW calls, NEW old \in Seq(Outgoing), old # <<>>, Orderly(old, calls)
    PROVE  Orderly(Tail(old), calls) /\ Tail(old) \in Seq(Outgoing)
  <1> PICK new : Is(new, Tail(old))
    BY DEF Is
  <1>1. /\ new \in Seq(Outgoing) /\ Len(old) \in Nat /\ Len(new) = Len(old) - 1
        /\ \A i \in 1 .. Len(new) : new[i] = old[i + 1]
    BY HeadTailProperties, LenProperties DEF Is
  <1>2. \A i \in 1 .. Len(new) : i + 1 \in 1 .. Len(old)
    BY <1>1
  <1>3. \A i \in 1 .. (Len(new) - 1) : /\ i \in 1 .. Len(new) /\ i + 1 \in 1 .. Len(new)
                                       /\ i + 1 \in 1 .. (Len(old) - 1)
    BY <1>1
  <1>4. Orderly(new, calls)
    BY <1>1, <1>2, <1>3 DEF Orderly
  <1> QED BY <1>1, <1>4 DEF Is

LEMMA ReadBack == HistoryInv => History!ResultsReadBack
  <1> SUFFICES ASSUME HistoryInv,
                      History!Cardinality(History!Ids(Len(History!Calls))) = Len(History!Calls),
                      NEW wire, Is(wire, History!wire_messages)
               PROVE  History!NamesOwn(wire) /\ History!InCallOrder(wire)
    BY DEF History!ResultsReadBack, Is
  <1> PICK calls, ms, st, whole :
        /\ Is(calls, History!Calls) /\ Is(ms, History!to_messages)
        /\ Is(st, History!FoldLeft(History!Wire, Unsent, ms)) /\ Is(whole, History!Flushed(st))
    BY DEF Is
  <1>1. parts \in Entries /\ calls \in Seq(TurnParts)
    <2>1. parts \in Entries
      BY DEF HistoryInv
    <2>2. History!Text \in TurnParts /\ parts \in Seq(TurnParts)
      BY <2>1 DEF History!Text, History!Part, TurnParts, Entries
    <2> QED BY <2>1, <2>2, CallsMore DEF History!Calls, Is
  <1>2. Keyings(calls)
    BY <1>1, UnlikeCalls
  <1>3. ms \in Seq(Told) /\ Made(ms) /\ Taken(ms, Len(parts))
    BY <1>1, MessagesMade DEF Is
  <1>4. Sent(st, ms, Len(ms), calls)
    BY <1>1, <1>2, <1>3, SentAll
  <1>5. Orderly(whole.out, calls) /\ whole.out \in Seq(Outgoing)
    <2>1. Orderly(whole.out, calls)
      BY <1>2, <1>4, FlushedOrderly DEF Sent
    <2> PICK tools : Is(tools, Tools(st.pending))
      BY DEF Is
    <2>2. whole \in Carried
      BY <1>4, FlushedTyped DEF Sent
    <2> QED BY <2>1, <2>2 DEF Carried
  <1>6. wire = whole.out \/ (whole.out # <<>> /\ wire = Tail(whole.out))
    BY DEF History!wire_messages, Unsent, Is
  <1>7. Orderly(wire, calls) /\ wire \in Seq(Outgoing)
    BY <1>5, <1>6, TailOrderly
  <1>8. DOMAIN wire = 1 .. Len(wire)
    BY <1>7, LenProperties
  <1>9. History!NamesOwn(wire)
    BY <1>7, <1>8 DEF History!NamesOwn, History!TrueName, Orderly, Is
  <1>10. History!InCallOrder(wire)
    BY <1>7 DEF History!InCallOrder, Orderly
  <1> QED BY <1>9, <1>10

\* What a provider is told of the calls is what happened, whatever the session
\* did (to_messages, wire_messages): a request to Anthropic or Gemini answers a
\* message's calls, and those alone, right after it if nothing was delegated, and
\* Ollama reads each result under its tool's name and in call order while every
\* call has an id of its own.
THEOREM HistoriesReadBack == MCSpec => []HistoryReadsBack
  <1> DEFINE Inv == focus = "history" => HistoryInv
  <1>1. MCInit => Inv
    BY HistoryInit DEF MCInit
  <1>2. Inv /\ [MCNext]_outsideVars => Inv'
    <2> SUFFICES ASSUME Inv, [MCNext]_outsideVars PROVE Inv'
      OBVIOUS
    <2>1. focus' = focus
      BY DEF MCNext, outsideVars
    <2>2. CASE focus = "history"
      <3>1. HistoryInv
        BY <2>2
      <3>2. [History!Next]_<<dialect, historyVars>>
        BY <2>2 DEF MCNext, outsideVars, modelVars
      <3> QED BY <3>1, <3>2, HistoryStep
    <2> QED BY <2>1, <2>2
  <1>3. Inv => HistoryReadsBack
    BY CallsAnswered, ReadBack DEF HistoryReadsBack, History!HistoryReadsBack
  <1> QED BY <1>1, <1>2, <1>3, PTL DEF MCSpec
=============================================================================

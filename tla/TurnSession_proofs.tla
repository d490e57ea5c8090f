------------------------- MODULE TurnSession_proofs -------------------------
(***************************************************************************)
(* Proofs about TurnSession: its type invariant, that at most one turn     *)
(* works without having been told to stop, and that the session keeps what *)
(* PromptLedger promises of a prompt.                                      *)
(***************************************************************************)
EXTENDS TurnSession, SequenceTheorems, FiniteSetTheorems, TLAPS

(* A turn that has reported its end does nothing more.  This is what the   *)
(* loop relies on when it frees the slot on a report.                      *)
ReportedTurnsAreOver == \A i \in DOMAIN done : ~Working(turns[done[i]])

(* drain_all emptied the registry, and nothing fills it again.             *)
DrainedRegistry == loop \in {"draining", "stopped"} => registry = {}

IInv == TypeOK /\ SingleLiveTurn /\ ReportedTurnsAreOver /\ DrainedRegistry

-----------------------------------------------------------------------------
(* How the turn tasks look to the rest of the session. *)

(* Every step of turn t's task leaves the other tasks alone, never makes a  *)
(* finished turn work again, and never clears its abort mark.               *)
LEMMA TaskStepEffect ==
    ASSUME TypeOK, NEW t \in DOMAIN turns, TaskStep(t)
    PROVE  /\ turns' \in Seq(Turn)
           /\ DOMAIN turns' = DOMAIN turns
           /\ \A u \in DOMAIN turns : turns'[u].aborted = turns[u].aborted
           /\ \A u \in DOMAIN turns : Working(turns'[u]) => Working(turns[u])
  <1> DEFINE Same(r) == /\ r \in Turn
                        /\ r.aborted = turns[t].aborted
                        /\ Working(r) => Working(turns[t])
  <1>1. turns[t] \in Turn /\ t \in 1 .. Len(turns) /\ turns \in Seq(Turn)
    BY DEF TypeOK
  <1>2. \E r : Same(r) /\ turns' = [turns EXCEPT ![t] = r]
    <2>1. CASE Poll(t) \/ Park(t)
      <3>1. PICK b \in BOOLEAN : turns' = [turns EXCEPT ![t].polling = b]
        BY <2>1 DEF Poll, Park
      <3>2. turns' = [turns EXCEPT ![t] = [turns[t] EXCEPT !.polling = b]]
        BY <3>1
      <3>3. Same([turns[t] EXCEPT !.polling = b])
        BY <1>1 DEF Turn, Working
      <3> QED BY <3>2, <3>3
    <2>2. CASE Drop(t)
      <3>1. turns' = [turns EXCEPT ![t] = [turns[t] EXCEPT !.phase = "dropped"]]
        BY <2>2 DEF Drop
      <3>2. Same([turns[t] EXCEPT !.phase = "dropped"])
        BY <1>1 DEF Turn, Working, Phases
      <3> QED BY <3>1, <3>2
    <2>3. CASE Start(t)
      <3>1. turns' = [turns EXCEPT ![t] = [turns[t] EXCEPT !.phase = "started"]]
        BY <2>3 DEF Start
      <3>2. Same([turns[t] EXCEPT !.phase = "started"])
        BY <1>1, <2>3 DEF Turn, Working, Phases, Start
      <3> QED BY <3>1, <3>2
    <2>4. CASE Complete(t)
      <3>1. turns' = [turns EXCEPT ![t] = [turns[t] EXCEPT !.phase = "completed"]]
        BY <2>4 DEF Complete
      <3>2. Same([turns[t] EXCEPT !.phase = "completed"])
        BY <1>1, <2>4 DEF Turn, Working, Phases, Complete
      <3> QED BY <3>1, <3>2
    <2>5. CASE Store(t)
      <3>1. turns' = [turns EXCEPT ![t] = [turns[t] EXCEPT !.phase = "stored"]]
        BY <2>5 DEF Store
      <3>2. Same([turns[t] EXCEPT !.phase = "stored"])
        BY <1>1, <2>5 DEF Turn, Working, Phases, Store
      <3> QED BY <3>1, <3>2
    <2>6. CASE Report(t)
      <3>1. turns' = [turns EXCEPT ![t] = [turns[t] EXCEPT !.phase = "reported"]]
        BY <2>6 DEF Report
      <3>2. Same([turns[t] EXCEPT !.phase = "reported"])
        BY <1>1 DEF Turn, Working, Phases
      <3> QED BY <3>1, <3>2
    <2>7. CASE Return(t) \/ Panic(t)
      <3>1. PICK ph \in {"returned", "dropped"} :
                turns' = [turns EXCEPT ![t] = [turns[t] EXCEPT !.phase = ph, !.polling = FALSE]]
        BY <2>7 DEF Return, Panic
      <3>2. Same([turns[t] EXCEPT !.phase = ph, !.polling = FALSE])
        BY <1>1 DEF Turn, Working, Phases
      <3> QED BY <3>1, <3>2
    <2> QED BY <2>1, <2>2, <2>3, <2>4, <2>5, <2>6, <2>7 DEF TaskStep, Advance
  <1>3. PICK r : Same(r) /\ turns' = [turns EXCEPT ![t] = r]
    BY <1>2
  <1>4. turns' \in Seq(Turn) /\ Len(turns') = Len(turns)
    BY <1>1, <1>3, ExceptSeq
  <1>5. \A u \in DOMAIN turns : turns'[u] = IF u = t THEN r ELSE turns[u]
    BY <1>1, <1>3
  <1>6. DOMAIN turns' = DOMAIN turns
    BY <1>3
  <1> QED BY <1>3, <1>4, <1>5, <1>6

(* Marking turns as aborted, in any of the ways the loop does it, changes   *)
(* nothing else about the tasks.                                            *)
LEMMA AbortedEffect ==
    ASSUME TypeOK, NEW t \in DOMAIN turns \cup {NoTurn}, NEW p \in Nat
    PROVE  /\ Aborted(t, p) \in Seq(Turn)
           /\ DOMAIN Aborted(t, p) = DOMAIN turns
           /\ Len(Aborted(t, p)) = Len(turns)
           /\ \A u \in DOMAIN turns :
                 /\ Working(Aborted(t, p)[u]) <=> Working(turns[u])
                 /\ Aborted(t, p)[u].aborted
                        = (turns[u].aborted \/ (u = t /\ t \in registry))
  <1>1. turns \in Seq(Turn) /\ DOMAIN turns = 1 .. Len(turns) /\ registry \subseteq DOMAIN turns
    BY DEF TypeOK
  <1>0. \A u \in DOMAIN turns : turns[u] \in Turn
    BY <1>1, ElementOfSeq
  <1>4. \A u \in DOMAIN turns : turns[u].aborted \in BOOLEAN
    BY <1>0 DEF Turn
  <1>2. CASE t \notin registry
    <2>1. Aborted(t, p) = turns
      BY <1>2 DEF Aborted
    <2> QED BY <1>1, <1>2, <1>4, <2>1
  <1>3. CASE t \in registry
    <2> DEFINE r == [turns[t] EXCEPT !.aborted = TRUE, !.by = p]
    <2>1. turns[t] \in Turn /\ t \in 1 .. Len(turns)
      BY <1>1, <1>3
    <2>2. r \in Turn /\ r.aborted = TRUE /\ (Working(r) <=> Working(turns[t]))
      BY <2>1 DEF Turn, Working
    <2>3. Aborted(t, p) = [turns EXCEPT ![t] = r]
      BY <1>3 DEF Aborted
    <2> HIDE DEF r
    <2>4. Aborted(t, p) \in Seq(Turn) /\ Len(Aborted(t, p)) = Len(turns)
      BY <1>1, <2>1, <2>2, <2>3, ExceptSeq
    <2>5. \A u \in DOMAIN turns : Aborted(t, p)[u] = IF u = t THEN r ELSE turns[u]
      BY <2>3
    <2>6. DOMAIN Aborted(t, p) = DOMAIN turns
      BY <2>3
    <2>7. \A u \in DOMAIN turns : Working(Aborted(t, p)[u]) <=> Working(turns[u])
      BY <2>2, <2>5
    <2>8. \A u \in DOMAIN turns :
             Aborted(t, p)[u].aborted = (turns[u].aborted \/ (u = t /\ t \in registry))
      BY <1>3, <1>4, <2>2, <2>5
    <2> QED BY <2>4, <2>6, <2>7, <2>8
  <1> QED BY <1>2, <1>3

LEMMA NewTurnType ==
    ASSUME NEW p \in Nat
    PROVE  NewTurn(p) \in Turn /\ ~NewTurn(p).aborted
  BY DEF NewTurn, Turn, Phases, NoPrompt

-----------------------------------------------------------------------------
(* Handlers of the loop. *)

(* Bouncing a command keeps the channel and the held command well typed. *)
LEMMA ReinjectType ==
    ASSUME TypeOK, NEW rest \in Seq(Command), NEW c \in Command, Reinject(rest, c)
    PROVE  /\ reinject' \in Seq(Command) /\ held' \in Seq(Command)
           /\ loop' \in {loop, "wedged"}
  <1>1. CASE Len(rest) < ReinjectCap /\ reinject' = Append(rest, c) /\ UNCHANGED <<loop, held>>
    BY <1>1 DEF TypeOK
  <1>2. CASE reinject' = rest /\ loop' = "wedged" /\ held' = <<c>>
    BY <1>2
  <1> QED BY <1>1, <1>2 DEF Reinject

(* What any handler does to the parts of the state it may touch. *)
LEMMA DispatchEffect ==
    ASSUME TypeOK, NEW c \in Command, NEW rest \in Seq(Command), Dispatch(c, rest)
    PROVE  /\ reinject' \in Seq(Command) /\ held' \in Seq(Command)
           /\ loop' \in {loop, "wedged"}
           /\ queue' \in Seq(Nat) /\ cleared' \subseteq Nat
           /\ turns' \in Seq(Turn)
           /\ DOMAIN turns \subseteq DOMAIN turns'
           /\ active' \in DOMAIN turns' \cup {NoTurn}
           /\ registry' \subseteq DOMAIN turns'
           /\ \A u \in DOMAIN turns : Working(turns'[u]) <=> Working(turns[u])
           /\ SingleLiveTurn => SingleLiveTurn'
  <1>0. c.prompt \in Nat
    BY DEF Command
  <1>t. /\ reinject \in Seq(Command) /\ held \in Seq(Command)
        /\ queue \in Seq(Nat) /\ cleared \subseteq Nat
        /\ turns \in Seq(Turn)
        /\ active \in DOMAIN turns \cup {NoTurn}
        /\ registry \subseteq DOMAIN turns
    BY DEF TypeOK
  <1>1. CASE SubmitPrompt(c, rest)
    <2> DEFINE ts == Aborted(active, c.prompt)
               new == NewTurn(c.prompt)
    <2>1. /\ ts \in Seq(Turn) /\ DOMAIN ts = DOMAIN turns /\ Len(ts) = Len(turns)
          /\ \A u \in DOMAIN turns :
                /\ Working(ts[u]) <=> Working(turns[u])
                /\ ts[u].aborted = (turns[u].aborted \/ (u = active /\ active \in registry))
      BY <1>0, <1>t, AbortedEffect
    <2>2. new \in Turn /\ ~new.aborted
      BY <1>0, NewTurnType
    <2>3. turns' = Append(ts, new)
      BY <1>1 DEF SubmitPrompt, NewId
    <2> HIDE DEF ts, new
    <2>4. /\ turns' \in Seq(Turn)
          /\ DOMAIN turns = 1 .. Len(turns)
          /\ DOMAIN turns' = 1 .. Len(turns) + 1
          /\ \A u \in DOMAIN turns : turns'[u] = ts[u]
          /\ turns'[Len(turns) + 1] = new
      BY <1>t, <2>1, <2>2, <2>3
    <2>5. /\ registry' = Reaped(registry \ {active}) \cup {Len(turns) + 1}
          /\ active' = Len(turns) + 1
          /\ reinject' = rest /\ UNCHANGED <<loop, held, queue, cleared>>
      BY <1>1 DEF SubmitPrompt, NewId
    <2>6. SingleLiveTurn => SingleLiveTurn'
      <3> SUFFICES ASSUME SingleLiveTurn, NEW t \in DOMAIN turns',
                          Working(turns'[t]), ~turns'[t].aborted
                   PROVE  t = active' /\ t \in registry'
        BY DEF SingleLiveTurn
      <3>1. CASE t = Len(turns) + 1
        BY <3>1, <2>5
      <3>2. CASE t \in DOMAIN turns
        <4>1. Working(turns[t]) /\ ~turns[t].aborted /\ ~(t = active /\ active \in registry)
          BY <3>2, <2>1, <2>4
        <4> QED BY <3>2, <4>1 DEF SingleLiveTurn
      <3> QED BY <3>1, <3>2, <2>4
    <2>7. registry' \subseteq DOMAIN turns' /\ active' \in DOMAIN turns' \cup {NoTurn}
      <3>1. Reaped(registry \ {active}) \subseteq DOMAIN turns
        BY <1>t DEF Reaped
      <3>2. Len(turns) + 1 \in DOMAIN turns' /\ DOMAIN turns \subseteq DOMAIN turns'
        BY <1>t, <2>4
      <3> QED BY <2>5, <3>1, <3>2
    <2>8. \A u \in DOMAIN turns : Working(turns'[u]) <=> Working(turns[u])
      BY <2>1, <2>4
    <2>9. /\ reinject' \in Seq(Command) /\ held' \in Seq(Command)
          /\ loop' \in {loop, "wedged"}
          /\ queue' \in Seq(Nat) /\ cleared' \subseteq Nat
      BY <1>t, <2>5
    <2>10. DOMAIN turns \subseteq DOMAIN turns'
      BY <1>t, <2>4
    <2> QED BY <2>4, <2>6, <2>7, <2>8, <2>9, <2>10
  <1>2. CASE AbortLive(c, rest)
    <2>1. /\ turns' \in Seq(Turn) /\ DOMAIN turns' = DOMAIN turns
          /\ \A u \in DOMAIN turns :
                /\ Working(turns'[u]) <=> Working(turns[u])
                /\ turns'[u].aborted = (turns[u].aborted \/ (u = active /\ active \in registry))
      BY <1>2, <1>t, AbortedEffect DEF NoPrompt, AbortLive
    <2>2. /\ registry' = registry \ {active} /\ active' = NoTurn
          /\ reinject' = rest /\ UNCHANGED <<loop, held, queue, cleared>>
      BY <1>2 DEF AbortLive
    <2>3. SingleLiveTurn => SingleLiveTurn'
      <3> SUFFICES ASSUME SingleLiveTurn, NEW t \in DOMAIN turns,
                          Working(turns'[t]), ~turns'[t].aborted
                   PROVE  FALSE
        BY <2>1 DEF SingleLiveTurn
      <3>1. Working(turns[t]) /\ ~turns[t].aborted /\ ~(t = active /\ active \in registry)
        BY <2>1
      <3> QED BY <3>1 DEF SingleLiveTurn
    <2>4. /\ reinject' \in Seq(Command) /\ held' \in Seq(Command)
           /\ loop' \in {loop, "wedged"}
           /\ queue' \in Seq(Nat) /\ cleared' \subseteq Nat
           /\ registry' \subseteq DOMAIN turns' /\ active' \in DOMAIN turns' \cup {NoTurn}
      BY <1>t, <2>1, <2>2
    <2> QED BY <2>1, <2>3, <2>4
  <1>3. CASE AbortIdle(c, rest)
    BY <1>3, <1>t DEF AbortIdle, SingleLiveTurn
  <1>4. CASE QueueBusy(c, rest)
    BY <1>0, <1>t, <1>4 DEF QueueBusy, SingleLiveTurn
  <1>5. CASE QueueIdle(c, rest)
    <2>1. [kind |-> "submit", prompt |-> c.prompt] \in Command
      BY <1>0 DEF Command
    <2>2. /\ Reinject(rest, [kind |-> "submit", prompt |-> c.prompt])
          /\ UNCHANGED <<queue, active, registry, turns, cleared>>
      BY <1>5 DEF QueueIdle
    <2>3. /\ reinject' \in Seq(Command) /\ held' \in Seq(Command)
          /\ loop' \in {loop, "wedged"}
      BY <2>1, <2>2, ReinjectType
    <2> QED BY <1>t, <2>2, <2>3 DEF SingleLiveTurn
  <1>6. CASE ClearQueue(c, rest)
    <2>1. \A i \in DOMAIN queue : queue[i] \in Nat
      BY <1>t
    <2>2. queue' = <<>> /\ reinject' = rest /\ UNCHANGED <<loop, held, active, registry, turns>>
      BY <1>6 DEF ClearQueue
    <2>3. cleared' \subseteq Nat
      BY <1>6, <1>t, <2>1 DEF ClearQueue
    <2>4. SingleLiveTurn => SingleLiveTurn'
      BY <2>2 DEF SingleLiveTurn
    <2>5. queue' \in Seq(Nat)
      BY <2>2
    <2> QED BY <1>t, <2>2, <2>3, <2>4, <2>5
  <1> QED BY <1>1, <1>2, <1>3, <1>4, <1>5, <1>6 DEF Dispatch

-----------------------------------------------------------------------------
(* The inductive invariant. *)

LEMMA InitEstablishes == Init => IInv
  <1> SUFFICES ASSUME Init PROVE IInv
    OBVIOUS
  <1>1. turns = <<>> /\ done = <<>> /\ registry = {} /\ loop = "select"
    BY DEF Init
  <1>2. TypeOK
    <2>1. \A S : <<>> \in Seq(S)
      BY EmptySeq
    <2>2. /\ inbox = <<>> /\ reinject = <<>> /\ held = <<>> /\ queue = <<>> /\ asked = <<>>
          /\ closed = FALSE /\ controls = 0 /\ active = NoTurn /\ cleared = {}
      BY DEF Init
    <2>3. /\ inbox \in Seq(Command) /\ reinject \in Seq(Command) /\ held \in Seq(Command)
          /\ turns \in Seq(Turn) /\ done \in Seq(DOMAIN turns) /\ queue \in Seq(Nat)
          /\ asked \in Seq({"submit", "queue"})
      BY <1>1, <2>1, <2>2
    <2> QED BY <1>1, <2>2, <2>3 DEF TypeOK
  <1>3. SingleLiveTurn /\ ReportedTurnsAreOver /\ DrainedRegistry
    BY <1>1 DEF SingleLiveTurn, ReportedTurnsAreOver, DrainedRegistry
  <1> QED BY <1>2, <1>3 DEF IInv

(* A step of the client appends to its channel and nothing else. *)
LEMMA ClientPreserves ==
    ASSUME IInv,
           \/ \E kind \in {"submit", "queue"} : TypePrompt(kind)
           \/ \E kind \in {"abort", "clear"} : SendControl(kind)
           \/ CloseInbox
    PROVE  IInv'
  <1>1. /\ UNCHANGED <<reinject, done, loop, held, queue, active, registry, turns, cleared>>
        /\ closed' \in BOOLEAN /\ controls' \in Nat
        /\ asked' \in Seq({"submit", "queue"})
        /\ inbox' \in Seq(Command)
    <2>1. CASE CloseInbox
      BY <2>1 DEF CloseInbox, IInv, TypeOK
    <2>2. ASSUME NEW kind \in {"submit", "queue"}, TypePrompt(kind)
          PROVE  <1>1!:
      <3>1. [kind |-> kind, prompt |-> Len(asked) + 1] \in Command
        BY DEF Command, IInv, TypeOK
      <3>2. inbox' = Append(inbox, [kind |-> kind, prompt |-> Len(asked) + 1])
        BY <2>2 DEF TypePrompt, ClientSends
      <3>3. inbox' \in Seq(Command)
        BY <3>1, <3>2 DEF IInv, TypeOK
      <3> QED BY <2>2, <3>3 DEF TypePrompt, ClientSends, IInv, TypeOK
    <2>3. ASSUME NEW kind \in {"abort", "clear"}, SendControl(kind)
          PROVE  <1>1!:
      <3>1. [kind |-> kind, prompt |-> NoPrompt] \in Command
        BY DEF Command, NoPrompt
      <3>2. inbox' = Append(inbox, [kind |-> kind, prompt |-> NoPrompt])
        BY <2>3 DEF SendControl, ClientSends
      <3>3. inbox' \in Seq(Command)
        BY <3>1, <3>2 DEF IInv, TypeOK
      <3> QED BY <2>3, <3>3 DEF SendControl, ClientSends, IInv, TypeOK
    <2> QED BY <2>1, <2>2, <2>3
  <1>2. TypeOK'
    BY <1>1 DEF IInv, TypeOK
  <1>3. SingleLiveTurn' /\ ReportedTurnsAreOver' /\ DrainedRegistry'
    BY <1>1 DEF IInv, SingleLiveTurn, ReportedTurnsAreOver, DrainedRegistry
  <1> QED BY <1>2, <1>3 DEF IInv

(* A command, typed or bounced: the handler keeps at most one live turn and  *)
(* the reports in flight stay reports of turns that are over.                *)
LEMMA DispatchPreserves ==
    ASSUME IInv, RecvCommand \/ RecvReinjected
    PROVE  IInv'
  <1>t. TypeOK /\ SingleLiveTurn /\ ReportedTurnsAreOver /\ DrainedRegistry
    BY DEF IInv
  <1>1. PICK c \in Command, rest \in Seq(Command) :
            /\ Dispatch(c, rest)
            /\ loop = "select" /\ inbox' \in Seq(Command)
            /\ UNCHANGED <<closed, done, asked, controls>>
    <2>1. CASE RecvCommand
      <3>1. inbox \in Seq(Command) /\ inbox # <<>> /\ reinject \in Seq(Command)
        BY <2>1, <1>t DEF RecvCommand, TypeOK
      <3>2. Head(inbox) \in Command /\ Tail(inbox) \in Seq(Command)
        BY <3>1, HeadTailProperties
      <3> QED BY <2>1, <3>1, <3>2 DEF RecvCommand
    <2>2. CASE RecvReinjected
      <3>1. reinject \in Seq(Command) /\ reinject # <<>> /\ inbox \in Seq(Command)
        BY <2>2, <1>t DEF RecvReinjected, TypeOK
      <3>2. Head(reinject) \in Command /\ Tail(reinject) \in Seq(Command)
        BY <3>1, HeadTailProperties
      <3> QED BY <2>2, <3>1, <3>2 DEF RecvReinjected
    <2> QED BY <2>1, <2>2
  <1>2. /\ reinject' \in Seq(Command) /\ held' \in Seq(Command)
        /\ loop' \in {"select", "wedged"}
        /\ queue' \in Seq(Nat) /\ cleared' \subseteq Nat
        /\ turns' \in Seq(Turn)
        /\ DOMAIN turns \subseteq DOMAIN turns'
        /\ active' \in DOMAIN turns' \cup {NoTurn}
        /\ registry' \subseteq DOMAIN turns'
        /\ \A u \in DOMAIN turns : Working(turns'[u]) <=> Working(turns[u])
        /\ SingleLiveTurn'
    BY <1>1, <1>t, DispatchEffect
  <1>3. done \in Seq(DOMAIN turns) /\ \A i \in DOMAIN done : done[i] \in DOMAIN turns
    BY <1>t DEF TypeOK
  <1>4. done' \in Seq(DOMAIN turns')
    BY <1>1, <1>2, <1>3, SeqMonotonic
  <1>5. TypeOK'
    BY <1>1, <1>2, <1>4, <1>t DEF TypeOK
  <1>6. ReportedTurnsAreOver'
    BY <1>1, <1>2, <1>3, <1>t DEF ReportedTurnsAreOver
  <1>7. DrainedRegistry'
    BY <1>2 DEF DrainedRegistry
  <1> QED BY <1>2, <1>5, <1>6, <1>7 DEF IInv

(* The report of a turn frees only that turn's slot, and reaping forgets     *)
(* only tasks that have ended.                                               *)
LEMMA RecvDonePreserves ==
    ASSUME IInv, RecvDone
    PROVE  IInv'
  <1>t. TypeOK /\ SingleLiveTurn /\ ReportedTurnsAreOver /\ DrainedRegistry
    BY DEF IInv
  <1>1. /\ loop = "select" /\ done # <<>> /\ done' = Tail(done) /\ active' = SlotAfter(Head(done))
        /\ registry' = Reaped(registry)
        /\ UNCHANGED <<inbox, closed, turns, asked, cleared, controls>>
    BY DEF RecvDone
  <1>2. /\ done \in Seq(DOMAIN turns) /\ Head(done) = done[1] /\ 1 \in DOMAIN done
        /\ Tail(done) \in Seq(DOMAIN turns)
        /\ \A i \in DOMAIN Tail(done) : i + 1 \in DOMAIN done /\ Tail(done)[i] = done[i + 1]
    BY <1>t, <1>1 DEF TypeOK
  <1>3. /\ queue' \in Seq(Nat)
        /\ reinject' \in Seq(Command) /\ held' \in Seq(Command)
        /\ loop' \in {"select", "wedged"}
    <2>1. CASE /\ queue # <<>> /\ queue' = Tail(queue)
               /\ Reinject(reinject, [kind |-> "queue", prompt |-> Head(queue)])
      <3>1. Head(queue) \in Nat /\ Tail(queue) \in Seq(Nat) /\ reinject \in Seq(Command)
        BY <1>t, <2>1 DEF TypeOK
      <3>2. [kind |-> "queue", prompt |-> Head(queue)] \in Command
        BY <3>1 DEF Command
      <3> QED BY <1>1, <1>t, <2>1, <3>1, <3>2, ReinjectType
    <2>2. CASE UNCHANGED <<queue, reinject, loop, held>>
      BY <1>1, <1>t, <2>2 DEF TypeOK
    <2> QED BY <2>1, <2>2 DEF RecvDone
  <1>4. registry' \subseteq DOMAIN turns /\ active' \in DOMAIN turns \cup {NoTurn}
    BY <1>t, <1>1 DEF TypeOK, Reaped, SlotAfter
  <1>5. TypeOK'
    BY <1>t, <1>1, <1>2, <1>3, <1>4 DEF TypeOK
  <1>6. SingleLiveTurn'
    <2> SUFFICES ASSUME NEW t \in DOMAIN turns, Working(turns[t]), ~turns[t].aborted
                 PROVE  t = active' /\ t \in registry'
      BY <1>1 DEF SingleLiveTurn
    <2>1. t = active /\ t \in registry
      BY <1>t DEF SingleLiveTurn
    <2>2. t # Head(done)
      BY <1>t, <1>2 DEF ReportedTurnsAreOver
    <2>3. ~Finished(turns[t])
      BY DEF Working, Finished
    <2>4. t \in registry'
      BY <1>1, <2>1, <2>3 DEF Reaped
    <2> QED BY <1>1, <2>1, <2>2, <2>4 DEF SlotAfter
  <1>7. ReportedTurnsAreOver'
    BY <1>t, <1>1, <1>2 DEF ReportedTurnsAreOver
  <1>8. DrainedRegistry'
    BY <1>3 DEF DrainedRegistry
  <1> QED BY <1>5, <1>6, <1>7, <1>8 DEF IInv

(* Shutdown marks everything the registry holds, which by SingleLiveTurn is  *)
(* every turn that still needed the mark.                                    *)
LEMMA ShutdownPreserves ==
    ASSUME IInv, ExitLoop \/ Drained
    PROVE  IInv'
  <1>t. TypeOK /\ SingleLiveTurn /\ ReportedTurnsAreOver /\ DrainedRegistry
    BY DEF IInv
  <1>1. CASE ExitLoop
    <2>1. /\ loop' = "draining" /\ registry' = {}
          /\ turns' = [t \in DOMAIN turns |->
                         IF t \in registry THEN [turns[t] EXCEPT !.aborted = TRUE] ELSE turns[t]]
          /\ UNCHANGED <<inbox, closed, reinject, done, held, queue, active, asked, cleared, controls>>
      BY <1>1 DEF ExitLoop
    <2>2. DOMAIN turns = 1 .. Len(turns) /\ Len(turns) \in Nat
          /\ \A t \in DOMAIN turns : turns[t] \in Turn
      BY <1>t DEF TypeOK
    <2>3. \A t \in DOMAIN turns :
             /\ turns'[t] \in Turn
             /\ Working(turns'[t]) <=> Working(turns[t])
             /\ t \in registry => turns'[t].aborted
             /\ t \notin registry => turns'[t] = turns[t]
      <3> SUFFICES ASSUME NEW t \in DOMAIN turns
                   PROVE  <2>3!(t)
        OBVIOUS
      <3>1. CASE t \in registry
        <4>1. turns'[t] = [turns[t] EXCEPT !.aborted = TRUE] /\ turns[t] \in Turn
          BY <2>1, <2>2, <3>1
        <4> QED BY <3>1, <4>1 DEF Turn, Working
      <3>2. CASE t \notin registry
        BY <2>1, <2>2, <3>2
      <3> QED BY <3>1, <3>2
    <2>4. turns' \in Seq(Turn) /\ DOMAIN turns' = DOMAIN turns
      <3>1. DOMAIN turns' = 1 .. Len(turns)
        BY <2>1, <2>2
      <3>2. turns' \in [1 .. Len(turns) -> Turn]
        BY <2>1, <2>2, <2>3, <3>1
      <3> QED BY <2>2, <3>1, <3>2
    <2>5. TypeOK'
      BY <1>t, <2>1, <2>4 DEF TypeOK
    <2>6. SingleLiveTurn'
      <3> SUFFICES ASSUME NEW t \in DOMAIN turns, Working(turns'[t]), ~turns'[t].aborted
                   PROVE  FALSE
        BY <2>4 DEF SingleLiveTurn
      <3> QED BY <1>t, <2>3 DEF SingleLiveTurn
    <2>7. ReportedTurnsAreOver'
      <3>1. done' = done /\ \A i \in DOMAIN done : done[i] \in DOMAIN turns
        BY <1>t, <2>1 DEF TypeOK
      <3> QED BY <1>t, <2>3, <3>1 DEF ReportedTurnsAreOver
    <2>8. DrainedRegistry'
      BY <2>1 DEF DrainedRegistry
    <2> QED BY <2>5, <2>6, <2>7, <2>8 DEF IInv
  <1>2. CASE Drained
    BY <1>2, <1>t DEF Drained, IInv, TypeOK, SingleLiveTurn, ReportedTurnsAreOver, DrainedRegistry
  <1> QED BY <1>1, <1>2

(* A task can only stop working; it reports only when it has.               *)
LEMMA TaskPreserves ==
    ASSUME IInv, NEW t \in DOMAIN turns, TaskStep(t)
    PROVE  IInv'
  <1>t. TypeOK /\ SingleLiveTurn /\ ReportedTurnsAreOver /\ DrainedRegistry
    BY DEF IInv
  <1>1. /\ turns' \in Seq(Turn) /\ DOMAIN turns' = DOMAIN turns
        /\ \A u \in DOMAIN turns : turns'[u].aborted = turns[u].aborted
        /\ \A u \in DOMAIN turns : Working(turns'[u]) => Working(turns[u])
    BY <1>t, TaskStepEffect
  <1>2. UNCHANGED <<inbox, closed, reinject, loop, held, queue, active, registry, asked, cleared, controls>>
    BY DEF TaskStep, Advance, Poll, Park, Drop, Start, Complete, Store, Report, Return, Panic,
           TaskUnchanged
  <1>3. \/ done' = done
        \/ done' = Append(done, t) /\ ~Working(turns'[t])
    <2>1. CASE Report(t)
      <3>1. turns' = [turns EXCEPT ![t].phase = "reported"]
        BY <2>1 DEF Report
      <3>2. turns[t] \in Turn
        BY <1>t DEF TypeOK
      <3>3. turns'[t].phase = "reported"
        BY <3>1, <3>2 DEF Turn
      <3>4. ~Working(turns'[t])
        BY <3>3 DEF Working
      <3> QED BY <2>1, <3>4 DEF Report
    <2>2. CASE ~Report(t)
      BY <2>2 DEF TaskStep, Advance, Poll, Park, Drop, Start, Complete, Store, Return, Panic
    <2> QED BY <2>1, <2>2
  <1>4. done \in Seq(DOMAIN turns) /\ \A i \in DOMAIN done : done[i] \in DOMAIN turns
    BY <1>t DEF TypeOK
  <1>5. done' \in Seq(DOMAIN turns') /\ ReportedTurnsAreOver'
    <2>1. CASE done' = done
      BY <2>1, <1>t, <1>1, <1>4 DEF ReportedTurnsAreOver
    <2>2. CASE done' = Append(done, t) /\ ~Working(turns'[t])
      <3>1. done' \in Seq(DOMAIN turns')
        BY <1>1, <1>4, <2>2
      <3>2. \A i \in DOMAIN done' : done'[i] = t \/ (i \in DOMAIN done /\ done'[i] = done[i])
        BY <1>4, <2>2
      <3> QED BY <1>t, <1>1, <1>4, <2>2, <3>1, <3>2 DEF ReportedTurnsAreOver
    <2> QED BY <1>3, <2>1, <2>2
  <1>6. TypeOK'
    BY <1>t, <1>1, <1>2, <1>5 DEF TypeOK
  <1>7. SingleLiveTurn'
    BY <1>t, <1>1, <1>2 DEF SingleLiveTurn
  <1>8. DrainedRegistry'
    BY <1>t, <1>2 DEF DrainedRegistry
  <1> QED BY <1>5, <1>6, <1>7, <1>8 DEF IInv

LEMMA StepPreserves == IInv /\ [Next]_vars => IInv'
  <1> SUFFICES ASSUME IInv, [Next]_vars PROVE IInv'
    OBVIOUS
  <1>1. CASE UNCHANGED vars
    BY <1>1 DEF vars, IInv, TypeOK, SingleLiveTurn, ReportedTurnsAreOver, DrainedRegistry
  <1>2. CASE LoopStep
    BY <1>2, DispatchPreserves, RecvDonePreserves, ShutdownPreserves DEF LoopStep
  <1>3. CASE \E t \in DOMAIN turns : TaskStep(t)
    BY <1>3, TaskPreserves
  <1>4. CASE \/ \E kind \in {"submit", "queue"} : TypePrompt(kind)
             \/ \E kind \in {"abort", "clear"} : SendControl(kind)
             \/ CloseInbox
    BY <1>4, ClientPreserves
  <1>5. CASE Quiescent
    BY <1>1, <1>5 DEF Quiescent
  <1> QED BY <1>1, <1>2, <1>3, <1>4, <1>5 DEF Next

-----------------------------------------------------------------------------

(* The inductive invariant holds in every reachable state. *)
LEMMA SessionInvariant == Spec => []IInv
  BY InitEstablishes, StepPreserves, PTL DEF Spec

(* The session's state always has its types, for any number of prompts and  *)
(* any capacities of the channels.                                          *)
THEOREM SessionTyped == Spec => []TypeOK
  <1>1. IInv => TypeOK
    BY DEF IInv
  <1> QED BY <1>1, SessionInvariant, PTL

(* However commands, reports, kills and polls interleave, at most one turn   *)
(* works without having been told to stop, it is the active one, and the     *)
(* registry holds its task, so Esc and shutdown can reach it.                *)
THEOREM OneLiveTurn == Spec => []SingleLiveTurn
  <1>1. IInv => SingleLiveTurn
    BY DEF IInv
  <1> QED BY <1>1, SessionInvariant, PTL

(* When the loop has ended, no task works that was not told to stop, however *)
(* its last turns came about: drain_all misses none.                         *)
THEOREM LoopLeavesNothingRunning == Spec => []NothingOutlivesLoop
  <1>1. IInv => NothingOutlivesLoop
    BY DEF IInv, SingleLiveTurn, DrainedRegistry, NothingOutlivesLoop
  <1> QED BY <1>1, SessionInvariant, PTL

\* The two together, as the runs check them: Esc, a new prompt and shutdown
\* reach every turn that works.
THEOREM ContainedTurns == Spec => []TurnsAreContained
  <1>1. IInv => TurnsAreContained
    BY DEF IInv, SingleLiveTurn, DrainedRegistry, NothingOutlivesLoop, TurnsAreContained
  <1> QED BY <1>1, SessionInvariant, PTL

-----------------------------------------------------------------------------
(***************************************************************************)
(* Where the prompts are.  What the inbox, the reinject channel and the    *)
(* queue hold are prompts that wait, and none of them is held twice.       *)
(***************************************************************************)

Carried(s) == {s[i].prompt : i \in DOMAIN s} \ {NoPrompt}
Members(q) == {q[i] : i \in DOMAIN q}
OnceEach(s) ==
    \A i, j \in DOMAIN s : s[i].prompt = s[j].prompt /\ s[i].prompt # NoPrompt => i = j
AllOnce(q) == \A i, j \in DOMAIN q : q[i] = q[j] => i = j

Apart(in, re, qu, W) ==
    /\ OnceEach(in) /\ OnceEach(re) /\ AllOnce(qu)
    /\ Carried(in) \cap Carried(re) = {}
    /\ Carried(in) \cap Members(qu) = {}
    /\ Carried(re) \cap Members(qu) = {}
    /\ Carried(in) \cup Carried(re) \cup Members(qu) \subseteq W

(* What a channel or the queue holds after a command leaves it or enters it. *)
LEMMA TailCarries ==
  ASSUME NEW s \in Seq(Command), s # <<>>, OnceEach(s)
  PROVE  /\ OnceEach(Tail(s))
         /\ Carried(Tail(s)) = Carried(s) \ {Head(s).prompt}
  <1>1. /\ Tail(s) \in Seq(Command) /\ DOMAIN s = 1 .. Len(s) /\ Len(s) \in Nat \ {0}
        /\ DOMAIN Tail(s) = 1 .. Len(s) - 1 /\ Head(s) = s[1]
        /\ \A i \in 1 .. Len(s) - 1 : Tail(s)[i] = s[i + 1]
    BY HeadTailProperties
  <1>2. OnceEach(Tail(s))
    BY <1>1 DEF OnceEach
  <1>3. ASSUME NEW p \in Carried(Tail(s)) PROVE p \in Carried(s) \ {Head(s).prompt}
    <2>1. PICK i \in 1 .. Len(s) - 1 : p = s[i + 1].prompt /\ p # NoPrompt
      BY <1>1, <1>3 DEF Carried
    <2>2. i + 1 \in DOMAIN s /\ 1 \in DOMAIN s /\ i + 1 # 1
      BY <1>1, <2>1
    <2> QED BY <1>1, <2>1, <2>2 DEF OnceEach, Carried
  <1>4. ASSUME NEW p \in Carried(s) \ {Head(s).prompt} PROVE p \in Carried(Tail(s))
    <2>1. PICK i \in DOMAIN s : p = s[i].prompt /\ p # NoPrompt
      BY <1>4 DEF Carried
    <2>2. i # 1
      BY <1>1, <1>4, <2>1
    <2>3. i - 1 \in 1 .. Len(s) - 1 /\ s[i] = Tail(s)[i - 1]
      BY <1>1, <2>1, <2>2
    <2> QED BY <1>1, <2>1, <2>3 DEF Carried
  <1> QED BY <1>2, <1>3, <1>4

LEMMA AppendCarries ==
  ASSUME NEW s \in Seq(Command), NEW c \in Command, OnceEach(s), c.prompt \notin Carried(s)
  PROVE  /\ OnceEach(Append(s, c))
         /\ Carried(Append(s, c)) = (Carried(s) \cup {c.prompt}) \ {NoPrompt}
  <1> DEFINE t == Append(s, c)
  <1>1. /\ DOMAIN s = 1 .. Len(s) /\ Len(s) \in Nat /\ DOMAIN t = 1 .. Len(s) + 1
        /\ t[Len(s) + 1] = c /\ \A i \in 1 .. Len(s) : t[i] = s[i]
    OBVIOUS
  <1> HIDE DEF t
  <1>2. OnceEach(t)
    <2> SUFFICES ASSUME NEW i \in 1 .. Len(s) + 1, NEW j \in 1 .. Len(s) + 1,
                        t[i].prompt = t[j].prompt, t[i].prompt # NoPrompt
                 PROVE  i = j
      BY <1>1 DEF OnceEach
    <2>1. CASE i \in 1 .. Len(s) /\ j \in 1 .. Len(s)
      BY <1>1, <2>1 DEF OnceEach
    <2>2. CASE i = Len(s) + 1 /\ j \in 1 .. Len(s)
      BY <1>1, <2>2 DEF Carried
    <2>3. CASE j = Len(s) + 1 /\ i \in 1 .. Len(s)
      BY <1>1, <2>3 DEF Carried
    <2> QED BY <1>1, <2>1, <2>2, <2>3
  <1>3. Carried(t) = (Carried(s) \cup {c.prompt}) \ {NoPrompt}
    <2>1. ASSUME NEW i \in 1 .. Len(s) + 1 PROVE t[i].prompt \in Carried(s) \cup {c.prompt, NoPrompt}
      <3>1. CASE i \in 1 .. Len(s)
        BY <1>1, <3>1 DEF Carried
      <3> QED BY <1>1, <2>1, <3>1
    <2>2. ASSUME NEW p \in Carried(s) \cup {c.prompt}, p # NoPrompt PROVE p \in Carried(t)
      <3>1. PICK i \in 1 .. Len(s) + 1 : t[i].prompt = p
        <4>1. CASE p \in Carried(s)
          BY <1>1, <4>1 DEF Carried
        <4>2. CASE p = c.prompt
          BY <1>1, <4>2
        <4> QED BY <2>2, <4>1, <4>2
      <3> QED BY <1>1, <2>2, <3>1 DEF Carried
    <2> QED BY <1>1, <2>1, <2>2 DEF Carried
  <1> QED BY <1>2, <1>3 DEF t

(* The queue holds its prompts bare.                                        *)
LEMMA TailMembers ==
  ASSUME NEW q \in Seq(Nat), q # <<>>, AllOnce(q)
  PROVE  AllOnce(Tail(q)) /\ Members(Tail(q)) = Members(q) \ {Head(q)} /\ Head(q) \in Members(q)
  <1>1. /\ DOMAIN q = 1 .. Len(q) /\ Len(q) \in Nat \ {0}
        /\ DOMAIN Tail(q) = 1 .. Len(q) - 1 /\ Head(q) = q[1]
        /\ \A i \in 1 .. Len(q) - 1 : Tail(q)[i] = q[i + 1]
    OBVIOUS
  <1>2. AllOnce(Tail(q))
    BY SMTT(30), <1>1 DEF AllOnce
  <1>3. ASSUME NEW p \in Members(Tail(q)) PROVE p \in Members(q) \ {Head(q)}
    <2>1. PICK i \in 1 .. Len(q) - 1 : p = q[i + 1]
      BY <1>1, <1>3 DEF Members
    <2> QED BY <1>1, <2>1 DEF AllOnce, Members
  <1>4. ASSUME NEW p \in Members(q) \ {Head(q)} PROVE p \in Members(Tail(q))
    <2>1. PICK i \in DOMAIN q : p = q[i] /\ i # 1
      BY <1>1, <1>4 DEF Members
    <2>2. i - 1 \in 1 .. Len(q) - 1 /\ q[i] = Tail(q)[i - 1]
      BY <1>1, <2>1
    <2> QED BY <1>1, <2>1, <2>2 DEF Members
  <1>5. Head(q) \in Members(q)
    BY <1>1 DEF Members
  <1> QED BY <1>2, <1>3, <1>4, <1>5

LEMMA AppendMembers ==
  ASSUME NEW q \in Seq(Nat), NEW p \in Nat, AllOnce(q), p \notin Members(q)
  PROVE  AllOnce(Append(q, p)) /\ Members(Append(q, p)) = Members(q) \cup {p}
  <1> DEFINE t == Append(q, p)
  <1>1. /\ DOMAIN q = 1 .. Len(q) /\ Len(q) \in Nat /\ DOMAIN t = 1 .. Len(q) + 1
        /\ t[Len(q) + 1] = p /\ \A i \in 1 .. Len(q) : t[i] = q[i]
    OBVIOUS
  <1> HIDE DEF t
  <1>2. AllOnce(t)
    BY <1>1 DEF AllOnce, Members
  <1>3. Members(t) = Members(q) \cup {p}
    BY <1>1 DEF Members
  <1> QED BY <1>2, <1>3 DEF t


(* An empty channel and an empty queue hold nothing.                         *)
LEMMA Emptied == Carried(<<>>) = {} /\ OnceEach(<<>>) /\ Members(<<>>) = {} /\ AllOnce(<<>>)
  BY DEF Carried, OnceEach, Members, AllOnce

(* A prompt leaves its place, and takes another.                            *)
LEMMA EitherChannel ==
  ASSUME NEW in, NEW re, NEW qu, NEW W, Apart(in, re, qu, W)
  PROVE  Apart(re, in, qu, W)
  BY DEF Apart

LEMMA LeavesChannel ==
  ASSUME NEW in \in Seq(Command), NEW re, NEW qu, NEW W,
         Apart(in, re, qu, W), NoPrompt \notin W, in # <<>>
  PROVE  /\ Apart(Tail(in), re, qu, W \ {Head(in).prompt})
         /\ Head(in).prompt # NoPrompt => Head(in).prompt \in W
  <1>1. 1 \in DOMAIN in /\ Head(in) = in[1]
    OBVIOUS
  <1>2. Head(in).prompt # NoPrompt => Head(in).prompt \in Carried(in)
    BY <1>1 DEF Carried
  <1>3. /\ OnceEach(Tail(in)) /\ Carried(Tail(in)) = Carried(in) \ {Head(in).prompt}
    BY TailCarries DEF Apart
  <1>4. NoPrompt \notin Carried(re) \cup Members(qu)
    BY DEF Apart
  <1> QED BY <1>2, <1>3, <1>4 DEF Apart

LEMMA LeavesQueue ==
  ASSUME NEW in, NEW re, NEW qu \in Seq(Nat), NEW W, Apart(in, re, qu, W), qu # <<>>
  PROVE  Apart(in, re, Tail(qu), W \ {Head(qu)}) /\ Head(qu) \in W
  BY TailMembers DEF Apart

LEMMA EntersChannel ==
  ASSUME NEW in \in Seq(Command), NEW re, NEW qu, NEW W, NEW c \in Command,
         Apart(in, re, qu, W \ {c.prompt}), c.prompt = NoPrompt \/ c.prompt \in W
  PROVE  Apart(Append(in, c), re, qu, W)
  <1>1. c.prompt \notin Carried(in) \cup Carried(re) \cup Members(qu)
    BY DEF Apart
  <1>2. /\ OnceEach(Append(in, c))
        /\ Carried(Append(in, c)) = (Carried(in) \cup {c.prompt}) \ {NoPrompt}
    BY <1>1, AppendCarries DEF Apart
  <1> QED BY <1>1, <1>2 DEF Apart

LEMMA EntersQueue ==
  ASSUME NEW in, NEW re, NEW qu \in Seq(Nat), NEW W, NEW p \in Nat,
         Apart(in, re, qu, W \ {p}), p \in W
  PROVE  Apart(in, re, Append(qu, p), W)
  <1>1. p \notin Carried(in) \cup Carried(re) \cup Members(qu)
    BY DEF Apart
  <1>2. AllOnce(Append(qu, p)) /\ Members(Append(qu, p)) = Members(qu) \cup {p}
    BY <1>1, AppendMembers DEF Apart
  <1> QED BY <1>1, <1>2 DEF Apart

(* ClearQueue empties the queue of prompts that waited.                     *)
LEMMA QueueCleared ==
  ASSUME NEW in, NEW re, NEW qu, NEW W, Apart(in, re, qu, W)
  PROVE  Apart(in, re, <<>>, W \ Members(qu))
  BY Emptied DEF Apart

(* Prompts that are typed wait besides those held.                          *)
LEMMA MoreWaiting ==
  ASSUME NEW in, NEW re, NEW qu, NEW W, NEW V, Apart(in, re, qu, W), W \subseteq V
  PROVE  Apart(in, re, qu, V)
  BY DEF Apart

(* Bounced prompts differ, so there are no more of them than were typed.     *)
LEMMA NoMoreThanTyped ==
  ASSUME NEW s \in Seq(Command), OnceEach(s), \A i \in DOMAIN s : s[i].prompt # NoPrompt,
         NEW n \in Nat, NEW p \in 1 .. n, Carried(s) \subseteq (1 .. n) \ {p}
  PROVE  Len(s) < n
  <1> DEFINE f == [i \in 1 .. Len(s) |-> s[i].prompt]
             T == (1 .. n) \ {p}
  <1>1. DOMAIN s = 1 .. Len(s) /\ Len(s) \in Nat
    OBVIOUS
  <1>2. \A i \in 1 .. Len(s) : s[i].prompt \in T
    BY <1>1 DEF Carried
  <1>3. f \in [1 .. Len(s) -> T] /\ \A i, j \in 1 .. Len(s) : f[i] = f[j] => i = j
    BY <1>1, <1>2 DEF OnceEach
  <1>4. \A k \in Nat : IsFiniteSet(1 .. k) /\ Cardinality(1 .. k) = k
    BY FS_Interval
  <1>5. IsFiniteSet(T) /\ Cardinality(T) = n - 1
    BY <1>4, FS_RemoveElement
  <1>6. IsFiniteSet(1 .. Len(s)) /\ Cardinality(1 .. Len(s)) = Len(s)
    BY <1>1, <1>4
  <1> HIDE DEF f, T
  <1>7. ~(Cardinality(T) < Cardinality(1 .. Len(s)))
    BY <1>3, <1>5, <1>6, FS_PigeonHole
  <1> QED BY <1>1, <1>5, <1>6, <1>7

-----------------------------------------------------------------------------

(* The prompts typed that have neither run nor been cleared.                *)
Waiting ==
    {p \in 1 .. Len(asked) : p \notin cleared /\ \A t \in DOMAIN turns : turns[t].prompt # p}

(* Nothing is cleared or run that was not typed.                            *)
OnlyTyped ==
    /\ Len(asked) <= MaxPrompts
    /\ \A p \in cleared : p <= Len(asked)
    /\ \A t \in DOMAIN turns : turns[t].prompt <= Len(asked)

(* Submissions carry a prompt, and so does all that is bounced.              *)
CarryPrompts ==
    /\ \A i \in DOMAIN inbox : inbox[i].kind \in {"submit", "queue"} => inbox[i].prompt # NoPrompt
    /\ \A i \in DOMAIN reinject : reinject[i].prompt # NoPrompt

(* No prompt is held twice; so the bounced ones fit into the reinject        *)
(* channel, unless more were typed than it holds.                            *)
LedgerInv == Apart(inbox, reinject, queue, Waiting) /\ OnlyTyped /\ CarryPrompts
            /\ WedgedOnlyOverCapacity

(* What the ledger sees of the session.                                     *)
Status == [p \in Prompt |-> StatusOf(p)]

LEMMA WaitingType == NoPrompt \notin Waiting
  BY DEF Waiting, NoPrompt

(* The ledger sees nothing of a step that frees the slot at most, but for    *)
(* the end of the prompt that ran.                                          *)
LEMMA SlotStep ==
  ASSUME TypeOK, UNCHANGED <<asked, cleared>>,
         DOMAIN turns' = DOMAIN turns,
         \A t \in DOMAIN turns : turns'[t].prompt = turns[t].prompt,
         active' \in {active, NoTurn},
         loop' \in {"select", "wedged"} => loop \in {"select", "wedged"}
  PROVE  [Ledger!LedgerNext]_Status
  <1>1. ASSUME NEW p \in Prompt
        PROVE  \/ StatusOf(p)' = StatusOf(p)
               \/ StatusOf(p) = "running" /\ StatusOf(p)' = "over"
    <2>1. (\A t \in DOMAIN turns' : turns'[t].prompt # p)
             <=> (\A t \in DOMAIN turns : turns[t].prompt # p)
      OBVIOUS
    <2>2. active # NoTurn => active \in DOMAIN turns
      BY DEF TypeOK
    <2> QED BY <2>1, <2>2 DEF StatusOf
  <1>2. \A p \in Prompt : StatusOf(p) = "running" => p = turns[active].prompt
    BY DEF StatusOf
  <1>3. CASE \A p \in Prompt : StatusOf(p)' = StatusOf(p)
    BY <1>3 DEF Status
  <1>4. CASE \E p \in Prompt : StatusOf(p)' # StatusOf(p)
    <2>1. PICK p \in Prompt : StatusOf(p) = "running" /\ StatusOf(p)' = "over"
      BY <1>1, <1>4
    <2>2. \A q \in Prompt \ {p} : StatusOf(q)' = StatusOf(q)
      BY <1>1, <1>2, <2>1
    <2>3. Status' = [Status EXCEPT ![p] = "over"] /\ Status[p] = "running"
      BY <2>1, <2>2 DEF Status
    <2>4. Ledger!End(p)
      BY <2>3 DEF Ledger!End, Status
    <2> QED BY <2>4 DEF Ledger!LedgerNext
  <1> QED BY <1>3, <1>4

(* A kill leaves every turn its prompt.                                     *)
LEMMA AbortedPrompts ==
  ASSUME NEW t, NEW p
  PROVE  /\ DOMAIN Aborted(t, p) = DOMAIN turns
         /\ TypeOK => \A u \in DOMAIN turns : Aborted(t, p)[u].prompt = turns[u].prompt
  <1>1. CASE t \notin registry
    BY <1>1 DEF Aborted
  <1>2. CASE t \in registry
    <2> DEFINE r == [turns[t] EXCEPT !.aborted = TRUE, !.by = p]
    <2>1. Aborted(t, p) = [turns EXCEPT ![t] = r]
      BY <1>2 DEF Aborted
    <2>2. TypeOK => t \in DOMAIN turns /\ r.prompt = turns[t].prompt
      BY <1>2 DEF TypeOK, Turn
    <2> QED BY <2>1, <2>2
  <1> QED BY <1>1, <1>2

(* A submitted prompt runs, and ends the one that ran.                      *)
LEMMA RunStep ==
  ASSUME TypeOK, OnlyTyped, NEW c \in Command, c.prompt \in Waiting,
         loop \in {"select", "wedged"}, UNCHANGED <<asked, cleared, loop>>,
         turns' = Append(Aborted(active, c.prompt), NewTurn(c.prompt)), active' = NewId
  PROVE  Ledger!LedgerNext /\ Waiting' = Waiting \ {c.prompt} /\ OnlyTyped'
  <1> DEFINE n == c.prompt
             k == Len(turns) + 1
  <1>1. /\ n \in 1 .. Len(asked) /\ n \notin cleared
        /\ \A t \in DOMAIN turns : turns[t].prompt # n
    BY DEF Waiting
  <1>2. n \in Prompt /\ n \in Nat /\ Len(asked) \in Nat
    BY <1>1, BoundsAssumption DEF OnlyTyped, Prompt, TypeOK
  <1>3. turns \in Seq(Turn) /\ DOMAIN turns = 1 .. Len(turns) /\ Len(turns) \in Nat
        /\ active \in DOMAIN turns \cup {NoTurn}
    BY DEF TypeOK
  <1>4. /\ Aborted(active, n) \in Seq(Turn) /\ Len(Aborted(active, n)) = Len(turns)
        /\ \A t \in DOMAIN turns : Aborted(active, n)[t].prompt = turns[t].prompt
    BY ZenonT(30), <1>2, <1>3, AbortedEffect, AbortedPrompts
  <1>5. /\ DOMAIN turns' = 1 .. k /\ turns'[k].prompt = n
        /\ \A t \in DOMAIN turns : turns'[t].prompt = turns[t].prompt
    <2>1. NewTurn(n) \in Turn /\ NewTurn(n).prompt = n
      BY <1>2, NewTurnType DEF NewTurn
    <2>2. /\ DOMAIN turns' = 1 .. k /\ turns'[k] = NewTurn(n)
          /\ \A t \in 1 .. Len(turns) : turns'[t] = Aborted(active, n)[t]
      BY <1>3, <1>4, <2>1
    <2> QED BY <1>3, <1>4, <2>1, <2>2
  <1>6. active' = k /\ k # NoTurn
    BY <1>3 DEF NewId, NoTurn
  <1> HIDE DEF n, k
  <1>7. \A p \in Prompt : (\A t \in DOMAIN turns' : turns'[t].prompt # p)
                            <=> (p # n /\ \A t \in DOMAIN turns : turns[t].prompt # p)
    BY <1>3, <1>5 DEF k
  <1>8. ASSUME NEW p \in Prompt, p # n
        PROVE  StatusOf(p)' = IF StatusOf(p) = "running" THEN "over" ELSE StatusOf(p)
    BY <1>3, <1>5, <1>6, <1>7, <1>8 DEF StatusOf
  <1>9. StatusOf(n) = "waiting" /\ StatusOf(n)' = "running"
    <2>1. StatusOf(n) = "waiting"
      BY <1>1, <1>2 DEF StatusOf
    <2>2. turns'[active'].prompt = n /\ active' # NoTurn /\ k \in DOMAIN turns'
      BY <1>3, <1>5, <1>6 DEF k
    <2>3. ~(n > Len(asked')) /\ n \notin cleared' /\ loop' \in {"select", "wedged"}
      BY <1>1, <1>2
    <2>4. StatusOf(n)' = "running"
      BY <1>5, <2>2, <2>3 DEF StatusOf
    <2> QED BY <2>1, <2>4
  <1>10. Ledger!Run(n)
    BY <1>2, <1>8, <1>9 DEF Ledger!Run
  <1>11. Waiting' = Waiting \ {n}
    <2>1. 1 .. Len(asked) \subseteq Prompt
      BY <1>2, BoundsAssumption DEF OnlyTyped, Prompt
    <2>2. \A p \in 1 .. Len(asked) : p \in Waiting' <=> p \in Waiting \ {n}
      BY <1>7, <2>1 DEF Waiting
    <2> QED BY <2>2 DEF Waiting
  <1>12. OnlyTyped'
    BY <1>1, <1>2, <1>3, <1>5 DEF OnlyTyped, k
  <1> QED BY <1>2, <1>10, <1>11, <1>12 DEF Ledger!LedgerNext, n

(* ClearQueue takes every queued prompt, and each was waiting.              *)
LEMMA ClearStep ==
  ASSUME TypeOK, OnlyTyped, Members(queue) \subseteq Waiting,
         UNCHANGED <<asked, turns, active, loop>>,
         cleared' = cleared \cup {queue[i] : i \in DOMAIN queue}
  PROVE  Ledger!LedgerNext /\ Waiting' = Waiting \ Members(queue) /\ OnlyTyped'
  <1>1. cleared' = cleared \cup Members(queue)
    BY DEF Members
  <1>2. Waiting' = Waiting \ Members(queue)
    BY <1>1 DEF Waiting
  <1>3. Waiting \subseteq Prompt /\ Waiting \subseteq 1 .. Len(asked) /\ Len(asked) \in Nat
    BY BoundsAssumption DEF Waiting, OnlyTyped, Prompt, TypeOK
  <1>4. ASSUME NEW p \in Prompt
        PROVE  StatusOf(p)' = IF p \in Members(queue) THEN "cleared" ELSE StatusOf(p)
    BY <1>1, <1>3, <1>4 DEF StatusOf
  <1>5. \A p \in Members(queue) : StatusOf(p) = "waiting"
    BY <1>3 DEF StatusOf, Waiting
  <1>6. Ledger!Clear(Members(queue))
    BY <1>3, <1>4, <1>5 DEF Ledger!Clear
  <1>7. Members(queue) \in SUBSET Prompt
    BY <1>3
  <1>8. OnlyTyped'
    <2>1. ASSUME NEW p \in Members(queue) PROVE p <= Len(asked)
      <3>1. p \in 1 .. Len(asked)
        BY <1>3
      <3> QED BY <1>3, <3>1
    <2> QED BY <1>1, <2>1 DEF OnlyTyped
  <1> QED BY <1>2, <1>6, <1>7, <1>8 DEF Ledger!LedgerNext

(* A prompt typed waits from then on.                                       *)
LEMMA TypeStep ==
  ASSUME TypeOK, OnlyTyped, Len(asked) < MaxPrompts, NEW kind, asked' = Append(asked, kind),
         UNCHANGED <<turns, active, loop, cleared>>, NEW n \in Nat, n = Len(asked) + 1
  PROVE  /\ Ledger!LedgerNext
         /\ n \notin Waiting /\ Waiting' = Waiting \cup {n}
         /\ OnlyTyped'
  <1>1. Len(asked) \in Nat /\ Len(asked') = n /\ n \in Prompt
    BY BoundsAssumption DEF TypeOK, Prompt
  <1>2. n \notin cleared /\ \A t \in DOMAIN turns : turns[t].prompt # n
    BY <1>1 DEF OnlyTyped
  <1>3. n \notin Waiting /\ Waiting' = Waiting \cup {n}
    BY <1>1, <1>2 DEF Waiting
  <1>4. OnlyTyped'
    <2>1. \A p \in cleared : p \in Nat
      BY DEF TypeOK
    <2>2. \A t \in DOMAIN turns : turns[t].prompt \in Nat
      <3>1. \A t \in DOMAIN turns : turns[t] \in Turn
        BY ElementOfSeq DEF TypeOK
      <3> QED BY <3>1 DEF Turn
    <2>3. Len(asked') <= MaxPrompts
      BY <1>1, BoundsAssumption
    <2>4. \A m \in Nat : m <= Len(asked) => m <= Len(asked')
      BY <1>1
    <2> QED BY <2>1, <2>2, <2>3, <2>4 DEF OnlyTyped
  <1>5. StatusOf(n) = "untyped" /\ StatusOf(n)' = "waiting"
    <2>1. n > Len(asked) /\ ~(n > Len(asked'))
      BY <1>1
    <2> QED BY <1>2, <2>1 DEF StatusOf
  <1>6. ASSUME NEW p \in Prompt, p # n PROVE StatusOf(p)' = StatusOf(p)
    <2>1. p > Len(asked') <=> p > Len(asked)
      BY <1>1, <1>6 DEF Prompt
    <2> QED BY <2>1 DEF StatusOf
  <1>7. Status' = [Status EXCEPT ![n] = "waiting"] /\ Status[n] = "untyped"
    BY <1>1, <1>5, <1>6 DEF Status
  <1>8. Ledger!Type(n)
    BY <1>7 DEF Ledger!Type, Status
  <1> QED BY <1>1, <1>3, <1>4, <1>8 DEF Ledger!LedgerNext

(* The same places for the same tasks: who waits and who was typed stay.     *)
LEMMA SameWaiting ==
  ASSUME UNCHANGED <<asked, cleared>>, DOMAIN turns' = DOMAIN turns,
         \A t \in DOMAIN turns : turns'[t].prompt = turns[t].prompt
  PROVE  Waiting' = Waiting /\ (OnlyTyped => OnlyTyped')
  BY DEF Waiting, OnlyTyped

(* A prompt on its way back to the loop is in its channel, or the loop is   *)
(* blocked and more prompts were typed than the channel holds.              *)
LEMMA BounceKeeps ==
  ASSUME NEW in, NEW rest \in Seq(Command), NEW qu, NEW c \in Command,
         c.prompt \in Waiting, Apart(in, rest, qu, Waiting \ {c.prompt}),
         \A i \in DOMAIN rest : rest[i].prompt # NoPrompt,
         Len(asked) \in Nat, loop = "select", Reinject(rest, c)
  PROVE  /\ Apart(in, reinject', qu, Waiting)
         /\ \A i \in DOMAIN reinject' : reinject'[i].prompt # NoPrompt
         /\ loop' = "select" \/ (loop' = "wedged" /\ Len(asked) > ReinjectCap)
  <1>1. c.prompt # NoPrompt /\ c.prompt \in 1 .. Len(asked)
    BY WaitingType DEF Waiting
  <1>2. CASE Len(rest) < ReinjectCap /\ reinject' = Append(rest, c) /\ UNCHANGED <<loop, held>>
    <2>1. Apart(rest, in, qu, Waiting \ {c.prompt})
      BY EitherChannel
    <2>2. Apart(reinject', in, qu, Waiting)
      BY <1>2, <2>1, EntersChannel
    <2>3. Apart(in, reinject', qu, Waiting)
      BY <2>2, EitherChannel
    <2>4. \A i \in DOMAIN reinject' : reinject'[i] = c \/ (i \in DOMAIN rest /\ reinject'[i] = rest[i])
      BY <1>2
    <2> QED BY <1>1, <1>2, <2>3, <2>4
  <1>3. CASE Len(rest) >= ReinjectCap /\ reinject' = rest /\ loop' = "wedged"
    <2>1. OnceEach(rest) /\ Carried(rest) \subseteq (1 .. Len(asked)) \ {c.prompt}
      BY DEF Apart, Waiting
    <2>2. Len(rest) < Len(asked)
      BY <1>1, <2>1, NoMoreThanTyped
    <2>3. Apart(in, reinject', qu, Waiting)
      BY <1>3, MoreWaiting
    <2>4. Len(asked) > ReinjectCap
      BY <1>3, <2>2, BoundsAssumption
    <2> QED BY <1>3, <2>3, <2>4
  <1> QED BY <1>2, <1>3 DEF Reinject

(* What dispatch does, whichever channel the command came from.             *)
LEMMA DispatchLedger ==
  ASSUME TypeOK, OnlyTyped, NEW c \in Command, NEW rest \in Seq(Command),
         Dispatch(c, rest), loop = "select", asked' = asked,
         Apart(inbox', rest, queue, Waiting \ {c.prompt}),
         c.prompt \in Waiting \cup {NoPrompt},
         c.kind \in {"submit", "queue"} => c.prompt # NoPrompt,
         \A i \in DOMAIN rest : rest[i].prompt # NoPrompt
  PROVE  /\ Apart(inbox', reinject', queue', Waiting')
         /\ OnlyTyped' /\ WedgedOnlyOverCapacity'
         /\ \A i \in DOMAIN reinject' : reinject'[i].prompt # NoPrompt
         /\ [Ledger!LedgerNext]_Status
  <1>1. CASE SubmitPrompt(c, rest)
    <2>1. /\ c.prompt \in Waiting /\ UNCHANGED <<loop, queue, cleared>> /\ reinject' = rest
          /\ turns' = Append(Aborted(active, c.prompt), NewTurn(c.prompt)) /\ active' = NewId
      BY <1>1 DEF SubmitPrompt
    <2>2. Ledger!LedgerNext /\ Waiting' = Waiting \ {c.prompt} /\ OnlyTyped'
      BY <2>1, RunStep
    <2> QED BY <2>1, <2>2 DEF WedgedOnlyOverCapacity
  <1>2. CASE AbortLive(c, rest) \/ AbortIdle(c, rest) \/ QueueBusy(c, rest)
    <2>1. /\ UNCHANGED <<loop, cleared>> /\ reinject' = rest
          /\ active' \in {active, NoTurn}
          /\ turns' = turns \/ turns' = Aborted(active, NoPrompt)
      BY <1>2 DEF AbortLive, AbortIdle, QueueBusy
    <2>2. /\ DOMAIN turns' = DOMAIN turns
          /\ \A t \in DOMAIN turns : turns'[t].prompt = turns[t].prompt
      BY <2>1, AbortedPrompts
    <2>3. Waiting' = Waiting /\ OnlyTyped'
      BY <2>1, <2>2, SameWaiting
    <2>4. [Ledger!LedgerNext]_Status
      BY <2>1, <2>2, SlotStep
    <2>5. Apart(inbox', rest, queue', Waiting)
      <3>1. CASE QueueBusy(c, rest)
        <4>1. queue' = Append(queue, c.prompt) /\ c.prompt \in Waiting /\ c.prompt \in Nat
          BY <3>1 DEF QueueBusy, Command
        <4>2. queue \in Seq(Nat)
          BY DEF TypeOK
        <4> QED BY <4>1, <4>2, EntersQueue
      <3>2. CASE AbortLive(c, rest) \/ AbortIdle(c, rest)
        <4>1. queue' = queue
          BY <3>2 DEF AbortLive, AbortIdle
        <4> QED BY <4>1, MoreWaiting
      <3> QED BY <1>2, <3>1, <3>2
    <2> QED BY <2>1, <2>3, <2>4, <2>5 DEF WedgedOnlyOverCapacity
  <1>3. CASE QueueIdle(c, rest)
    <2> DEFINE b == [kind |-> "submit", prompt |-> c.prompt]
    <2>1. Reinject(rest, b) /\ UNCHANGED <<queue, active, turns, cleared>>
      BY <1>3 DEF QueueIdle
    <2>2. b \in Command /\ b.prompt = c.prompt /\ c.prompt \in Waiting
      BY <1>3 DEF QueueIdle, Command
    <2>3. Len(asked) \in Nat
      BY DEF TypeOK
    <2> HIDE DEF b
    <2>4. /\ Apart(inbox', reinject', queue, Waiting)
          /\ \A i \in DOMAIN reinject' : reinject'[i].prompt # NoPrompt
          /\ loop' = "select" \/ (loop' = "wedged" /\ Len(asked) > ReinjectCap)
      BY <2>1, <2>2, <2>3, BounceKeeps
    <2>5. Waiting' = Waiting /\ OnlyTyped'
      BY <2>1, SameWaiting
    <2>6. [Ledger!LedgerNext]_Status
      BY <2>1, SlotStep
    <2> QED BY <2>1, <2>4, <2>5, <2>6 DEF WedgedOnlyOverCapacity
  <1>4. CASE ClearQueue(c, rest)
    <2>1. /\ queue' = <<>> /\ reinject' = rest /\ UNCHANGED <<loop, active, turns>>
          /\ cleared' = cleared \cup {queue[i] : i \in DOMAIN queue}
      BY <1>4 DEF ClearQueue
    <2>2. Members(queue) \subseteq Waiting
      BY DEF Apart
    <2>3. Ledger!LedgerNext /\ Waiting' = Waiting \ Members(queue) /\ OnlyTyped'
      BY <2>1, <2>2, ClearStep
    <2>4. Apart(inbox', rest, queue, Waiting)
      BY MoreWaiting
    <2>5. Apart(inbox', rest, <<>>, Waiting \ Members(queue))
      BY <2>4, QueueCleared
    <2> QED BY <2>1, <2>3, <2>5 DEF WedgedOnlyOverCapacity
  <1> QED BY <1>1, <1>2, <1>3, <1>4 DEF Dispatch

(* The loop takes a command from either channel.                            *)
LEMMA CommandLedger ==
  ASSUME TypeOK, LedgerInv, RecvCommand \/ RecvReinjected
  PROVE  LedgerInv' /\ [Ledger!LedgerNext]_Status
  <1>1. /\ inbox \in Seq(Command) /\ reinject \in Seq(Command)
        /\ Apart(inbox, reinject, queue, Waiting) /\ OnlyTyped /\ CarryPrompts
    BY DEF TypeOK, LedgerInv
  <1>2. CASE RecvCommand
    <2> DEFINE c == Head(inbox)
    <2>1. /\ Dispatch(c, reinject) /\ loop = "select" /\ asked' = asked
          /\ inbox # <<>> /\ inbox' = Tail(inbox)
      BY <1>2 DEF RecvCommand
    <2>2. /\ c \in Command /\ 1 \in DOMAIN inbox /\ c = inbox[1]
          /\ \A i \in DOMAIN inbox' : i + 1 \in DOMAIN inbox /\ inbox'[i] = inbox[i + 1]
      BY <1>1, <2>1
    <2>3. /\ Apart(inbox', reinject, queue, Waiting \ {c.prompt})
          /\ c.prompt # NoPrompt => c.prompt \in Waiting
      BY <1>1, <2>1, WaitingType, LeavesChannel
    <2>4. /\ c.kind \in {"submit", "queue"} => c.prompt # NoPrompt
          /\ \A i \in DOMAIN reinject : reinject[i].prompt # NoPrompt
          /\ \A i \in DOMAIN inbox' :
                 inbox'[i].kind \in {"submit", "queue"} => inbox'[i].prompt # NoPrompt
      BY <1>1, <2>2 DEF CarryPrompts
    <2> HIDE DEF c
    <2> QED BY <1>1, <2>1, <2>2, <2>3, <2>4, DispatchLedger DEF LedgerInv, CarryPrompts
  <1>3. CASE RecvReinjected
    <2> DEFINE c == Head(reinject)
               rest == Tail(reinject)
    <2>1. /\ Dispatch(c, rest) /\ loop = "select" /\ asked' = asked
          /\ reinject # <<>> /\ inbox' = inbox
      BY <1>3 DEF RecvReinjected
    <2>2. /\ c \in Command /\ rest \in Seq(Command) /\ 1 \in DOMAIN reinject /\ c = reinject[1]
          /\ \A i \in DOMAIN rest : i + 1 \in DOMAIN reinject /\ rest[i] = reinject[i + 1]
      BY <1>1, <2>1
    <2>3. /\ Apart(rest, inbox, queue, Waiting \ {c.prompt})
          /\ c.prompt # NoPrompt => c.prompt \in Waiting
      BY <1>1, <2>1, WaitingType, EitherChannel, LeavesChannel
    <2>4. Apart(inbox', rest, queue, Waiting \ {c.prompt})
      BY <2>1, <2>3, EitherChannel
    <2>5. /\ c.prompt # NoPrompt
          /\ \A i \in DOMAIN rest : rest[i].prompt # NoPrompt
      BY <1>1, <2>2 DEF CarryPrompts
    <2> HIDE DEF c, rest
    <2> QED BY <1>1, <2>1, <2>2, <2>3, <2>4, <2>5, DispatchLedger DEF LedgerInv, CarryPrompts
  <1> QED BY <1>2, <1>3

(* A report frees the slot and bounces the next queued prompt.              *)
LEMMA DoneLedger ==
  ASSUME TypeOK, LedgerInv, RecvDone
  PROVE  LedgerInv' /\ [Ledger!LedgerNext]_Status
  <1>1. /\ loop = "select" /\ active' \in {active, NoTurn}
        /\ UNCHANGED <<inbox, turns, asked, cleared>>
    BY DEF RecvDone, SlotAfter
  <1>2. Waiting' = Waiting /\ OnlyTyped'
    BY <1>1, SameWaiting DEF LedgerInv
  <1>3. [Ledger!LedgerNext]_Status
    BY <1>1, SlotStep
  <1>4. CASE UNCHANGED <<queue, reinject, loop, held>>
    BY <1>1, <1>2, <1>3, <1>4 DEF LedgerInv, CarryPrompts, WedgedOnlyOverCapacity
  <1>5. CASE /\ queue # <<>> /\ queue' = Tail(queue)
             /\ Reinject(reinject, [kind |-> "queue", prompt |-> Head(queue)])
    <2> DEFINE c == [kind |-> "queue", prompt |-> Head(queue)]
    <2>1. /\ queue \in Seq(Nat) /\ reinject \in Seq(Command) /\ Len(asked) \in Nat
          /\ Head(queue) \in Nat
      BY <1>5 DEF TypeOK
    <2>2. c \in Command /\ c.prompt = Head(queue)
      BY <2>1 DEF Command
    <2>3. Apart(inbox, reinject, queue', Waiting \ {c.prompt}) /\ c.prompt \in Waiting
      BY <1>5, <2>1, <2>2, LeavesQueue DEF LedgerInv
    <2>4. \A i \in DOMAIN reinject : reinject[i].prompt # NoPrompt
      BY DEF LedgerInv, CarryPrompts
    <2>5. Reinject(reinject, c)
      BY <1>5
    <2> HIDE DEF c
    <2>6. /\ Apart(inbox, reinject', queue', Waiting)
          /\ \A i \in DOMAIN reinject' : reinject'[i].prompt # NoPrompt
          /\ loop' = "select" \/ (loop' = "wedged" /\ Len(asked) > ReinjectCap)
      BY <1>1, <2>1, <2>2, <2>3, <2>4, <2>5, BounceKeeps
    <2> QED BY <1>1, <1>2, <1>3, <2>6 DEF LedgerInv, CarryPrompts, WedgedOnlyOverCapacity
  <1> QED BY <1>4, <1>5 DEF RecvDone

(* The client: a prompt typed is one that waits.                            *)
LEMMA ClientLedger ==
  ASSUME TypeOK, LedgerInv,
         \/ \E kind \in {"submit", "queue"} : TypePrompt(kind)
         \/ \E kind \in {"abort", "clear"} : SendControl(kind)
  PROVE  LedgerInv' /\ [Ledger!LedgerNext]_Status
  <1>1. /\ inbox \in Seq(Command) /\ Len(asked) \in Nat
        /\ Apart(inbox, reinject, queue, Waiting) /\ OnlyTyped /\ CarryPrompts
    BY DEF TypeOK, LedgerInv
  <1>2. ASSUME NEW kind \in {"submit", "queue"}, TypePrompt(kind)
        PROVE  LedgerInv' /\ [Ledger!LedgerNext]_Status
    <2>1. PICK n \in Nat : n = Len(asked) + 1
      BY <1>1
    <2> DEFINE c == [kind |-> kind, prompt |-> n]
    <2>2. /\ Len(asked) < MaxPrompts /\ asked' = Append(asked, kind) /\ inbox' = Append(inbox, c)
          /\ UNCHANGED <<reinject, queue, loop, turns, active, cleared>>
      BY <1>2, <2>1 DEF TypePrompt, ClientSends
    <2>3. c \in Command /\ c.prompt = n /\ n # NoPrompt
      BY <1>1, <2>1 DEF Command, NoPrompt
    <2>4. /\ Ledger!LedgerNext /\ n \notin Waiting /\ Waiting' = Waiting \cup {n}
          /\ OnlyTyped'
      BY <1>1, <2>1, <2>2, TypeStep
    <2> HIDE DEF c
    <2>5. Apart(inbox, reinject, queue, Waiting' \ {c.prompt}) /\ c.prompt \in Waiting'
      BY <1>1, <2>3, <2>4, MoreWaiting
    <2>6. Apart(inbox', reinject', queue', Waiting')
      BY <1>1, <2>2, <2>3, <2>5, EntersChannel
    <2>7. CarryPrompts'
      <3>1. \A i \in DOMAIN inbox' : inbox'[i] = c \/ (i \in DOMAIN inbox /\ inbox'[i] = inbox[i])
        BY <1>1, <2>2
      <3> QED BY <1>1, <2>2, <2>3, <3>1 DEF CarryPrompts
    <2>8. WedgedOnlyOverCapacity'
      <3>1. Len(asked') = Len(asked) + 1
        BY <1>1, <2>2 DEF TypeOK
      <3> QED BY <1>1, <2>2, <3>1, BoundsAssumption DEF LedgerInv, WedgedOnlyOverCapacity
    <2> QED BY <2>4, <2>6, <2>7, <2>8 DEF LedgerInv
  <1>3. ASSUME NEW kind \in {"abort", "clear"}, SendControl(kind)
        PROVE  LedgerInv' /\ [Ledger!LedgerNext]_Status
    <2> DEFINE c == [kind |-> kind, prompt |-> NoPrompt]
    <2>1. /\ inbox' = Append(inbox, c)
          /\ UNCHANGED <<reinject, queue, loop, turns, active, cleared, asked>>
      BY <1>3 DEF SendControl, ClientSends
    <2>2. c \in Command /\ c.prompt = NoPrompt /\ c.kind \notin {"submit", "queue"}
      BY DEF Command, NoPrompt
    <2> HIDE DEF c
    <2>3. Apart(inbox, reinject, queue, Waiting \ {c.prompt})
      BY <1>1, <2>2, WaitingType, MoreWaiting
    <2>4. Apart(inbox', reinject', queue', Waiting)
      BY <1>1, <2>1, <2>2, <2>3, EntersChannel
    <2>5. Waiting' = Waiting /\ OnlyTyped' /\ WedgedOnlyOverCapacity'
      BY <1>1, <2>1, SameWaiting DEF LedgerInv, WedgedOnlyOverCapacity
    <2>6. CarryPrompts'
      <3>1. \A i \in DOMAIN inbox' : inbox'[i] = c \/ (i \in DOMAIN inbox /\ inbox'[i] = inbox[i])
        BY <1>1, <2>1
      <3> QED BY <1>1, <2>1, <2>2, <3>1 DEF CarryPrompts
    <2>7. [Ledger!LedgerNext]_Status
      BY <2>1, SlotStep
    <2> QED BY <2>4, <2>5, <2>6, <2>7 DEF LedgerInv
  <1> QED BY <1>2, <1>3

(* Tasks, shutdown and everything else move no prompt.                      *)
LEMMA OtherLedger ==
  ASSUME TypeOK, LedgerInv, UNCHANGED <<inbox, reinject, queue, asked, cleared>>,
         DOMAIN turns' = DOMAIN turns,
         \A t \in DOMAIN turns : turns'[t].prompt = turns[t].prompt,
         active' = active, loop' = loop \/ loop' \in {"draining", "stopped"}
  PROVE  LedgerInv' /\ [Ledger!LedgerNext]_Status
  <1>1. Waiting' = Waiting /\ OnlyTyped'
    BY SameWaiting DEF LedgerInv
  <1>2. [Ledger!LedgerNext]_Status
    BY SlotStep
  <1> QED BY <1>1, <1>2 DEF LedgerInv, CarryPrompts, WedgedOnlyOverCapacity

(* No step of a task changes which prompts the turns have.                  *)
LEMMA TaskPrompts ==
  ASSUME TypeOK, NEW t \in DOMAIN turns, TaskStep(t)
  PROVE  /\ DOMAIN turns' = DOMAIN turns
         /\ \A u \in DOMAIN turns : turns'[u].prompt = turns[u].prompt
         /\ UNCHANGED <<inbox, reinject, queue, asked, cleared, active, loop>>
  <1>1. turns[t] \in Turn
    BY ElementOfSeq DEF TypeOK
  <1>2. \E r : r.prompt = turns[t].prompt /\ turns' = [turns EXCEPT ![t] = r]
    <2>1. CASE Poll(t) \/ Park(t)
      <3>1. PICK b \in BOOLEAN : turns' = [turns EXCEPT ![t] = [turns[t] EXCEPT !.polling = b]]
        BY <2>1 DEF Poll, Park
      <3> QED BY <1>1, <3>1 DEF Turn
    <2>2. CASE Drop(t) \/ Start(t) \/ Complete(t) \/ Store(t) \/ Report(t)
      <3>1. PICK ph \in Phases : turns' = [turns EXCEPT ![t] = [turns[t] EXCEPT !.phase = ph]]
        BY <2>2 DEF Drop, Start, Complete, Store, Report, Phases
      <3> QED BY <1>1, <3>1 DEF Turn
    <2>3. CASE Return(t) \/ Panic(t)
      <3>1. PICK ph \in Phases :
                turns' = [turns EXCEPT ![t] = [turns[t] EXCEPT !.phase = ph, !.polling = FALSE]]
        BY <2>3 DEF Return, Panic, Phases
      <3> QED BY <1>1, <3>1 DEF Turn
    <2> QED BY <2>1, <2>2, <2>3 DEF TaskStep, Advance
  <1>3. UNCHANGED <<inbox, reinject, queue, asked, cleared, active, loop>>
    BY DEF TaskStep, Advance, Poll, Park, Drop, Start, Complete, Store, Report, Return, Panic,
           TaskUnchanged
  <1> QED BY <1>2, <1>3

LEMMA StepLedger ==
  ASSUME TypeOK, LedgerInv, [Next]_vars
  PROVE  LedgerInv' /\ [Ledger!LedgerNext]_Status
  <1>1. CASE UNCHANGED vars
    BY <1>1, OtherLedger DEF vars
  <1>2. CASE RecvCommand \/ RecvReinjected \/ RecvDone
    BY <1>2, CommandLedger, DoneLedger
  <1>3. CASE ExitLoop
    <2>1. /\ loop' = "draining" /\ UNCHANGED <<inbox, reinject, queue, asked, cleared, active>>
          /\ turns' = [t \in DOMAIN turns |->
                         IF t \in registry THEN [turns[t] EXCEPT !.aborted = TRUE] ELSE turns[t]]
      BY <1>3 DEF ExitLoop
    <2>2. \A t \in DOMAIN turns : turns[t] \in Turn
      BY ElementOfSeq DEF TypeOK
    <2>3. \A t \in DOMAIN turns : turns'[t].prompt = turns[t].prompt
      BY <2>1, <2>2 DEF Turn
    <2> QED BY <2>1, <2>3, OtherLedger
  <1>4. CASE Drained \/ CloseInbox
    BY <1>4, OtherLedger DEF Drained, CloseInbox
  <1>5. CASE \E t \in DOMAIN turns : TaskStep(t)
    BY <1>5, TaskPrompts, OtherLedger
  <1>6. CASE \/ \E kind \in {"submit", "queue"} : TypePrompt(kind)
             \/ \E kind \in {"abort", "clear"} : SendControl(kind)
    BY <1>6, ClientLedger
  <1>7. CASE Quiescent
    BY <1>1, <1>7 DEF Quiescent
  <1> QED BY <1>1, <1>2, <1>3, <1>4, <1>5, <1>6, <1>7 DEF Next, LoopStep

LEMMA InitLedger == Init => LedgerInv /\ Ledger!LedgerInit
  <1> SUFFICES ASSUME Init PROVE LedgerInv /\ Ledger!LedgerInit
    OBVIOUS
  <1>1. /\ inbox = <<>> /\ reinject = <<>> /\ queue = <<>> /\ asked = <<>> /\ turns = <<>>
        /\ cleared = {} /\ loop = "select"
    BY DEF Init
  <1>2. Apart(inbox, reinject, queue, Waiting)
    BY <1>1, Emptied DEF Apart
  <1>3. OnlyTyped /\ CarryPrompts /\ WedgedOnlyOverCapacity
    BY <1>1, BoundsAssumption DEF OnlyTyped, CarryPrompts, WedgedOnlyOverCapacity
  <1>4. \A p \in Prompt : StatusOf(p) = "untyped"
    BY <1>1, BoundsAssumption DEF StatusOf, Prompt
  <1>5. Ledger!LedgerInit
    BY <1>4 DEF Ledger!LedgerInit
  <1> QED BY <1>2, <1>3, <1>5 DEF LedgerInv

LEMMA LedgerInvariant == Spec => []LedgerInv
  <1>1. Init => LedgerInv
    BY InitLedger
  <1>2. TypeOK /\ LedgerInv /\ [Next]_vars => LedgerInv'
    BY StepLedger
  <1> QED BY <1>1, <1>2, SessionTyped, PTL DEF Spec

(* However commands bounce between the channels, the queue and the slot,     *)
(* TuryaSession::run_loop and dispatch run a prompt at most once, end it     *)
(* after it ran, and clear it only while it waits.                           *)
THEOREM SessionImplementsLedger == Spec => ImplementsLedger
  <1>1. Init => Ledger!LedgerInit
    BY InitLedger
  <1>2. TypeOK /\ LedgerInv /\ [Next]_vars => [Ledger!LedgerNext]_[p \in Prompt |-> StatusOf(p)]
    BY StepLedger DEF Status
  <1> QED BY <1>1, <1>2, SessionTyped, LedgerInvariant, PTL DEF Spec, ImplementsLedger, Ledger!LedgerSpec

(* QueuePrompt and a free slot send to the channel that the loop itself      *)
(* reads; they block it only when more prompts were typed than fit there.    *)
THEOREM LoopBlocksOnlyOverCapacity == Spec => []WedgedOnlyOverCapacity
  <1>1. LedgerInv => WedgedOnlyOverCapacity
    BY DEF LedgerInv
  <1> QED BY <1>1, LedgerInvariant, PTL
=============================================================================

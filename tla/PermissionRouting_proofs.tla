---------------------- MODULE PermissionRouting_proofs ----------------------
(***************************************************************************)
(* Proofs about PermissionRouting, for any number of turns and concurrent  *)
(* calls: its types; that no call of a live turn waits on a router nobody  *)
(* serves; and, when no two calls share a request id, that no call runs on *)
(* a consent given to another one (when two do, TLC shows that broken) and *)
(* that an answer given while its call waits reaches it.                   *)
(***************************************************************************)
EXTENDS PermissionRouting, SequenceTheorems, TLAPS

DistinctIds == \A c, d \in Calls : Req[c] = Req[d] => c = d

(* The answers under way under an id were given to the call with that id.   *)
CommandsAreAnswers ==
    \A i \in DOMAIN cmds : \A c \in Calls :
        cmds[i].kind = "resolve" /\ cmds[i].id = Req[c] => cmds[i].decision \in answered[c]

BoxesHoldAnswers ==
    \A t \in Turns : \A i \in DOMAIN box[t] : \A c \in Calls :
        box[t][i].id = Req[c] => box[t][i].decision \in answered[c]

(* A router's map holds each waiter under that waiter's own id.             *)
WaitersUnderOwnId ==
    \A t \in Turns : \A i \in Ids : pending[t][i] # NoCall => Req[pending[t][i]] = i

(* What a call finds in its oneshot, and what the broker remembers for the  *)
(* session, was said by the user about that call and about that tool.       *)
SlotsHoldAnswers == \A c \in Calls : slot[c] \in Decisions => slot[c] \in answered[c]

GrantsAreAnswers ==
    \A tool \in allowed : \E d \in Calls : Tool[d] = tool /\ "AllowSession" \in answered[d]

ApprovedCallsConsented == \A c \in Calls : pc[c] = "forgetting" => Consented(c)

Consent ==
    /\ CommandsAreAnswers /\ BoxesHoldAnswers /\ WaitersUnderOwnId
    /\ SlotsHoldAnswers /\ GrantsAreAnswers /\ ApprovedCallsConsented
    /\ RunsOnlyWithConsent

IInv == TypeOK /\ Consent

-----------------------------------------------------------------------------
(* Types. *)

LEMMA TypeInit == Init => TypeOK
  <1> SUFFICES ASSUME Init PROVE TypeOK
    OBVIOUS
  <1>1. \A S : <<>> \in Seq(S)
    BY EmptySeq
  <1>2. box \in [Turns -> Seq(Message)] /\ shown \in Seq(Calls) /\ cmds \in Seq(Command)
    BY <1>1 DEF Init
  <1> QED BY <1>2, RoutingAssumption DEF Init, TypeOK, Turns, NoTurn, Positions

LEMMA TypeStep == TypeOK /\ [Next]_vars => TypeOK'
  <1> SUFFICES ASSUME TypeOK, [Next]_vars PROVE TypeOK'
    OBVIOUS
  <1> USE RoutingAssumption DEF TypeOK, Registered, Granted, Waiter
  <1>1. ASSUME NEW c \in Calls, CallStep(c) PROVE TypeOK'
    <2>0. TurnOf[c] \in Turns /\ Req[c] \in Ids /\ Tool[c] \in {Tool[d] : d \in Calls}
      BY DEF Ids
    <2> USE DEF CallUnchanged, Goto, broker, session, tasks, router, client, Positions
    <2>1. CASE CheckAllows(c)
      BY <2>1 DEF CheckAllows
    <2>2. CASE CheckAsks(c)
      BY <2>2 DEF CheckAsks
    <2>3. CASE Announce(c)
      BY <2>3 DEF Announce
    <2>4. CASE RegisterReads(c)
      <3>1. /\ pc' \in [Calls -> Positions]
            /\ slot' \in [Calls -> Decisions \cup {"none", "open", "dropped"}]
        <4>1. \/ slot' = [slot EXCEPT ![c] = "dropped"] /\ pc' = [pc EXCEPT ![c] = "waiting"]
              \/ slot' = slot /\ pc' = [pc EXCEPT ![c] = "inserting"]
          BY <2>4, Zenon DEF RegisterReads
        <4>2. /\ [slot EXCEPT ![c] = "dropped"] \in [Calls -> Decisions \cup {"none", "open", "dropped"}]
              /\ [pc EXCEPT ![c] = "waiting"] \in [Calls -> Positions]
              /\ [pc EXCEPT ![c] = "inserting"] \in [Calls -> Positions]
          OBVIOUS
        <4> HIDE DEF TypeOK, Positions
        <4> QED BY ZenonT(30), <4>1, <4>2 DEF TypeOK
      <3>2. UNCHANGED <<mode, allowed, modeChanges, turn, active, sender, state, polling,
                        box, disp, closed, pending, shown, modals, cmds, answered, waved>>
        BY <2>4 DEF RegisterReads
      <3> QED BY <3>1, <3>2
    <2>5. CASE RegisterInserts(c)
      <3>1. slot' \in [Calls -> Decisions \cup {"none", "open", "dropped"}]
        BY <2>5 DEF RegisterInserts
      <3>2. pending' \in [Turns -> [Ids -> Calls \cup {NoCall}]]
        BY <2>0, <2>5 DEF RegisterInserts
      <3>3. pc' \in [Calls -> Positions]
        BY <2>5 DEF RegisterInserts
      <3> QED BY <2>5, <3>1, <3>2, <3>3 DEF RegisterInserts
    <2>6. CASE WakeAnswered(c)
      BY <2>0, <2>6 DEF WakeAnswered
    <2>7. CASE WakeDropped(c)
      BY <2>7 DEF WakeDropped
    <2>8. CASE Forget(c)
      BY <2>0, <2>8 DEF Forget
    <2>9. CASE Execute(c)
      BY <2>9 DEF Execute
    <2> QED BY <1>1, <2>1, <2>2, <2>3, <2>4, <2>5, <2>6, <2>7, <2>8, <2>9 DEF CallStep
  <1>2. ASSUME NEW t \in Turns, DispStep(t) PROVE TypeOK'
    <2> USE DEF DispUnchanged, broker, session, tasks, client
    <2>1. CASE Deliver(t)
      <3>1. Head(box[t]) \in Message /\ Tail(box[t]) \in Seq(Message)
        BY <2>1, HeadTailProperties DEF Deliver
      <3> QED BY <2>1, <3>1 DEF Deliver, Message
    <2>2. CASE CloseRouter(t)
      BY <2>2 DEF CloseRouter
    <2>3. CASE ClearRouter(t)
      BY <2>3 DEF ClearRouter
    <2> QED BY <1>2, <2>1, <2>2, <2>3 DEF DispStep
  <1>3. ASSUME NEW t \in Turns, TaskStep(t) PROVE TypeOK'
    BY ZenonT(30), <1>3 DEF TaskStep, Poll, Park, DropTask, EndTurn, TaskUnchanged, broker, session,
                router, client
  <1>4. CASE SessionStep
    <2> USE DEF broker, session, tasks, router, client, NoTurn, Turns
    <2>1. CASE FreeSlot
      BY <2>1 DEF FreeSlot
    <2>2. ASSUME cmds # <<>>
          PROVE  Head(cmds) \in Command /\ Tail(cmds) \in Seq(Command)
      BY <2>2, HeadTailProperties
    <2>3. CASE HandleSubmit
      <3>1. TakeCommand("submit") /\ UNCHANGED box
        BY <2>3 DEF HandleSubmit
      <3>2. cmds' \in Seq(Command)
        BY <2>2, <3>1 DEF TakeCommand
      <3>3. turn' \in 0 .. NTurns /\ active' \in 0 .. turn' /\ sender' \in 0 .. turn'
        BY <2>3 DEF HandleSubmit
      <3>4. state' \in [Turns -> {"unborn", "live", "aborted", "dropped", "over"}]
        BY <2>3 DEF HandleSubmit, Killed
      <3> QED BY <3>1, <3>2, <3>3, <3>4 DEF TakeCommand
    <2>4. CASE HandleAbort
      <3>1. TakeCommand("abort") /\ UNCHANGED <<turn, box>>
        BY <2>4 DEF HandleAbort
      <3>2. cmds' \in Seq(Command)
        BY <2>2, <3>1 DEF TakeCommand
      <3>3. turn' \in 0 .. NTurns /\ active' \in 0 .. turn' /\ sender' \in 0 .. turn'
        BY <2>4, <3>1 DEF HandleAbort
      <3>4. state' \in [Turns -> {"unborn", "live", "aborted", "dropped", "over"}]
        BY <2>4 DEF HandleAbort, Killed
      <3> QED BY <3>1, <3>2, <3>3, <3>4 DEF TakeCommand
    <2>5. CASE HandleResolve
      <3>1. TakeCommand("resolve") /\ UNCHANGED <<session, state>>
        BY <2>5 DEF HandleResolve
      <3>2. Head(cmds) \in Command /\ Head(cmds).kind = "resolve" /\ cmds' \in Seq(Command)
        BY <2>2, <3>1 DEF TakeCommand
      <3>3. Head(cmds) \in [kind : {"resolve"}, id : Ids, decision : Decisions]
        BY <3>2 DEF Command
      <3>4. [id |-> Head(cmds).id, decision |-> Head(cmds).decision] \in Message
        BY <3>3 DEF Message
      <3>5. box' \in [Turns -> Seq(Message)]
        BY <2>5, <3>4 DEF HandleResolve
      <3> QED BY <3>1, <3>2, <3>5 DEF TakeCommand
    <2> QED BY <1>4, <2>1, <2>3, <2>4, <2>5 DEF SessionStep
  <1>5. ASSUME NEW m \in Modes, SetMode(m) PROVE TypeOK'
    BY <1>5 DEF SetMode, session, tasks, router, client
  <1>6. CASE ClientStep
    <2> USE DEF ClientUnchanged, Send, broker, session, tasks, router
    <2>1. CASE SubmitNext
      <3>1. [kind |-> "submit"] \in Command
        BY DEF Command
      <3> QED BY <2>1, <3>1 DEF SubmitNext
    <2>2. CASE PressEsc
      <3>1. [kind |-> "abort"] \in Command
        BY DEF Command
      <3> QED BY <2>2, <3>1 DEF PressEsc
    <2>3. CASE ShowRequest
      <3>1. Head(shown) \in Calls /\ Tail(shown) \in Seq(Calls)
        BY <2>3, HeadTailProperties DEF ShowRequest
      <3> QED BY <2>3, <3>1 DEF ShowRequest
    <2>4. CASE OtherKey
      BY <2>4 DEF OtherKey
    <2>5. ASSUME NEW c \in Calls, NEW d \in Decisions, Answer(c, d) PROVE TypeOK'
      <3>1. [kind |-> "resolve", id |-> Req[c], decision |-> d] \in Command
        BY DEF Command, Ids
      <3> QED BY <2>5, <3>1 DEF Answer
    <2> QED BY <1>6, <2>1, <2>2, <2>3, <2>4, <2>5 DEF ClientStep
  <1>7. CASE Quiescent \/ UNCHANGED vars
    BY <1>7 DEF Quiescent, vars, broker, session, tasks, router, client
  <1> QED BY <1>1, <1>2, <1>3, <1>4, <1>5, <1>6, <1>7 DEF Next

(* The routing state always has its types.                                  *)
THEOREM RoutingTyped == Spec => []TypeOK
  BY TypeInit, TypeStep, PTL DEF Spec

-----------------------------------------------------------------------------
(* Consent. *)

LEMMA ConsentInit == Init => Consent
  <1> SUFFICES ASSUME Init PROVE Consent
    OBVIOUS
  <1>1. cmds = <<>> /\ \A t \in Turns : box[t] = <<>>
    BY DEF Init
  <1>2. CommandsAreAnswers /\ BoxesHoldAnswers
    BY <1>1 DEF CommandsAreAnswers, BoxesHoldAnswers
  <1>3. \A c \in Calls : pc[c] = "idle" /\ slot[c] \notin Decisions
    BY RoutingAssumption DEF Init
  <1> QED BY <1>2, <1>3 DEF Init, Consent, WaitersUnderOwnId, SlotsHoldAnswers,
             GrantsAreAnswers, ApprovedCallsConsented, RunsOnlyWithConsent

(* A step of a call keeps the answers of every other call apart.            *)
LEMMA ConsentCall ==
  ASSUME TypeOK, Consent, NEW c \in Calls, CallStep(c) PROVE Consent'
  <1> USE RoutingAssumption DEF TypeOK, Consent, Registered, Granted, Waiter
  <1>0. /\ UNCHANGED <<cmds, answered, box>>
        /\ TurnOf[c] \in Turns /\ Req[c] \in Ids
    BY DEF CallStep, CheckAllows, CheckAsks, Announce, RegisterReads, RegisterInserts,
           WakeAnswered, WakeDropped, Forget, Execute, CallUnchanged, router, Ids
  <1>1. CommandsAreAnswers' /\ BoxesHoldAnswers'
    BY <1>0 DEF CommandsAreAnswers, BoxesHoldAnswers
  <1>2. WaitersUnderOwnId' /\ SlotsHoldAnswers'
    <2> USE DEF WaitersUnderOwnId, SlotsHoldAnswers
    <2>1. CASE RegisterInserts(c)
      <3>1. \A d \in Calls : slot'[d] \in Decisions => slot'[d] = slot[d]
        BY <2>1 DEF RegisterInserts
      <3>2. \A t \in Turns, i \in Ids :
                pending'[t][i] = pending[t][i] \/ (pending'[t][i] = c /\ i = Req[c])
        BY <1>0, <2>1 DEF RegisterInserts
      <3>3. WaitersUnderOwnId'
        <4> HIDE DEF TypeOK
        <4> SUFFICES ASSUME NEW t \in Turns, NEW i \in Ids, pending'[t][i] # NoCall
                     PROVE  Req[pending'[t][i]] = i
          OBVIOUS
        <4>1. pending[t][i] # NoCall => Req[pending[t][i]] = i
          OBVIOUS
        <4>2. pending'[t][i] = pending[t][i] \/ (pending'[t][i] = c /\ i = Req[c])
          BY <3>2
        <4> QED BY <4>1, <4>2
      <3>4. SlotsHoldAnswers'
        BY <1>0, <3>1
      <3> QED BY <3>3, <3>4
    <2>2. CASE Forget(c)
      <3>1. \A d \in Calls : slot'[d] \in Decisions => slot'[d] = slot[d]
        BY <2>2 DEF Forget
      <3>2. \A t \in Turns, i \in Ids : pending'[t][i] = pending[t][i] \/ pending'[t][i] = NoCall
        BY <1>0, <2>2 DEF Forget
      <3>3. WaitersUnderOwnId'
        BY <3>2
      <3>4. SlotsHoldAnswers'
        BY <1>0, <3>1
      <3> QED BY <3>3, <3>4
    <2>3. CASE ~RegisterInserts(c) /\ ~Forget(c)
      <3>1. pending' = pending /\ \A d \in Calls : slot'[d] \in Decisions => slot'[d] = slot[d]
        BY <2>3 DEF CallStep, CheckAllows, CheckAsks, Announce, RegisterReads, WakeAnswered,
           WakeDropped, Execute, router
      <3> QED BY <1>0, <3>1
    <2> QED BY <2>1, <2>2, <2>3
  <1>4. GrantsAreAnswers'
    <2>1. CASE WakeAnswered(c)
      BY <1>0, <2>1 DEF WakeAnswered, GrantsAreAnswers, SlotsHoldAnswers
    <2>2. CASE ~WakeAnswered(c)
      BY <1>0, <2>2 DEF CallStep, CheckAllows, CheckAsks, Announce, RegisterReads,
         RegisterInserts, WakeDropped, Forget, Execute, broker, GrantsAreAnswers
    <2> QED BY <2>1, <2>2
  <1>5. /\ ApprovedCallsConsented' /\ RunsOnlyWithConsent'
    <2> USE DEF Consented, ApprovedCallsConsented, RunsOnlyWithConsent, Goto
    <2>1. CASE CheckAllows(c)
      BY <1>0, <2>1 DEF CheckAllows, GrantsAreAnswers
    <2>2. CASE WakeAnswered(c)
      <3>1. slot[c] \in answered[c] /\ waved' = waved
        BY <2>2 DEF WakeAnswered, SlotsHoldAnswers
      <3>2. \A d \in Calls : pc'[d] = pc[d] \/ (d = c /\ pc'[d] = "refusing")
                             \/ (d = c /\ pc'[d] = "forgetting" /\ Allows(slot[c]))
        BY <2>2 DEF WakeAnswered
      <3> QED BY <1>0, <3>1, <3>2
    <2>3. CASE Forget(c)
      <3>1. waved' = waved
        BY <2>3 DEF Forget
      <3>2. \A d \in Calls : pc'[d] = pc[d] \/ (d = c /\ pc'[d] = "denied")
                             \/ (d = c /\ pc'[d] = "run" /\ pc[d] = "forgetting")
        BY <2>3 DEF Forget
      <3> QED BY <1>0, <3>1, <3>2
    <2>4. CASE CheckAsks(c) \/ Announce(c) \/ RegisterReads(c) \/ RegisterInserts(c)
      <3>1. /\ waved' = waved
            /\ \A d \in Calls : pc'[d] = pc[d] \/ pc'[d] \notin {"forgetting", "run", "done"}
        BY <2>4 DEF CheckAsks, Announce, RegisterReads, RegisterInserts
      <3> QED BY <1>0, <3>1
    <2>5. CASE WakeDropped(c) \/ Execute(c)
      <3>1. /\ waved' = waved
            /\ \A d \in Calls : \/ pc'[d] = pc[d] \/ pc'[d] = "refusing"
                                \/ pc[d] = "run" /\ pc'[d] = "done"
        BY <2>5 DEF WakeDropped, Execute
      <3> QED BY <1>0, <3>1
    <2> QED BY <2>1, <2>2, <2>3, <2>4, <2>5 DEF CallStep
  <1> QED BY <1>1, <1>2, <1>4, <1>5

(* A dispatcher hands an answer to the call it was given to: the map holds  *)
(* a waiter under its own id only.                                          *)
LEMMA ConsentDispatch ==
  ASSUME TypeOK, Consent, NEW t \in Turns, DispStep(t) PROVE Consent'
  <1> USE RoutingAssumption DEF TypeOK, Consent, Registered, Granted, Waiter
  <1>0. UNCHANGED <<cmds, answered, pc, allowed, waved>>
    BY DEF DispStep, Deliver, CloseRouter, ClearRouter, DispUnchanged, broker, client
  <1>1. CommandsAreAnswers' /\ GrantsAreAnswers' /\ ApprovedCallsConsented'
        /\ RunsOnlyWithConsent'
    BY <1>0 DEF CommandsAreAnswers, GrantsAreAnswers, ApprovedCallsConsented,
                RunsOnlyWithConsent, Consented
  <1>2. CASE Deliver(t)
    <2> DEFINE m == Head(box[t])
    <2>1. box[t] # <<>> /\ box[t] \in Seq(Message) /\ m = box[t][1] /\ 1 \in DOMAIN box[t]
      BY <1>2 DEF Deliver
    <2>2. m \in Message /\ m.id \in Ids
      <3>1. m \in Message
        BY <2>1, HeadTailProperties
      <3> QED BY <3>1 DEF Message
    <2>3. \A c \in Calls : m.id = Req[c] => m.decision \in answered[c]
      BY <2>1 DEF BoxesHoldAnswers
    <2>4. SlotsHoldAnswers'
      <3> SUFFICES ASSUME NEW c \in Calls, slot'[c] \in Decisions PROVE slot'[c] \in answered[c]
        BY <1>0 DEF SlotsHoldAnswers
      <3>1. CASE c = pending[t][m.id]
        <4>1. Req[c] = m.id
          BY <2>2, <3>1 DEF WaitersUnderOwnId
        <4> QED BY <1>2, <2>3, <3>1, <4>1 DEF Deliver
      <3>2. CASE c # pending[t][m.id]
        BY <1>2, <3>2 DEF Deliver, SlotsHoldAnswers
      <3> QED BY <3>1, <3>2
    <2>5. WaitersUnderOwnId'
      BY <1>2, <2>2 DEF Deliver, WaitersUnderOwnId
    <2>6. BoxesHoldAnswers'
      <3> SUFFICES ASSUME NEW u \in Turns, NEW i \in DOMAIN box'[u], NEW c \in Calls,
                          box'[u][i].id = Req[c]
                   PROVE  box'[u][i].decision \in answered[c]
        BY <1>0 DEF BoxesHoldAnswers
      <3>1. CASE u = t
        <4>1. box'[u] = Tail(box[t])
          BY <1>2, <3>1 DEF Deliver
        <4>2. i + 1 \in DOMAIN box[t] /\ box'[u][i] = box[t][i + 1]
          BY <2>1, <4>1, HeadTailProperties
        <4> QED BY <4>2 DEF BoxesHoldAnswers
      <3>2. CASE u # t
        BY <1>2, <3>2 DEF Deliver, BoxesHoldAnswers
      <3> QED BY <3>1, <3>2
    <2> QED BY <1>1, <2>4, <2>5, <2>6
  <1>3. CASE CloseRouter(t) \/ ClearRouter(t)
    <2>0. /\ box' = box
          /\ \A u \in Turns, i \in Ids : pending'[u][i] = pending[u][i] \/ pending'[u][i] = NoCall
          /\ \A c \in Calls : slot'[c] \in Decisions => slot'[c] = slot[c]
      <3>1. CASE CloseRouter(t)
        BY <3>1 DEF CloseRouter
      <3>2. CASE ClearRouter(t)
        BY <3>2 DEF ClearRouter
      <3> QED BY <1>3, <3>1, <3>2
    <2>1. BoxesHoldAnswers' /\ WaitersUnderOwnId' /\ SlotsHoldAnswers'
      BY <1>0, <2>0 DEF BoxesHoldAnswers, WaitersUnderOwnId, SlotsHoldAnswers
    <2> QED BY <1>1, <2>1
  <1> QED BY <1>2, <1>3 DEF DispStep

(* The other steps only move answers towards the turn they were given in,   *)
(* or add one, under the id of the call it was given to.                    *)
LEMMA ConsentMoves ==
  ASSUME DistinctIds, TypeOK, Consent,
         \/ \E t \in Turns : TaskStep(t)
         \/ SessionStep
         \/ \E m \in Modes : SetMode(m)
         \/ ClientStep
         \/ Quiescent
         \/ UNCHANGED vars
  PROVE  Consent'
  <1> USE RoutingAssumption DEF TypeOK, Consent
  <1>0. UNCHANGED <<pending, pc, slot, allowed, waved>>
    BY DEF TaskStep, Poll, Park, DropTask, EndTurn, TaskUnchanged, SessionStep, HandleSubmit,
           HandleAbort, HandleResolve, FreeSlot, TakeCommand, SetMode, ClientStep, SubmitNext,
           PressEsc, ShowRequest, OtherKey, Answer, ClientUnchanged, Quiescent, vars, broker,
           session, tasks, router, client
  <1>1. \A c \in Calls : answered[c] \subseteq answered'[c]
    <2>1. answered' = answered \/ \E c \in Calls, d \in Decisions : Answer(c, d)
      BY DEF TaskStep, Poll, Park, DropTask, EndTurn, TaskUnchanged, SessionStep, HandleSubmit,
           HandleAbort, HandleResolve, FreeSlot, TakeCommand, SetMode, ClientStep, SubmitNext,
           PressEsc, ShowRequest, OtherKey, Quiescent, vars, client
    <2>2. ASSUME NEW c \in Calls, NEW d \in Decisions, Answer(c, d)
          PROVE  \A e \in Calls : answered[e] \subseteq answered'[e]
      BY <2>2 DEF Answer
    <2> QED BY <2>1, <2>2
  <1>2. WaitersUnderOwnId' /\ SlotsHoldAnswers' /\ GrantsAreAnswers'
        /\ ApprovedCallsConsented' /\ RunsOnlyWithConsent'
    BY ZenonT(30), <1>0, <1>1 DEF WaitersUnderOwnId, SlotsHoldAnswers, GrantsAreAnswers,
       ApprovedCallsConsented, RunsOnlyWithConsent, Consented
  <1>3. BoxesHoldAnswers'
    <2>1. CASE HandleResolve
      <3> DEFINE m == [id |-> Head(cmds).id, decision |-> Head(cmds).decision]
      <3>1. /\ cmds # <<>> /\ Head(cmds).kind = "resolve" /\ answered' = answered
            /\ Head(cmds) = cmds[1] /\ 1 \in DOMAIN cmds
        BY <2>1, HeadTailProperties DEF HandleResolve, TakeCommand
      <3>2. \A c \in Calls : m.id = Req[c] => m.decision \in answered[c]
        BY <3>1 DEF CommandsAreAnswers
      <3>3. ASSUME NEW u \in Turns, NEW i \in DOMAIN box'[u]
            PROVE  box'[u][i] = m \/ (i \in DOMAIN box[u] /\ box'[u][i] = box[u][i])
        <4>1. box[u] \in Seq(Message) /\ i \in DOMAIN box'[u]
          BY <3>3
        <4>2. box'[u] = box[u] \/ box'[u] = Append(box[u], m)
          BY <2>1 DEF HandleResolve
        <4> HIDE DEF m, TypeOK
        <4>3. \A b \in Seq(Message) : \A j \in DOMAIN Append(b, m) :
                  Append(b, m)[j] = m \/ (j \in DOMAIN b /\ Append(b, m)[j] = b[j])
          OBVIOUS
        <4> QED BY <4>1, <4>2, <4>3
      <3>4. \A u \in Turns : \A i \in DOMAIN box'[u] : \A c \in Calls :
                box'[u][i].id = Req[c] => box'[u][i].decision \in answered[c]
        <4> HIDE DEF m, TypeOK
        <4> QED BY <3>2, <3>3 DEF BoxesHoldAnswers
      <3> QED BY <3>1, <3>4 DEF BoxesHoldAnswers
    <2>2. CASE ~HandleResolve
      <3>1. box' = box
        BY <2>2 DEF TaskStep, Poll, Park, DropTask, EndTurn, TaskUnchanged, SessionStep,
           HandleSubmit, HandleAbort, FreeSlot, SetMode, ClientStep, SubmitNext,
           PressEsc, ShowRequest, OtherKey, Answer, ClientUnchanged, Quiescent, vars, router
      <3> QED BY <1>1, <3>1 DEF BoxesHoldAnswers
    <2> QED BY <2>1, <2>2
  <1>4. CommandsAreAnswers'
    <2>1. ASSUME NEW c \in Calls, NEW d \in Decisions, Answer(c, d)
          PROVE  CommandsAreAnswers'
      <3> DEFINE m == [kind |-> "resolve", id |-> Req[c], decision |-> d]
      <3>1. cmds' = Append(cmds, m) /\ d \in answered'[c]
        BY <2>1 DEF Answer, Send
      <3>2. \A e \in Calls : m.id = Req[e] => m.decision \in answered'[e]
        BY <3>1 DEF DistinctIds
      <3>3. \A i \in DOMAIN cmds' : cmds'[i] = m \/ (i \in DOMAIN cmds /\ cmds'[i] = cmds[i])
        BY <3>1
      <3> QED BY <1>1, <3>2, <3>3 DEF CommandsAreAnswers
    <2>2. CASE SubmitNext \/ PressEsc
      <3>1. PICK m : m.kind # "resolve" /\ cmds' = Append(cmds, m)
        BY <2>2 DEF SubmitNext, PressEsc, Send
      <3>2. \A i \in DOMAIN cmds' : cmds'[i] = m \/ (i \in DOMAIN cmds /\ cmds'[i] = cmds[i])
        BY <3>1
      <3> QED BY <1>1, <3>1, <3>2 DEF CommandsAreAnswers
    <2>3. CASE cmds # <<>> /\ cmds' = Tail(cmds)
      <3>1. \A i \in DOMAIN cmds' : i + 1 \in DOMAIN cmds /\ cmds'[i] = cmds[i + 1]
        BY <2>3, HeadTailProperties
      <3> QED BY <1>1, <3>1 DEF CommandsAreAnswers
    <2>4. CASE UNCHANGED cmds
      BY <1>1, <2>4 DEF CommandsAreAnswers
    <2>5. \/ \E c \in Calls, d \in Decisions : Answer(c, d)
          \/ SubmitNext \/ PressEsc
          \/ cmds # <<>> /\ cmds' = Tail(cmds)
          \/ UNCHANGED cmds
      BY DEF TaskStep, Poll, Park, DropTask, EndTurn, TaskUnchanged, SessionStep, HandleSubmit,
           HandleAbort, HandleResolve, FreeSlot, TakeCommand, SetMode, ClientStep,
           ShowRequest, OtherKey, Quiescent, vars, client
    <2> QED BY <2>1, <2>2, <2>3, <2>4, <2>5
  <1> QED BY <1>2, <1>3, <1>4

LEMMA ConsentStep == DistinctIds /\ IInv /\ [Next]_vars => IInv'
  <1> SUFFICES ASSUME DistinctIds, IInv, [Next]_vars PROVE Consent'
    BY TypeStep DEF IInv
  <1> QED BY ConsentCall, ConsentDispatch, ConsentMoves DEF IInv, Next

(* When no two calls share a request id, a call runs only with a consent    *)
(* given to it, for any number of turns and of concurrent calls.            *)
THEOREM NoBorrowedConsent == ASSUME DistinctIds PROVE Spec => []RunsOnlyWithConsent
  <1>1. Init => IInv
    BY TypeInit, ConsentInit DEF IInv
  <1>2. IInv /\ [Next]_vars => IInv'
    BY ConsentStep
  <1>3. IInv => RunsOnlyWithConsent
    BY DEF IInv, Consent
  <1> QED BY <1>1, <1>2, <1>3, PTL DEF Spec

-----------------------------------------------------------------------------
(* The turn in the slot.                                                    *)

(* A live turn is the one in the slot, the session's answers go to it, and  *)
(* its dispatcher reads them.                                               *)
LiveTurnOwnsSlot ==
    \A t \in Turns : state[t] = "live" => active = t /\ sender = t /\ disp[t] = "recv"

(* Turns start in their order, each with a dispatcher that reads.           *)
TurnsStartInOrder ==
    \A t \in Turns : /\ state[t] = "unborn" <=> t > turn
                     /\ state[t] = "unborn" => disp[t] = "recv"

(* Only a turn that was started and has not ended is polled.                *)
PolledTurnsWork == \A t \in polling : state[t] \in {"live", "aborted"}

SlotInv == LiveTurnOwnsSlot /\ TurnsStartInOrder /\ PolledTurnsWork

(* What HandleSubmit leaves of the turns: the one in the slot is killed and *)
(* the next one lives.                                                      *)
LEMMA SubmitKeepsSlot == ASSUME TypeOK, SlotInv, HandleSubmit PROVE SlotInv'
  <1> USE DEF TypeOK, SlotInv
  <1>1. /\ turn \in Nat /\ turn < NTurns /\ turn + 1 \in Turns /\ active \in 0 .. turn
        /\ turn' = turn + 1 /\ active' = turn + 1 /\ sender' = turn + 1
        /\ UNCHANGED <<polling, disp>>
    BY RoutingAssumption DEF HandleSubmit, TakeCommand, Turns
  <1>2. /\ state'[turn + 1] = "live"
        /\ \A t \in Turns \ {turn + 1} :
               state'[t] = IF t = active /\ state[t] = "live" THEN "aborted" ELSE state[t]
    BY <1>1 DEF HandleSubmit, Killed
  <1>3. /\ state[turn + 1] = "unborn" /\ disp[turn + 1] = "recv"
        /\ \A t \in Turns : t \in Nat
    BY <1>1 DEF TurnsStartInOrder, Turns
  <1>4. LiveTurnOwnsSlot'
    BY <1>1, <1>2, <1>3 DEF LiveTurnOwnsSlot
  <1>5. TurnsStartInOrder'
    <2>1. /\ state'[turn + 1] # "unborn"
          /\ \A t \in Turns \ {turn + 1} : state'[t] = "unborn" <=> state[t] = "unborn"
      BY <1>2
    <2>2. \A t \in Turns \ {turn + 1} : t > turn + 1 <=> t > turn
      BY <1>1, <1>3
    <2> HIDE DEF TypeOK
    <2> QED BY <1>1, <2>1, <2>2 DEF TurnsStartInOrder
  <1>6. PolledTurnsWork'
    BY <1>1, <1>2, <1>3 DEF PolledTurnsWork
  <1> QED BY <1>4, <1>5, <1>6

LEMMA SlotStep == TypeOK /\ SlotInv /\ [Next]_vars => SlotInv'
  <1> SUFFICES ASSUME TypeOK, SlotInv, [Next]_vars PROVE SlotInv'
    OBVIOUS
  <1> USE DEF TypeOK, SlotInv, LiveTurnOwnsSlot, TurnsStartInOrder, PolledTurnsWork
  <1>1. CASE UNCHANGED <<state, active, sender, disp, polling, turn>>
    BY <1>1
  <1>2. ASSUME NEW t \in Turns, DispStep(t) PROVE SlotInv'
    <2>1. UNCHANGED <<state, active, sender, polling, turn>>
      BY <1>2 DEF DispStep, Deliver, CloseRouter, ClearRouter, DispUnchanged, session, tasks
    <2>2. CASE Deliver(t)
      BY <2>1, <2>2 DEF Deliver
    <2>3. CASE CloseRouter(t)
      BY <2>1, <2>3 DEF CloseRouter
    <2>4. CASE ClearRouter(t)
      BY <2>1, <2>4 DEF ClearRouter
    <2> QED BY <1>2, <2>2, <2>3, <2>4 DEF DispStep
  <1>3. ASSUME NEW t \in Turns, TaskStep(t) PROVE SlotInv'
    <2> USE DEF TaskUnchanged, session, router
    <2>1. CASE Poll(t)
      BY <2>1 DEF Poll
    <2>2. CASE Park(t)
      BY <2>2 DEF Park
    <2>3. CASE DropTask(t)
      BY <2>3 DEF DropTask
    <2>4. CASE EndTurn(t)
      BY <2>4 DEF EndTurn
    <2> QED BY <1>3, <2>1, <2>2, <2>3, <2>4 DEF TaskStep
  <1>4. CASE FreeSlot
    BY <1>4, RoutingAssumption DEF FreeSlot, tasks, router, NoTurn, Turns
  <1>5. CASE HandleAbort
    BY <1>5 DEF HandleAbort, TakeCommand, Killed
  <1>6. CASE HandleSubmit
    BY <1>6, SubmitKeepsSlot
  <1>7. CASE HandleResolve
    BY <1>1, <1>7 DEF HandleResolve, TakeCommand, session
  <1>8. ASSUME NEW c \in Calls, CallStep(c) PROVE SlotInv'
    BY <1>1, <1>8 DEF CallStep, CheckAllows, CheckAsks, Announce, RegisterReads, RegisterInserts,
       WakeAnswered, WakeDropped, Forget, Execute, CallUnchanged, session, tasks, router
  <1>9. CASE (\E m \in Modes : SetMode(m)) \/ ClientStep \/ Quiescent \/ UNCHANGED vars
    BY <1>1, <1>9 DEF SetMode, ClientStep, SubmitNext, PressEsc, ShowRequest, OtherKey, Answer,
       ClientUnchanged, Quiescent, vars, session, tasks, router
  <1> QED BY <1>2, <1>3, <1>4, <1>5, <1>6, <1>7, <1>8, <1>9 DEF Next, SessionStep

LEMMA SlotInvariant == Spec => []SlotInv
  <1>1. Init => SlotInv
    BY RoutingAssumption DEF Init, SlotInv, LiveTurnOwnsSlot, TurnsStartInOrder,
       PolledTurnsWork, Turns
  <1>2. TypeOK /\ SlotInv /\ [Next]_vars => SlotInv'
    BY SlotStep
  <1> QED BY <1>1, <1>2, RoutingTyped, PTL DEF Spec

(* However answers, kills and new prompts interleave, no call of a live turn *)
(* waits on a router whose dispatcher has gone: kill_active_turn drops the   *)
(* sender only together with the turn it belongs to.                         *)
THEOREM LiveTurnsHaveDispatchers == Spec => []LiveWaitersAreServed
  <1>1. TypeOK /\ SlotInv => LiveWaitersAreServed
    BY RoutingAssumption DEF SlotInv, LiveTurnOwnsSlot, LiveWaitersAreServed
  <1> QED BY <1>1, RoutingTyped, SlotInvariant, PTL

-----------------------------------------------------------------------------
(* Answers.  From here on request ids are distinct and the client answers a *)
(* request only when its caller waits.                                      *)

(* A router is emptied only when it was closed, and it holds the callers of *)
(* its turn.                                                                *)
ClearedWhenClosed == \A t \in Turns : disp[t] = "clearing" => closed[t]

WaitersInOwnTurn ==
    \A t \in Turns, i \in Ids : pending[t][i] # NoCall => TurnOf[pending[t][i]] = t

(* A caller loses its sender only to the end of its router.                 *)
DroppedWhenClosed == \A c \in Calls : slot[c] = "dropped" => closed[TurnOf[c]]

CallsOfStartedTurns == \A c \in Calls : state[TurnOf[c]] = "unborn" => pc[c] = "idle"

(* What the client shows was announced, and nothing is answered before its  *)
(* caller waits.                                                            *)
ShownAfterAsking ==
    /\ \A i \in DOMAIN shown : pc[shown[i]] \notin {"idle", "asking"}
    /\ \A c \in modals : pc[c] \notin {"idle", "asking"}

AnsweredWhenWaiting ==
    \A c \in Calls : pc[c] \in {"idle", "asking", "registering", "inserting"} => answered[c] = {}

(* A caller with an open oneshot is in the map of its router.               *)
OpenWaitersRegistered ==
    \A c \in Calls : pc[c] = "waiting" /\ slot[c] = "open" => pending[TurnOf[c]][Req[c]] = c

AnswerInv ==
    /\ ClearedWhenClosed /\ WaitersInOwnTurn /\ DroppedWhenClosed /\ CallsOfStartedTurns
    /\ ShownAfterAsking /\ AnsweredWhenWaiting /\ OpenWaitersRegistered
    /\ RefusalsAreDeliberate /\ NoAnswerLost

(* A call's step moves that call only, and touches its own place in its own *)
(* router only.                                                             *)
LEMMA CallEffect ==
  ASSUME DistinctIds, TypeOK, Consent, NEW c \in Calls, CallStep(c)
  PROVE  /\ UNCHANGED <<state, disp, closed, box, cmds, answered, modals>>
         /\ \A d \in Calls \ {c} : pc'[d] = pc[d] /\ slot'[d] = slot[d]
         /\ \A t \in Turns, i \in Ids :
                \/ pending'[t][i] = pending[t][i]
                \/ t = TurnOf[c] /\ i = Req[c] /\ pending'[t][i] \in {c, NoCall}
         /\ TurnOf[c] \in polling
         /\ shown' = shown \/ (shown' = Append(shown, c) /\ pc'[c] = "registering")
         /\ \/ slot'[c] = slot[c] /\ <<pc[c], pc'[c]>> \in
                   {<<"idle", "run">>, <<"idle", "asking">>, <<"asking", "registering">>,
                    <<"registering", "inserting">>, <<"waiting", "forgetting">>,
                    <<"forgetting", "run">>, <<"refusing", "denied">>, <<"run", "done">>}
            \/ /\ pc[c] = "waiting" /\ pc'[c] = "refusing" /\ slot'[c] = slot[c]
               /\ slot[c] \in {"Deny", "dropped"}
            \/ /\ pc[c] = "registering" /\ pc'[c] = "waiting"
               /\ slot'[c] = "dropped" /\ closed[TurnOf[c]]
            \/ /\ pc[c] = "inserting" /\ pc'[c] = "waiting"
               /\ slot'[c] = "open" /\ pending'[TurnOf[c]][Req[c]] = c
  <1> USE DEF CallUnchanged, Goto, Runs, TypeOK, broker, session, tasks, router, client
  <1>0. TurnOf[c] \in Turns /\ Req[c] \in Ids
    BY RoutingAssumption DEF Ids
  <1>1. \A d \in Calls \ {c} : pending[TurnOf[c]][Req[c]] # d
    <2>1. NoCall \notin Calls
      BY RoutingAssumption
    <2>2. ASSUME NEW d \in Calls, pending[TurnOf[c]][Req[c]] = d PROVE Req[d] = Req[c]
      BY ZenonT(30), <1>0, <2>1, <2>2 DEF Consent, WaitersUnderOwnId
    <2>3. ASSUME NEW d \in Calls, pending[TurnOf[c]][Req[c]] = d PROVE d = c
      BY <2>2, <2>3 DEF DistinctIds
    <2> QED BY <2>3
  <1>2. CASE CheckAllows(c)
    BY <1>2 DEF CheckAllows
  <1>3. CASE CheckAsks(c)
    BY <1>3 DEF CheckAsks
  <1>4. CASE Announce(c)
    BY <1>4 DEF Announce
  <1>5. CASE RegisterReads(c)
    BY <1>5 DEF RegisterReads
  <1>6. CASE RegisterInserts(c)
    BY <1>0, <1>1, <1>6 DEF RegisterInserts, Registered
  <1>7. CASE WakeAnswered(c)
    BY <1>7, RoutingAssumption DEF WakeAnswered, Allows
  <1>8. CASE WakeDropped(c)
    BY <1>8 DEF WakeDropped
  <1>9. CASE Forget(c)
    BY <1>0, <1>1, <1>9 DEF Forget
  <1>10. CASE Execute(c)
    BY <1>10 DEF Execute
  <1> QED BY <1>2, <1>3, <1>4, <1>5, <1>6, <1>7, <1>8, <1>9, <1>10 DEF CallStep

LEMMA AnswersCall ==
  ASSUME DistinctIds, IInv, SlotInv, AnswerInv, NEW c \in Calls, CallStep(c)
  PROVE  AnswerInv'
  <1>1. TypeOK /\ Consent /\ TurnOf[c] \in Turns /\ Req[c] \in Ids
        /\ \A d \in Calls : TurnOf[d] \in Turns /\ Req[d] \in Ids
    BY RoutingAssumption DEF IInv, Ids
  <1>2. /\ UNCHANGED <<state, disp, closed, box, cmds, answered, modals>>
        /\ \A d \in Calls \ {c} : pc'[d] = pc[d] /\ slot'[d] = slot[d]
    BY <1>1, CallEffect
  <1>3. \A t \in Turns, i \in Ids :
            \/ pending'[t][i] = pending[t][i]
            \/ t = TurnOf[c] /\ i = Req[c] /\ pending'[t][i] \in {c, NoCall}
    BY <1>1, CallEffect
  <1>4. \/ slot'[c] = slot[c] /\ <<pc[c], pc'[c]>> \in
                   {<<"idle", "run">>, <<"idle", "asking">>, <<"asking", "registering">>,
                    <<"registering", "inserting">>, <<"waiting", "forgetting">>,
                    <<"forgetting", "run">>, <<"refusing", "denied">>, <<"run", "done">>}
        \/ /\ pc[c] = "waiting" /\ pc'[c] = "refusing" /\ slot'[c] = slot[c]
           /\ slot[c] \in {"Deny", "dropped"}
        \/ /\ pc[c] = "registering" /\ pc'[c] = "waiting"
           /\ slot'[c] = "dropped" /\ closed[TurnOf[c]]
        \/ /\ pc[c] = "inserting" /\ pc'[c] = "waiting"
           /\ slot'[c] = "open" /\ pending'[TurnOf[c]][Req[c]] = c
    BY <1>1, CallEffect
  <1>5. ClearedWhenClosed'
    BY <1>2 DEF AnswerInv, ClearedWhenClosed
  <1>6. WaitersInOwnTurn'
    BY <1>1, <1>3 DEF AnswerInv, WaitersInOwnTurn
  <1>7. DroppedWhenClosed'
    BY <1>2, <1>4 DEF AnswerInv, DroppedWhenClosed
  <1>8. CallsOfStartedTurns'
    <2>1. state[TurnOf[c]] # "unborn"
      BY <1>1, CallEffect DEF SlotInv, PolledTurnsWork
    <2> QED BY <1>2, <2>1 DEF AnswerInv, CallsOfStartedTurns
  <1>9. ShownAfterAsking'
    <2>1. \A d \in Calls : pc[d] \notin {"idle", "asking"} => pc'[d] \notin {"idle", "asking"}
      BY <1>2, <1>4
    <2>2. shown \in Seq(Calls) /\ modals \subseteq Calls
      BY <1>1 DEF TypeOK
    <2>3. \A d \in modals' : pc'[d] \notin {"idle", "asking"}
      BY <1>2, <2>1, <2>2 DEF AnswerInv, ShownAfterAsking
    <2>4. shown' = shown \/ (shown' = Append(shown, c) /\ pc'[c] = "registering")
      BY <1>1, CallEffect
    <2>5. \A i \in DOMAIN shown' :
              \/ i \in DOMAIN shown /\ shown'[i] = shown[i] /\ shown[i] \in Calls
              \/ shown'[i] = c /\ pc'[c] = "registering"
      BY <2>2, <2>4
    <2> QED BY <2>1, <2>3, <2>5 DEF AnswerInv, ShownAfterAsking
  <1>10. AnsweredWhenWaiting'
    BY <1>2, <1>4 DEF AnswerInv, AnsweredWhenWaiting
  <1>11. OpenWaitersRegistered'
    <2> SUFFICES ASSUME NEW d \in Calls, pc'[d] = "waiting", slot'[d] = "open"
                 PROVE  pending'[TurnOf[d]][Req[d]] = d
      BY DEF OpenWaitersRegistered
    <2>1. CASE d = c
      BY <1>4, <2>1
    <2>2. CASE d # c
      BY <1>1, <1>2, <1>3, <2>2 DEF AnswerInv, OpenWaitersRegistered, DistinctIds
    <2> QED BY <2>1, <2>2
  <1>12. RefusalsAreDeliberate'
    BY <1>1, <1>2, <1>4 DEF AnswerInv, RefusalsAreDeliberate, DroppedWhenClosed, Consent,
       SlotsHoldAnswers, TypeOK
  <1>13. NoAnswerLost'
    <2> SUFFICES ASSUME NEW d \in Calls, pc'[d] = "waiting", slot'[d] = "open",
                        answered'[d] # {}, state'[TurnOf[d]] = "live"
                 PROVE  OnItsWay(d)'
      BY DEF NoAnswerLost
    <2>1. d # c
      BY <1>2, <1>4 DEF AnswerInv, AnsweredWhenWaiting
    <2>2. OnItsWay(d)
      BY <1>2, <2>1 DEF AnswerInv, NoAnswerLost
    <2> QED BY <1>2, <2>2 DEF OnItsWay
  <1> QED BY <1>5, <1>6, <1>7, <1>8, <1>9, <1>10, <1>11, <1>12, <1>13 DEF AnswerInv

(* A dispatcher takes an answer out of its channel only to give it to the    *)
(* call it was meant for, and drops a sender only when it has closed.        *)
LEMMA AnswersDispatch ==
  ASSUME DistinctIds, IInv, SlotInv, AnswerInv, NEW t \in Turns, DispStep(t)
  PROVE  AnswerInv'
  <1> USE DEF DispUnchanged, broker, session, tasks, client
  <1>1. TypeOK /\ Consent /\ \A d \in Calls : TurnOf[d] \in Turns /\ Req[d] \in Ids /\ d # NoCall
    BY RoutingAssumption DEF IInv, Ids
  <1>2. UNCHANGED <<pc, answered, state, cmds, shown, modals>>
    BY DEF DispStep, Deliver, CloseRouter, ClearRouter
  <1>3. CallsOfStartedTurns' /\ ShownAfterAsking' /\ AnsweredWhenWaiting'
    BY <1>2 DEF AnswerInv, CallsOfStartedTurns, ShownAfterAsking, AnsweredWhenWaiting
  <1>4. CASE Deliver(t)
    <2> DEFINE m == Head(box[t])
    <2>1. /\ box[t] \in Seq(Message) /\ box[t] # <<>> /\ m \in Message
          /\ m.id \in Ids /\ m.decision \in Decisions
      <3>1. box[t] \in Seq(Message) /\ box[t] # <<>>
        BY <1>1, <1>4 DEF Deliver, TypeOK
      <3>2. m \in Message
        BY <3>1, HeadTailProperties
      <3> QED BY <3>1, <3>2 DEF Message
    <2>2. /\ UNCHANGED <<closed, disp>> /\ box' = [box EXCEPT ![t] = Tail(@)]
          /\ pending' = [pending EXCEPT ![t][m.id] = NoCall]
          /\ slot' = [c \in Calls |-> IF c = pending[t][m.id] THEN m.decision ELSE slot[c]]
      BY <1>4 DEF Deliver, Waiter
    <2>3. \A i \in DOMAIN box[t] :
              \/ i = 1 /\ box[t][i] = m
              \/ i - 1 \in DOMAIN Tail(box[t]) /\ Tail(box[t])[i - 1] = box[t][i]
      BY <2>1
    <2> HIDE DEF m
    <2>4. ClearedWhenClosed' /\ RefusalsAreDeliberate'
      BY <1>2, <2>2 DEF AnswerInv, ClearedWhenClosed, RefusalsAreDeliberate
    <2>5. WaitersInOwnTurn'
      BY <1>1, <2>1, <2>2 DEF AnswerInv, WaitersInOwnTurn, TypeOK
    <2>6. DroppedWhenClosed'
      <3>1. m.decision # "dropped"
        BY <2>1, RoutingAssumption
      <3> QED BY <2>2, <3>1 DEF AnswerInv, DroppedWhenClosed
    <2>7. ASSUME NEW c \in Calls, pc[c] = "waiting", slot'[c] = "open"
          PROVE  /\ slot[c] = "open" /\ ~(TurnOf[c] = t /\ Req[c] = m.id)
                 /\ pending'[TurnOf[c]][Req[c]] = c
      <3>1. m.decision # "open"
        BY <2>1, RoutingAssumption
      <3>2. slot[c] = "open" /\ c # pending[t][m.id]
        BY <2>2, <2>7, <3>1
      <3>3. pending[TurnOf[c]][Req[c]] = c
        BY <2>7, <3>2 DEF AnswerInv, OpenWaitersRegistered
      <3> QED BY <1>1, <2>1, <2>2, <3>2, <3>3 DEF TypeOK
    <2>8. OpenWaitersRegistered'
      BY <1>2, <2>7 DEF OpenWaitersRegistered
    <2>9. NoAnswerLost'
      <3> SUFFICES ASSUME NEW c \in Calls, pc[c] = "waiting", slot'[c] = "open",
                          answered[c] # {}, state[TurnOf[c]] = "live"
                   PROVE  OnItsWay(c)'
        BY <1>2 DEF NoAnswerLost
      <3>1. OnItsWay(c)
        BY <2>7 DEF AnswerInv, NoAnswerLost
      <3>2. CASE \E i \in DOMAIN cmds : cmds[i].kind = "resolve" /\ cmds[i].id = Req[c]
        BY <1>2, <3>2 DEF OnItsWay
      <3>3. ASSUME NEW i \in DOMAIN box[TurnOf[c]], box[TurnOf[c]][i].id = Req[c]
            PROVE  \E j \in DOMAIN box'[TurnOf[c]] : box'[TurnOf[c]][j].id = Req[c]
        <4>1. CASE TurnOf[c] = t
          <5>1. i # 1 \/ box[t][i] # m
            BY <2>7, <3>3, <4>1
          <5>2. box'[t] = Tail(box[t])
            BY <1>1, <2>2 DEF TypeOK
          <5> QED BY <2>3, <3>3, <4>1, <5>1, <5>2
        <4>2. CASE TurnOf[c] # t
          BY <1>1, <2>2, <3>3, <4>2 DEF TypeOK
        <4> QED BY <4>1, <4>2
      <3> QED BY <3>1, <3>2, <3>3 DEF OnItsWay
    <2> QED BY <1>3, <2>4, <2>5, <2>6, <2>8, <2>9 DEF AnswerInv
  <1>5. CASE CloseRouter(t)
    <2>1. /\ UNCHANGED <<box, pending, slot>>
          /\ closed' = [closed EXCEPT ![t] = TRUE] /\ disp' = [disp EXCEPT ![t] = "clearing"]
      BY <1>5 DEF CloseRouter
    <2>2. \A u \in Turns : closed[u] => closed'[u]
      BY <1>1, <2>1 DEF TypeOK
    <2>3. ClearedWhenClosed'
      BY <1>1, <2>1 DEF AnswerInv, ClearedWhenClosed, TypeOK
    <2>4. /\ WaitersInOwnTurn' /\ DroppedWhenClosed' /\ OpenWaitersRegistered'
          /\ RefusalsAreDeliberate'
      BY <1>1, <1>2, <2>1, <2>2 DEF AnswerInv, WaitersInOwnTurn, DroppedWhenClosed,
         OpenWaitersRegistered, RefusalsAreDeliberate
    <2>5. NoAnswerLost'
      BY <1>2, <2>1 DEF AnswerInv, NoAnswerLost, OnItsWay
    <2> QED BY <1>3, <2>3, <2>4, <2>5 DEF AnswerInv
  <1>6. CASE ClearRouter(t)
    <2>1. /\ UNCHANGED <<box, closed>> /\ disp' = [disp EXCEPT ![t] = "ended"]
          /\ pending' = [pending EXCEPT ![t] = [i \in Ids |-> NoCall]]
          /\ slot' = [c \in Calls |->
                        IF \E i \in Ids : pending[t][i] = c THEN "dropped" ELSE slot[c]]
      BY <1>6 DEF ClearRouter
    <2>2. closed[t]
      BY <1>6 DEF ClearRouter, AnswerInv, ClearedWhenClosed
    <2>3. ClearedWhenClosed' /\ RefusalsAreDeliberate'
      BY <1>1, <1>2, <2>1 DEF AnswerInv, ClearedWhenClosed, RefusalsAreDeliberate, TypeOK
    <2>4. WaitersInOwnTurn'
      BY <1>1, <2>1 DEF AnswerInv, WaitersInOwnTurn, TypeOK
    <2>5. DroppedWhenClosed'
      BY <1>1, <2>1, <2>2 DEF AnswerInv, DroppedWhenClosed, WaitersInOwnTurn
    <2>6. ASSUME NEW c \in Calls, pc[c] = "waiting", slot'[c] = "open"
          PROVE  slot[c] = "open" /\ pending'[TurnOf[c]][Req[c]] = c
      <3>1. slot[c] = "open" /\ \A i \in Ids : pending[t][i] # c
        BY <2>1, <2>6
      <3>2. pending[TurnOf[c]][Req[c]] = c
        BY <2>6, <3>1 DEF AnswerInv, OpenWaitersRegistered
      <3> QED BY <1>1, <2>1, <3>1, <3>2 DEF TypeOK
    <2>7. OpenWaitersRegistered'
      BY <1>2, <2>6 DEF OpenWaitersRegistered
    <2>8. NoAnswerLost'
      BY <1>2, <2>1, <2>6 DEF AnswerInv, NoAnswerLost, OnItsWay
    <2> QED BY <1>3, <2>3, <2>4, <2>5, <2>7, <2>8 DEF AnswerInv
  <1> QED BY <1>4, <1>5, <1>6 DEF DispStep

(* What Append and Tail leave of the other elements.                        *)
LEMMA AppendKeeps ==
  ASSUME NEW S, NEW s \in Seq(S), NEW e \in S
  PROVE  \A i \in DOMAIN s : i \in DOMAIN Append(s, e) /\ Append(s, e)[i] = s[i]
  OBVIOUS

LEMMA TailKeeps ==
  ASSUME NEW S, NEW s \in Seq(S), s # <<>>
  PROVE  \A i \in DOMAIN s : \/ i = 1 /\ s[i] = Head(s)
                             \/ i - 1 \in DOMAIN Tail(s) /\ Tail(s)[i - 1] = s[i]
  OBVIOUS

(* Kills, new prompts and ends of turns answer nothing and lose no answer:   *)
(* the loop takes a command off its channel that is none.                    *)
LEMMA AnswersTurns ==
  ASSUME IInv, SlotInv, AnswerInv,
         \/ \E t \in Turns : TaskStep(t)
         \/ HandleSubmit \/ HandleAbort \/ FreeSlot
         \/ \E m \in Modes : SetMode(m)
         \/ Quiescent
         \/ UNCHANGED vars
  PROVE  AnswerInv'
  <1> USE DEF broker, session, tasks, router, client
  <1>1. TypeOK /\ \A c \in Calls : TurnOf[c] \in Turns
    BY RoutingAssumption DEF IInv
  <1>2. UNCHANGED <<pc, slot, closed, pending, answered, box, shown, modals>>
    BY DEF TaskStep, Poll, Park, DropTask, EndTurn, TaskUnchanged, HandleSubmit, HandleAbort,
       TakeCommand, FreeSlot, SetMode, Quiescent, vars
  <1>3. \/ cmds' = cmds
        \/ cmds # <<>> /\ Head(cmds).kind # "resolve" /\ cmds' = Tail(cmds)
    BY DEF TaskStep, Poll, Park, DropTask, EndTurn, TaskUnchanged, HandleSubmit, HandleAbort,
       TakeCommand, FreeSlot, SetMode, Quiescent, vars
  <1>4. \A t \in Turns : disp'[t] = disp[t] \/ disp'[t] = "ended"
    <2>1. disp' = disp \/ \E t \in Turns : disp' = [disp EXCEPT ![t] = "ended"]
      BY DEF TaskStep, Poll, Park, DropTask, EndTurn, TaskUnchanged, HandleSubmit, HandleAbort,
         TakeCommand, FreeSlot, SetMode, Quiescent, vars
    <2> QED BY <1>1, <2>1 DEF TypeOK
  <1>5. \A t \in Turns : /\ state'[t] = "unborn" => state[t] = "unborn"
                         /\ state'[t] = "live" => state[t] \in {"live", "unborn"}
    <2>1. CASE HandleSubmit
      <3>1. turn \in 0 .. NTurns /\ turn < NTurns /\ NTurns \in Nat
        BY <1>1, <2>1, RoutingAssumption DEF HandleSubmit, TypeOK
      <3>2. turn + 1 \in Turns /\ turn + 1 > turn
        BY <3>1 DEF Turns
      <3>3. state[turn + 1] = "unborn"
        BY <3>2 DEF SlotInv, TurnsStartInOrder
      <3>4. state' = [Killed EXCEPT ![turn + 1] = "live"]
        BY <2>1 DEF HandleSubmit
      <3> QED BY <3>3, <3>4 DEF Killed
    <2>2. CASE HandleAbort
      BY <1>1, <2>2 DEF HandleAbort, Killed
    <2>3. ASSUME NEW t \in Turns, TaskStep(t)
          PROVE  \A u \in Turns : state'[u] = state[u] \/ state'[u] \in {"dropped", "over"}
      BY <1>1, <2>3 DEF TaskStep, Poll, Park, DropTask, EndTurn, TypeOK
    <2>4. CASE FreeSlot \/ (\E m \in Modes : SetMode(m)) \/ Quiescent \/ UNCHANGED vars
      BY <2>4 DEF FreeSlot, SetMode, Quiescent, vars
    <2> QED BY <2>1, <2>2, <2>3, <2>4
  <1>6. /\ ClearedWhenClosed' /\ WaitersInOwnTurn' /\ DroppedWhenClosed' /\ CallsOfStartedTurns'
        /\ ShownAfterAsking' /\ AnsweredWhenWaiting' /\ OpenWaitersRegistered'
        /\ RefusalsAreDeliberate'
    BY <1>1, <1>2, <1>4, <1>5 DEF AnswerInv, ClearedWhenClosed, WaitersInOwnTurn,
       DroppedWhenClosed, CallsOfStartedTurns, ShownAfterAsking, AnsweredWhenWaiting,
       OpenWaitersRegistered, RefusalsAreDeliberate
  <1>7. NoAnswerLost'
    <2> SUFFICES ASSUME NEW c \in Calls, pc[c] = "waiting", slot[c] = "open",
                        answered[c] # {}, state'[TurnOf[c]] = "live"
                 PROVE  OnItsWay(c)'
      BY <1>2 DEF NoAnswerLost
    <2>1. state[TurnOf[c]] = "live"
      BY <1>1, <1>5 DEF AnswerInv, CallsOfStartedTurns
    <2>2. OnItsWay(c)
      BY <2>1 DEF AnswerInv, NoAnswerLost
    <2>3. ASSUME NEW i \in DOMAIN cmds, cmds[i].kind = "resolve"
          PROVE  \E j \in DOMAIN cmds' : cmds'[j] = cmds[i]
      <3>1. CASE cmds' = cmds
        BY <3>1
      <3>2. CASE cmds # <<>> /\ Head(cmds).kind # "resolve" /\ cmds' = Tail(cmds)
        <4>1. cmds \in Seq(Command)
          BY <1>1 DEF TypeOK
        <4>2. i # 1 /\ i - 1 \in DOMAIN Tail(cmds) /\ Tail(cmds)[i - 1] = cmds[i]
          BY <2>3, <3>2, <4>1
        <4> QED BY <3>2, <4>2
      <3> QED BY <1>3, <3>1, <3>2
    <2> QED BY <1>2, <2>2, <2>3 DEF OnItsWay
  <1> QED BY <1>6, <1>7 DEF AnswerInv

(* An answer for a call of the live turn goes to that turn's dispatcher,     *)
(* which still reads.                                                        *)
LEMMA AnswersResolve ==
  ASSUME IInv, SlotInv, AnswerInv, HandleResolve
  PROVE  AnswerInv'
  <1> DEFINE m == [id |-> Head(cmds).id, decision |-> Head(cmds).decision]
  <1>1. TypeOK /\ \A c \in Calls : TurnOf[c] \in Turns
    BY RoutingAssumption DEF IInv
  <1>2. /\ UNCHANGED <<pc, slot, closed, pending, answered, shown, modals, state, disp, sender>>
        /\ cmds # <<>> /\ cmds' = Tail(cmds) /\ cmds \in Seq(Command)
    BY <1>1 DEF HandleResolve, TakeCommand, session, broker, TypeOK
  <1>3. \A i \in DOMAIN cmds : \/ i = 1 /\ cmds[i].id = m.id
                               \/ i - 1 \in DOMAIN cmds' /\ cmds'[i - 1] = cmds[i]
    BY <1>2, TailKeeps
  <1>4. \A t \in Turns : box'[t] = box[t] \/ box'[t] = Append(box[t], m)
    BY <1>1 DEF HandleResolve, TypeOK
  <1>5. sender \in Turns /\ disp[sender] # "ended" => box'[sender] = Append(box[sender], m)
    BY <1>1, RoutingAssumption DEF HandleResolve, TypeOK, NoTurn, Turns
  <1> HIDE DEF m
  <1>6. /\ ClearedWhenClosed' /\ WaitersInOwnTurn' /\ DroppedWhenClosed' /\ CallsOfStartedTurns'
        /\ ShownAfterAsking' /\ AnsweredWhenWaiting' /\ OpenWaitersRegistered'
        /\ RefusalsAreDeliberate'
    BY <1>2 DEF AnswerInv, ClearedWhenClosed, WaitersInOwnTurn,
       DroppedWhenClosed, CallsOfStartedTurns, ShownAfterAsking, AnsweredWhenWaiting,
       OpenWaitersRegistered, RefusalsAreDeliberate
  <1>7. NoAnswerLost'
    <2> SUFFICES ASSUME NEW c \in Calls, pc[c] = "waiting", slot[c] = "open",
                        answered[c] # {}, state[TurnOf[c]] = "live"
                 PROVE  OnItsWay(c)'
      BY <1>2 DEF NoAnswerLost
    <2>1. OnItsWay(c) /\ sender = TurnOf[c] /\ disp[sender] = "recv" /\ sender \in Turns
      BY <1>1 DEF AnswerInv, NoAnswerLost, SlotInv, LiveTurnOwnsSlot
    <2>2. box[sender] \in Seq(Message) /\ box'[sender] = Append(box[sender], m)
      BY <1>1, <1>5, <2>1 DEF TypeOK
    <2>3. ASSUME NEW i \in DOMAIN box[sender]
          PROVE  i \in DOMAIN box'[sender] /\ box'[sender][i] = box[sender][i]
      BY <2>2
    <2>4. Len(box[sender]) + 1 \in DOMAIN box'[sender]
          /\ box'[sender][Len(box[sender]) + 1] = m
      BY <2>2
    <2>5. ASSUME NEW i \in DOMAIN cmds, cmds[i].kind = "resolve", cmds[i].id = Req[c]
          PROVE  OnItsWay(c)'
      <3>1. CASE cmds[i].id = m.id
        BY <2>1, <2>4, <2>5, <3>1 DEF OnItsWay
      <3>2. CASE i - 1 \in DOMAIN cmds' /\ cmds'[i - 1] = cmds[i]
        BY <2>5, <3>2 DEF OnItsWay
      <3> QED BY <1>3, <3>1, <3>2
    <2>6. ASSUME NEW i \in DOMAIN box[sender], box[sender][i].id = Req[c]
          PROVE  OnItsWay(c)'
      BY <2>1, <2>3, <2>6 DEF OnItsWay
    <2> QED BY <2>1, <2>5, <2>6 DEF OnItsWay
  <1> QED BY <1>6, <1>7 DEF AnswerInv

(* The client answers what waits, and its answer is under way at once.       *)
LEMMA AnswersClient ==
  ASSUME ~Hasty, IInv, SlotInv, AnswerInv, ClientStep
  PROVE  AnswerInv'
  <1>1. TypeOK /\ \A c \in Calls : TurnOf[c] \in Turns
    BY RoutingAssumption DEF IInv
  <1>2. UNCHANGED <<state, disp, closed, pending, pc, slot, box>>
    BY DEF ClientStep, SubmitNext, PressEsc, ShowRequest, OtherKey, Answer, ClientUnchanged,
       tasks, router
  <1>3. cmds' = cmds \/ \E m \in Command : cmds' = Append(cmds, m)
    <2>1. [kind |-> "submit"] \in Command /\ [kind |-> "abort"] \in Command
      BY DEF Command
    <2>2. \A c \in Calls, d \in Decisions :
              [kind |-> "resolve", id |-> Req[c], decision |-> d] \in Command
      BY DEF Command, Ids
    <2> QED BY <2>1, <2>2 DEF ClientStep, SubmitNext, PressEsc, ShowRequest, OtherKey, Answer, Send
  <1>4. \A i \in DOMAIN cmds : i \in DOMAIN cmds' /\ cmds'[i] = cmds[i]
    <2>1. cmds \in Seq(Command)
      BY <1>1 DEF TypeOK
    <2> QED BY <1>3, <2>1, AppendKeeps
  <1>5. \/ answered' = answered
        \/ \E c \in Calls, d \in Decisions : Answer(c, d)
    BY DEF ClientStep, SubmitNext, PressEsc, ShowRequest, OtherKey
  <1>6. ASSUME NEW c \in Calls, answered'[c] # answered[c]
        PROVE  /\ pc[c] \notin {"idle", "asking", "registering", "inserting"}
               /\ OnItsWay(c)'
    <2>1. PICK e \in Calls, d \in Decisions : Answer(e, d)
      BY <1>5, <1>6
    <2>2. e = c
      BY <1>1, <1>6, <2>1 DEF Answer, TypeOK
    <2>3. pc[c] \notin {"registering", "inserting"} /\ c \in modals
      BY <2>1, <2>2 DEF Answer
    <2>4. cmds' = Append(cmds, [kind |-> "resolve", id |-> Req[c], decision |-> d])
      BY <2>1, <2>2 DEF Answer, Send
    <2>5. Len(cmds) + 1 \in DOMAIN cmds' /\ cmds'[Len(cmds) + 1].kind = "resolve"
          /\ cmds'[Len(cmds) + 1].id = Req[c]
      BY <1>1, <2>4 DEF TypeOK
    <2> QED BY <2>3, <2>5 DEF AnswerInv, ShownAfterAsking, OnItsWay
  <1>7. \A c \in Calls : answered[c] \subseteq answered'[c]
    <2>1. ASSUME NEW c \in Calls, NEW d \in Decisions, Answer(c, d)
          PROVE  \A e \in Calls : answered[e] \subseteq answered'[e]
      BY <1>1, <2>1 DEF Answer, TypeOK
    <2> QED BY <1>5, <2>1
  <1>8. /\ ClearedWhenClosed' /\ WaitersInOwnTurn' /\ DroppedWhenClosed' /\ CallsOfStartedTurns'
        /\ OpenWaitersRegistered' /\ RefusalsAreDeliberate' /\ AnsweredWhenWaiting'
    BY <1>2, <1>6, <1>7 DEF AnswerInv, ClearedWhenClosed, WaitersInOwnTurn,
       DroppedWhenClosed, CallsOfStartedTurns, AnsweredWhenWaiting,
       OpenWaitersRegistered, RefusalsAreDeliberate
  <1>9. ShownAfterAsking'
    <2>1. shown \in Seq(Calls) /\ modals \subseteq Calls
      BY <1>1 DEF TypeOK
    <2>2. CASE ShowRequest
      <3>1. shown # <<>> /\ shown' = Tail(shown) /\ modals' \subseteq modals \cup {Head(shown)}
        BY <2>2 DEF ShowRequest
      <3>2. Head(shown) = shown[1] /\ 1 \in DOMAIN shown
            /\ \A i \in DOMAIN Tail(shown) : i + 1 \in DOMAIN shown
                                              /\ Tail(shown)[i] = shown[i + 1]
        BY <2>1, <3>1
      <3> QED BY <1>2, <3>1, <3>2 DEF AnswerInv, ShownAfterAsking
    <2>3. CASE ~ShowRequest
      <3>1. shown' = shown /\ modals' \subseteq modals
        BY <2>3 DEF ClientStep, SubmitNext, PressEsc, OtherKey, Answer
      <3> QED BY <1>2, <3>1 DEF AnswerInv, ShownAfterAsking
    <2> QED BY <2>2, <2>3
  <1>10. NoAnswerLost'
    <2> SUFFICES ASSUME NEW c \in Calls, pc[c] = "waiting", slot[c] = "open",
                        answered'[c] # {}, state[TurnOf[c]] = "live"
                 PROVE  OnItsWay(c)'
      BY <1>2 DEF NoAnswerLost
    <2>1. CASE answered'[c] = answered[c]
      <3>1. OnItsWay(c)
        BY <2>1 DEF AnswerInv, NoAnswerLost
      <3> QED BY <1>2, <1>4, <3>1 DEF OnItsWay
    <2> QED BY <1>6, <2>1
  <1> QED BY <1>8, <1>9, <1>10 DEF AnswerInv

LEMMA AnswerStep ==
  DistinctIds /\ ~Hasty /\ IInv /\ SlotInv /\ AnswerInv /\ [Next]_vars => AnswerInv'
  <1> SUFFICES ASSUME DistinctIds, ~Hasty, IInv, SlotInv, AnswerInv, [Next]_vars
               PROVE  AnswerInv'
    OBVIOUS
  <1>1. CASE (\E c \in Calls : CallStep(c)) \/ (\E t \in Turns : DispStep(t))
    BY <1>1, AnswersCall, AnswersDispatch
  <1>2. CASE HandleResolve \/ ClientStep
    BY <1>2, AnswersResolve, AnswersClient
  <1>3. CASE \/ \E t \in Turns : TaskStep(t)
             \/ HandleSubmit \/ HandleAbort \/ FreeSlot
             \/ \E m \in Modes : SetMode(m)
             \/ Quiescent
             \/ UNCHANGED vars
    BY <1>3, AnswersTurns
  <1> QED BY <1>1, <1>2, <1>3 DEF Next, SessionStep

LEMMA AnswerInit == Init => AnswerInv
  <1> SUFFICES ASSUME Init PROVE AnswerInv
    OBVIOUS
  <1>1. \A c \in Calls : TurnOf[c] \in Turns /\ pc[c] = "idle" /\ slot[c] = "none"
                         /\ answered[c] = {}
    BY RoutingAssumption DEF Init
  <1>2. shown = <<>> /\ modals = {}
    BY DEF Init
  <1>3. \A t \in Turns : disp[t] = "recv" /\ \A i \in Ids : pending[t][i] = NoCall
    BY DEF Init
  <1> QED BY <1>1, <1>2, <1>3 DEF AnswerInv, ClearedWhenClosed, WaitersInOwnTurn,
       DroppedWhenClosed, CallsOfStartedTurns, ShownAfterAsking, AnsweredWhenWaiting,
       OpenWaitersRegistered, RefusalsAreDeliberate, NoAnswerLost

(* When request ids are distinct and nothing is answered before its caller   *)
(* waits, a call is refused only by the user or by the end of its answer     *)
(* route, and an answer to a call of the live turn is on its way until that  *)
(* call has it: for any number of calls, turns, kills and answers.           *)
THEOREM EveryAnswerIsHeeded == ASSUME DistinctIds, ~Hasty PROVE Spec => []AnswersAreHeeded
  <1>1. Init => IInv /\ AnswerInv
    BY TypeInit, ConsentInit, AnswerInit DEF IInv
  <1>2. IInv /\ SlotInv /\ AnswerInv /\ [Next]_vars => IInv' /\ AnswerInv'
    BY ConsentStep, AnswerStep
  <1>3. AnswerInv => AnswersAreHeeded
    BY DEF AnswerInv, AnswersAreHeeded
  <1> QED BY <1>1, <1>2, <1>3, SlotInvariant, PTL DEF Spec
=============================================================================

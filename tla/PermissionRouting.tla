------------------------- MODULE PermissionRouting -------------------------
(***************************************************************************)
(* From a tool call that needs consent to the user's answer and back: the  *)
(* PermissionBroker and PermissionRouter of turya-core, the waiting half   *)
(* of execute_tool_call, the session loop's forwarding of answers to the   *)
(* active turn, and the client that shows the requests.                    *)
(*                                                                         *)
(* Calls of one turn are futures of one task (the turn and its             *)
(* subagents), so between two suspensions only one of them runs; the       *)
(* dispatcher is a task of its own and runs in parallel with them.         *)
(***************************************************************************)
EXTENDS Naturals, Sequences, FiniteSets

CONSTANTS
    Calls,           \* tool calls, each made once
    NoCall,          \* no call: an empty place in a router's map
    NTurns,          \* bound: turns, one after the other
    TurnOf,          \* the turn a call belongs to
    Req,             \* a call's request id, "req_{call_id}"
    Tool,            \* the tool it calls
    Low,             \* the calls whose risk level is Low
    Modes,           \* bound: the permission modes the host may set
    StartMode,       \* the mode the engine starts with
    MaxModeChanges,  \* bound: set_mode calls
    Decisions,       \* bound: the answers the client gives
    Client,          \* "tui": one request on screen; "list": shows them all
    Hasty            \* the client may answer a request before its caller waits

Turns == 1 .. NTurns

ASSUME RoutingAssumption ==
    /\ NoCall \notin Calls
    /\ NTurns \in Nat \ {0}
    /\ TurnOf \in [Calls -> Turns]
    /\ DOMAIN Req = Calls /\ DOMAIN Tool = Calls /\ Low \subseteq Calls
    /\ StartMode \in Modes /\ Modes \subseteq {"Open", "ReviewForMe", "Manual"}
    /\ MaxModeChanges \in Nat
    /\ Decisions \subseteq {"AllowOnce", "AllowSession", "Deny"}
    /\ Client \in {"tui", "list"} /\ Hasty \in BOOLEAN

VARIABLES
    mode, allowed, modeChanges,  \* PermissionBroker (and how often it was set)
    turn,      \* number of turns started
    active,    \* the turn in the session's slot
    sender,    \* active_perm_tx: the turn whose decision channel it feeds
    state,     \* of each turn task
    polling,   \* the turn tasks a worker is polling
    box,       \* each turn's decision channel
    disp,      \* each turn's dispatcher
    closed,    \* PermissionRouter.closed
    pending,   \* PermissionRouter.pending: id -> the call whose oneshot it holds
    pc, slot,  \* where each call is, and its oneshot
    shown,     \* PermissionRequested events on their way to the client
    modals,    \* the requests the client shows
    cmds,      \* commands on their way to the session
    answered,  \* history: the answers given while a call's request was shown
    waved      \* history: calls the mode or the risk level let through

broker == <<mode, allowed, modeChanges>>
session == <<turn, active, sender>>
tasks == <<state, polling>>
router == <<box, disp, closed, pending>>
client == <<shown, modals, cmds, answered>>
vars == <<broker, session, tasks, router, pc, slot, client, waved>>

-----------------------------------------------------------------------------

NoTurn == 0
Ids == {Req[c] : c \in Calls}

\* What a decision channel carries, and what the client sends the session.
Message == [id : Ids, decision : Decisions]
Command == [kind : {"submit", "abort"}]
           \cup [kind : {"resolve"}, id : Ids, decision : Decisions]

\* A mutant of Allows: a grant for the session counts as no.
AllowsOnlyOnce(d) == d = "AllowOnce"

\* The answers that let the call run.
Allows(d) == d # "Deny"

\* A call's position in execute_tool_call.
Positions == {"idle", "asking", "registering", "inserting", "waiting",
              "forgetting", "refusing", "run", "done", "denied"}

\* Between these positions and the next one there is no suspension.
Mid == {"registering", "inserting", "forgetting", "refusing"}

Settled == {"done", "denied"}

Init ==
    /\ mode = StartMode /\ allowed = {} /\ modeChanges = 0
    /\ turn = 0 /\ active = NoTurn /\ sender = NoTurn
    /\ state = [t \in Turns |-> "unborn"] /\ polling = {}
    /\ box = [t \in Turns |-> <<>>]
    /\ disp = [t \in Turns |-> "recv"]
    /\ closed = [t \in Turns |-> FALSE]
    /\ pending = [t \in Turns |-> [i \in Ids |-> NoCall]]
    /\ pc = [c \in Calls |-> "idle"]
    /\ slot = [c \in Calls |-> "none"]
    /\ shown = <<>> /\ modals = {} /\ cmds = <<>>
    /\ answered = [c \in Calls |-> {}]
    /\ waved = {}

-----------------------------------------------------------------------------
(* A tool call.  It runs while its turn's task is polled and no other call  *)
(* of that turn is between two suspensions.                                 *)

Runs(c) ==
    LET t == TurnOf[c]
    IN  /\ t \in polling
        /\ \A d \in Calls \ {c} : TurnOf[d] = t => pc[d] \notin Mid

Goto(c, p) == pc' = [pc EXCEPT ![c] = p]

CallUnchanged == UNCHANGED <<session, tasks, modals, cmds, answered>>

\* PermissionBroker::check
PassedByMode(c) == mode = "Open" \/ (mode = "ReviewForMe" /\ c \in Low)

CheckAllows(c) ==
    /\ pc[c] = "idle" /\ Runs(c)
    /\ PassedByMode(c) \/ Tool[c] \in allowed
    /\ Goto(c, "run")
    /\ waved' = IF PassedByMode(c) THEN waved \cup {c} ELSE waved
    /\ CallUnchanged /\ UNCHANGED <<broker, router, slot, shown>>

CheckAsks(c) ==
    /\ pc[c] = "idle" /\ Runs(c)
    /\ ~PassedByMode(c) /\ Tool[c] \notin allowed
    /\ Goto(c, "asking")
    /\ CallUnchanged /\ UNCHANGED <<broker, router, slot, shown, waved>>

\* The PermissionRequested event is sent before the caller registers.
Announce(c) ==
    /\ pc[c] = "asking" /\ Runs(c)
    /\ shown' = Append(shown, c)
    /\ Goto(c, "registering")
    /\ CallUnchanged /\ UNCHANGED <<broker, router, slot, waved>>

\* PermissionRouter::register reads `closed` and only then takes the map's lock.
RegisterReads(c) ==
    /\ pc[c] = "registering" /\ Runs(c)
    /\ IF closed[TurnOf[c]]
       THEN slot' = [slot EXCEPT ![c] = "dropped"] /\ Goto(c, "waiting")
       ELSE slot' = slot /\ Goto(c, "inserting")
    /\ CallUnchanged /\ UNCHANGED <<broker, router, shown, waved>>

\* Mutant: a router with room for one waiter.
RegisteredAlone(t, c) == [i \in Ids |-> IF i = Req[c] THEN c ELSE NoCall]

\* The map after the insertion.
Registered(t, c) == [pending[t] EXCEPT ![Req[c]] = c]

\* An earlier waiter under the same id loses its sender.
RegisterInserts(c) ==
    LET t == TurnOf[c]  old == pending[t][Req[c]]
    IN  /\ pc[c] = "inserting" /\ Runs(c)
        /\ slot' = [d \in Calls |-> IF d = c THEN "open"
                                    ELSE IF d = old THEN "dropped" ELSE slot[d]]
        /\ pending' = [pending EXCEPT ![t] = Registered(t, c)]
        /\ Goto(c, "waiting")
        /\ CallUnchanged /\ UNCHANGED <<broker, box, disp, closed, shown, waved>>

\* PermissionBroker::record_decision
Granted(c) == IF slot[c] = "AllowSession" THEN allowed \cup {Tool[c]} ELSE allowed

\* wait.await returns: an answer (recorded by the broker), or the sender was
\* dropped, which counts as a refusal.
WakeAnswered(c) ==
    /\ pc[c] = "waiting" /\ slot[c] \in Decisions /\ Runs(c)
    /\ allowed' = Granted(c)
    /\ Goto(c, IF Allows(slot[c]) THEN "forgetting" ELSE "refusing")
    /\ CallUnchanged /\ UNCHANGED <<mode, modeChanges, router, slot, shown, waved>>

WakeDropped(c) ==
    /\ pc[c] = "waiting" /\ slot[c] = "dropped" /\ Runs(c)
    /\ Goto(c, "refusing")
    /\ CallUnchanged /\ UNCHANGED <<broker, router, slot, shown, waved>>

\* PermissionRouter::forget removes whatever waits under the id, and with it
\* that waiter's sender.
Forget(c) ==
    LET t == TurnOf[c]  old == pending[t][Req[c]]
    IN  /\ pc[c] \in {"forgetting", "refusing"} /\ Runs(c)
        /\ slot' = [d \in Calls |-> IF d = old /\ d # c THEN "dropped" ELSE slot[d]]
        /\ pending' = [pending EXCEPT ![t][Req[c]] = NoCall]
        /\ Goto(c, IF pc[c] = "forgetting" THEN "run" ELSE "denied")
        /\ CallUnchanged /\ UNCHANGED <<broker, box, disp, closed, shown, waved>>

\* tool.execute
Execute(c) ==
    /\ pc[c] = "run" /\ Runs(c)
    /\ Goto(c, "done")
    /\ CallUnchanged /\ UNCHANGED <<broker, router, slot, shown, waved>>

CallStep(c) ==
    \/ CheckAllows(c) \/ CheckAsks(c) \/ Announce(c) \/ RegisterReads(c)
    \/ RegisterInserts(c) \/ WakeAnswered(c) \/ WakeDropped(c) \/ Forget(c) \/ Execute(c)

-----------------------------------------------------------------------------
(* The dispatcher of a turn: spawn_permission_dispatcher. *)

DispUnchanged == UNCHANGED <<broker, session, tasks, pc, client, waved>>

\* Mutant: one channel for all callers, read by whoever waits.
AnyWaiter(t, i) ==
    LET waiting == {pending[t][j] : j \in Ids} \ {NoCall}
    IN  IF waiting = {} THEN NoCall ELSE CHOOSE c \in waiting : TRUE

\* The caller registered under an id.
Waiter(t, i) == pending[t][i]

\* PermissionRouter::resolve, with an answer or with nobody waiting for it.
Deliver(t) ==
    LET m == Head(box[t])  w == Waiter(t, m.id)
    IN  /\ disp[t] = "recv" /\ box[t] # <<>>
        /\ box' = [box EXCEPT ![t] = Tail(@)]
        /\ pending' = [pending EXCEPT ![t][m.id] = NoCall]
        /\ slot' = [c \in Calls |-> IF c = w THEN m.decision ELSE slot[c]]
        /\ DispUnchanged /\ UNCHANGED <<disp, closed>>

\* recv() returns None: the session dropped the sender and the channel is empty.
CloseRouter(t) ==
    /\ disp[t] = "recv" /\ box[t] = <<>>
    /\ state[t] # "unborn" /\ sender # t
    /\ closed' = [closed EXCEPT ![t] = TRUE]
    /\ disp' = [disp EXCEPT ![t] = "clearing"]
    /\ DispUnchanged /\ UNCHANGED <<box, pending, slot>>

ClearRouter(t) ==
    /\ disp[t] = "clearing"
    /\ slot' = [c \in Calls |->
                  IF \E i \in Ids : pending[t][i] = c THEN "dropped" ELSE slot[c]]
    /\ pending' = [pending EXCEPT ![t] = [i \in Ids |-> NoCall]]
    /\ disp' = [disp EXCEPT ![t] = "ended"]
    /\ DispUnchanged /\ UNCHANGED <<box, closed>>

DispStep(t) == Deliver(t) \/ CloseRouter(t) \/ ClearRouter(t)

-----------------------------------------------------------------------------
(* The turn's task. *)

TaskUnchanged == UNCHANGED <<broker, session, pc, slot, client, waved>>

Poll(t) ==
    /\ state[t] = "live" /\ t \notin polling
    /\ polling' = polling \cup {t}
    /\ TaskUnchanged /\ UNCHANGED <<state, router>>

Park(t) ==
    /\ t \in polling /\ \A c \in Calls : TurnOf[c] = t => pc[c] \notin Mid
    /\ polling' = polling \ {t}
    /\ TaskUnchanged /\ UNCHANGED <<state, router>>

DropTask(t) ==
    /\ state[t] = "aborted" /\ t \notin polling
    /\ state' = [state EXCEPT ![t] = "dropped"]
    /\ TaskUnchanged /\ UNCHANGED <<polling, router>>

\* run_turn returns and aborts its dispatcher.
EndTurn(t) ==
    /\ t \in polling /\ \A c \in Calls : TurnOf[c] = t => pc[c] \in Settled
    /\ state' = [state EXCEPT ![t] = "over"]
    /\ polling' = polling \ {t}
    /\ disp' = [disp EXCEPT ![t] = "ended"]
    /\ TaskUnchanged /\ UNCHANGED <<box, closed, pending>>

\* The loop hears of a turn that is over and frees its slot.
FreeSlot ==
    /\ active # NoTurn /\ state[active] = "over"
    /\ active' = NoTurn
    /\ UNCHANGED <<broker, turn, sender, tasks, router, pc, slot, client, waved>>

TaskStep(t) == Poll(t) \/ Park(t) \/ DropTask(t) \/ EndTurn(t)

-----------------------------------------------------------------------------
(* The session loop's handlers for the commands that concern permissions. *)

TakeCommand(kind) ==
    /\ cmds # <<>> /\ Head(cmds).kind = kind
    /\ cmds' = Tail(cmds)
    /\ UNCHANGED <<broker, polling, disp, closed, pending, pc, slot, shown, modals,
                   answered, waved>>

\* Mutant: the slot is emptied and the task left running.
NotKilled == state

\* abort_tree on the turn in the slot marks its task.
Killed ==
    [t \in Turns |-> IF t = active /\ state[t] = "live" THEN "aborted" ELSE state[t]]

\* SubmitPrompt: abort the turn in the slot, then give the new turn a decision
\* channel of its own.
HandleSubmit ==
    /\ TakeCommand("submit") /\ turn < NTurns
    /\ turn' = turn + 1 /\ active' = turn + 1 /\ sender' = turn + 1
    /\ state' = [Killed EXCEPT ![turn + 1] = "live"]
    /\ UNCHANGED box

\* kill_active_turn drops the sender whether or not a turn is active.
HandleAbort ==
    /\ TakeCommand("abort")
    /\ sender' = NoTurn /\ active' = NoTurn
    /\ state' = Killed
    /\ UNCHANGED <<turn, box>>

\* ResolvePermission goes to the channel of the turn started last; sending
\* fails when nobody receives there any more.
HandleResolve ==
    /\ TakeCommand("resolve")
    /\ box' = IF sender # NoTurn /\ disp[sender] # "ended"
              THEN [box EXCEPT ![sender] =
                       Append(@, [id |-> Head(cmds).id, decision |-> Head(cmds).decision])]
              ELSE box
    /\ UNCHANGED <<session, state>>

\* UpdateConfig reaches the broker through the host, past the session loop.
SetMode(m) ==
    /\ modeChanges < MaxModeChanges /\ m # mode
    /\ mode' = m /\ modeChanges' = modeChanges + 1
    /\ UNCHANGED <<allowed, session, tasks, router, pc, slot, client, waved>>

SessionStep == HandleSubmit \/ HandleAbort \/ HandleResolve \/ FreeSlot

-----------------------------------------------------------------------------
(* The client. *)

ClientUnchanged == UNCHANGED <<broker, session, tasks, router, pc, slot, waved>>

Send(m) == cmds' = Append(cmds, m)

\* A prompt reaches the loop: typed, or a follow-up it bounced to itself.
SubmitNext ==
    /\ turn + Cardinality({i \in DOMAIN cmds : cmds[i].kind = "submit"}) < NTurns
    /\ Send([kind |-> "submit"])
    /\ ClientUnchanged /\ UNCHANGED <<shown, modals, answered>>

\* Esc; the TUI ignores it while a request is on screen.
PressEsc ==
    /\ active # NoTurn /\ \A i \in DOMAIN cmds : cmds[i].kind # "abort"
    /\ Client = "tui" => modals = {}
    /\ Send([kind |-> "abort"])
    /\ ClientUnchanged /\ UNCHANGED <<shown, modals, answered>>

\* The TUI has one pending_permission slot: a new request replaces the old.
ShowRequest ==
    /\ shown # <<>>
    /\ shown' = Tail(shown)
    /\ modals' = IF Client = "tui" THEN {Head(shown)} ELSE modals \cup {Head(shown)}
    /\ ClientUnchanged /\ UNCHANGED <<cmds, answered>>

Answer(c, d) ==
    /\ c \in modals
    /\ Hasty \/ pc[c] \notin {"registering", "inserting"}
    /\ modals' = modals \ {c}
    /\ answered' = [answered EXCEPT ![c] = @ \cup {d}]
    /\ Send([kind |-> "resolve", id |-> Req[c], decision |-> d])
    /\ ClientUnchanged /\ UNCHANGED shown

\* on_key takes the request off the screen for any key and answers only y and n.
OtherKey ==
    /\ Client = "tui" /\ modals # {}
    /\ modals' = {}
    /\ ClientUnchanged /\ UNCHANGED <<shown, cmds, answered>>

ClientStep ==
    \/ SubmitNext \/ PressEsc \/ ShowRequest \/ OtherKey
    \/ \E c \in Calls, d \in Decisions : Answer(c, d)

-----------------------------------------------------------------------------

\* No turn is alive, everything sent has arrived, and the client has stopped.
Quiescent ==
    /\ \A t \in Turns : state[t] \in {"unborn", "dropped", "over"}
    /\ cmds = <<>> /\ shown = <<>>
    /\ UNCHANGED vars

Next ==
    \/ \E c \in Calls : CallStep(c)
    \/ \E t \in Turns : DispStep(t) \/ TaskStep(t)
    \/ SessionStep
    \/ \E m \in Modes : SetMode(m)
    \/ ClientStep
    \/ Quiescent

Spec == Init /\ [][Next]_vars

\* Tasks are polled and make progress, channels are read, and the user gives
\* some answer to every request on screen.
Fairness ==
    /\ \A c \in Calls :
          /\ SF_vars(CallStep(c))
          /\ WF_vars(\E d \in Decisions : Answer(c, d))
    /\ \A t \in Turns : WF_vars(Poll(t)) /\ WF_vars(DispStep(t))
    /\ WF_vars(SessionStep) /\ WF_vars(ShowRequest)

FairSpec == Spec /\ Fairness

-----------------------------------------------------------------------------
(* Properties *)

\* Types of the state.
TypeOK ==
    /\ mode \in Modes /\ modeChanges \in Nat /\ allowed \subseteq {Tool[c] : c \in Calls}
    /\ turn \in 0 .. NTurns /\ active \in 0 .. turn /\ sender \in 0 .. turn
    /\ state \in [Turns -> {"unborn", "live", "aborted", "dropped", "over"}]
    /\ polling \subseteq Turns
    /\ box \in [Turns -> Seq(Message)]
    /\ disp \in [Turns -> {"recv", "clearing", "ended"}]
    /\ closed \in [Turns -> BOOLEAN]
    /\ pending \in [Turns -> [Ids -> Calls \cup {NoCall}]]
    /\ pc \in [Calls -> Positions]
    /\ slot \in [Calls -> Decisions \cup {"none", "open", "dropped"}]
    /\ shown \in Seq(Calls) /\ modals \subseteq Calls /\ waved \subseteq Calls
    /\ cmds \in Seq(Command)
    /\ answered \in [Calls -> SUBSET Decisions]

Consented(c) == \E d \in answered[c] : Allows(d)

\* A call runs only if its mode or risk let it through, or the user agreed to
\* this very call on a request that showed it, or agreed to its tool for the
\* session on a request for that tool.  No interleaving of late answers,
\* aborted turns and new turns lends one call the consent given to another.
RunsOnlyWithConsent ==
    \A c \in Calls :
        pc[c] \in {"run", "done"} =>
            \/ c \in waved
            \/ Consented(c)
            \/ \E d \in Calls : Tool[d] = Tool[c] /\ "AllowSession" \in answered[d]

\* A call is refused only because the user refused it or because its turn lost
\* its answer route: never because another call's answer or clean-up hit it.
RefusalsAreDeliberate ==
    \A c \in Calls :
        pc[c] \in {"refusing", "denied"} => "Deny" \in answered[c] \/ closed[TurnOf[c]]

\* While a call of a live turn waits and its request was answered, the answer
\* is still on its way to it.
OnItsWay(c) ==
    \/ \E i \in DOMAIN cmds : cmds[i].kind = "resolve" /\ cmds[i].id = Req[c]
    \/ \E i \in DOMAIN box[TurnOf[c]] : box[TurnOf[c]][i].id = Req[c]

NoAnswerLost ==
    \A c \in Calls :
        /\ pc[c] = "waiting" /\ slot[c] = "open"
        /\ answered[c] # {} /\ state[TurnOf[c]] = "live"
        => OnItsWay(c)

\* Every answer reaches the call that asked, and no other answer or clean-up
\* does, whatever the order of the user, the channels and the waiters (resolve).
AnswersAreHeeded == RefusalsAreDeliberate /\ NoAnswerLost

\* A waiter that nobody can answer any more belongs to a turn that is being
\* killed: a live turn never hangs on a router whose dispatcher has gone.
LiveWaitersAreServed ==
    \A c \in Calls :
        /\ pc[c] = "waiting" /\ slot[c] = "open" /\ state[TurnOf[c]] = "live"
        => disp[TurnOf[c]] = "recv"

\* Any number of requests can be in flight and answered in any order (the
\* comment on the dispatcher says so); the TUI replaces the older one.
NewRequestKeepsOld ==
    [][modals' \ modals # {} => modals \subseteq modals']_vars

\* A request whose turn goes on is eventually settled, however many callers
\* wait at once and in whatever order they are answered.
EveryRequestSettles ==
    \A c \in Calls : pc[c] = "asking" ~> pc[c] \in Settled \/ state[TurnOf[c]] # "live"

=============================================================================

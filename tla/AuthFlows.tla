------------------------------- MODULE AuthFlows -------------------------------
(***************************************************************************)
(* Connecting a provider from the terminal client: the Auth dialog         *)
(* (turya-tui: handle_flow_key, feed_flow_event), the host's pending flows *)
(* (turya-cli/src/host_services.rs) and the task that waits for the        *)
(* browser's callback (turya-auth/src/oauth.rs).  The host handles one     *)
(* command at a time; the tasks and the user run beside it.                *)
(***************************************************************************)
EXTENDS Naturals, Sequences, SequencesExt, FiniteSets

CONSTANTS
    Providers,  \* the providers of the catalog
    MaxFlows,   \* bound: flows the host begins
    MaxCmds,    \* bound: commands in flight
    MaxEvents   \* bound: events in flight

VARIABLES
    dialog,   \* the Auth dialog: open, provider, stage, the flow it knows
    cmds,     \* commands to the host
    events,   \* events to the client
    flowSeq,  \* flow_seq
    flows,    \* the pending flows
    made,     \* every flow begun: its provider and method
    task,     \* each flow's browser task
    aborted,  \* flows whose task was told to stop
    key,      \* the store: whose key is kept for a provider, 0 for none
    refresh   \* the store: providers with a refresh token

dialogVars == <<dialog, cmds>>
hostVars == <<flowSeq, flows, made>>
storeVars == <<key, refresh>>
authVars == <<dialog, cmds, events, hostVars, task, aborted, storeVars>>

Methods == {"api-key", "oauth"}
Prompting == {"key", "oauth"}
NoFlow == 0
NoKey == 0

Closed == [open |-> FALSE, provider |-> 0, stage |-> "pick", flow |-> NoFlow]

Init ==
    /\ dialog = Closed /\ cmds = <<>> /\ events = <<>>
    /\ flowSeq = 0 /\ flows = {} /\ made = <<>>
    /\ task = <<>> /\ aborted = {}
    /\ key = [p \in Providers |-> NoKey] /\ refresh = {}

-----------------------------------------------------------------------------
(* The user and the dialog. *)

Send(cmd) == Len(cmds) < MaxCmds /\ cmds' = Append(cmds, cmd)
ByUser == UNCHANGED <<events, hostVars, task, aborted, storeVars>>

\* AuthFlow::new: from the browser, the command or the list that arrives.
OpenDialog ==
    /\ ~dialog.open
    /\ \E p \in Providers :
           dialog' = [open |-> TRUE, provider |-> p, stage |-> "pick", flow |-> NoFlow]
    /\ ByUser /\ UNCHANGED cmds

\* Enter on a method: the stage waits for the host's answer.
PickMethod ==
    /\ dialog.open /\ dialog.stage = "pick"
    /\ \E m \in Methods : Send([op |-> "begin", provider |-> dialog.provider, method |-> m])
    /\ ByUser /\ UNCHANGED dialog

\* Enter on a key or a pasted code; the stage waits for the host's answer.
\* What is typed belongs to the dialog's provider, or is empty.
SubmitInput ==
    /\ dialog.open /\ dialog.stage \in Prompting
    /\ \E typed \in {dialog.provider, NoKey} :
           Send([op |-> "submit", flow |-> dialog.flow, payload |-> typed])
    /\ ByUser /\ UNCHANGED dialog

\* Enter on a failure goes back to the methods and keeps the flow.
Retry ==
    /\ dialog.open /\ dialog.stage = "failed"
    /\ dialog' = [dialog EXCEPT !.stage = "pick"]
    /\ ByUser /\ UNCHANGED cmds

CloseDone ==
    /\ dialog.open /\ dialog.stage = "done"
    /\ dialog' = Closed
    /\ ByUser /\ UNCHANGED cmds

\* Esc cancels the flow the dialog knows, which may be none yet.
Esc ==
    /\ dialog.open
    /\ dialog' = Closed
    /\ IF dialog.flow = NoFlow THEN UNCHANGED cmds
       ELSE Send([op |-> "cancel", flow |-> dialog.flow])
    /\ ByUser

\* feed_flow_event: an event is for whatever dialog is open.
Fed(evt) ==
    IF ~dialog.open THEN dialog
    ELSE CASE evt.is = "started" -> [dialog EXCEPT !.flow = evt.flow, !.stage = evt.asks]
           [] evt.is = "completed" -> [dialog EXCEPT !.stage = "done"]
           [] evt.is = "failed" -> [dialog EXCEPT !.stage = "failed"]

FeedEvent ==
    /\ events # <<>>
    /\ dialog' = Fed(Head(events))
    /\ events' = Tail(events)
    /\ UNCHANGED <<cmds, hostVars, task, aborted, storeVars>>

-----------------------------------------------------------------------------
(* The host. *)

Started(f, asks) == [is |-> "started", flow |-> f, asks |-> asks]
Completed(f) == [is |-> "completed", flow |-> f]
Failed(f) == [is |-> "failed", flow |-> f]

Emit(evt) == Len(events) < MaxEvents /\ events' = Append(events, evt)
Takes(op) == cmds # <<>> /\ Head(cmds).op = op /\ cmds' = Tail(cmds)

\* begin_flow: every flow has a number of its own and stays until it is taken.
BeginFlow ==
    /\ Takes("begin") /\ flowSeq < MaxFlows
    /\ LET cmd == Head(cmds)
           f == flowSeq + 1
       IN  /\ flowSeq' = f
           /\ flows' = flows \cup {f}
           /\ made' = Append(made, cmd)
           /\ task' = Append(task, IF cmd.method = "oauth" THEN "waiting" ELSE "none")
           /\ Emit(Started(f, IF cmd.method = "oauth" THEN "oauth" ELSE "key"))
    /\ UNCHANGED <<dialog, aborted, storeVars>>

\* No client id, no random bytes, no port.
BeginFails ==
    /\ Takes("begin") /\ Head(cmds).method = "oauth"
    /\ Emit(Failed(NoFlow))
    /\ UNCHANGED <<dialog, hostVars, task, aborted, storeVars>>

\* Mutant: the flow is forgotten, its task is not.
LeftRunning(f) == UNCHANGED <<task, aborted>>

\* abort ends a task that waits; one that runs goes on to its next await.
Aborted(f) ==
    /\ aborted' = IF task[f] = "storing" THEN aborted \cup {f} ELSE aborted
    /\ task' = IF task[f] \in {"waiting", "exchanging"} THEN [task EXCEPT ![f] = "over"] ELSE task

Taken(f) == flows' = flows \ {f} /\ Aborted(f) /\ UNCHANGED <<flowSeq, made, dialog>>

SubmitUnknown ==
    /\ Takes("submit") /\ Head(cmds).flow \notin flows
    /\ Emit(Failed(Head(cmds).flow))
    /\ UNCHANGED <<dialog, hostVars, task, aborted, storeVars>>

\* list_models: a provider lists its models to its own keys.
Accepts(p, payload) == payload = p

\* Mutant: an empty input is dropped without a word.
SilentOnEmpty(f, payload) == IF payload = NoKey THEN UNCHANGED events ELSE Emit(Failed(f))

Refuse(f, payload) == Emit(Failed(f))

\* submit_input takes the flow first, whatever becomes of the input.
SubmitRefused ==
    /\ Takes("submit") /\ Head(cmds).flow \in flows
    /\ Taken(Head(cmds).flow)
    /\ Refuse(Head(cmds).flow, Head(cmds).payload)
    /\ UNCHANGED storeVars

\* An accepted key is stored; the store may fail, which is SubmitRefused.
SubmitKey ==
    /\ Takes("submit") /\ Head(cmds).flow \in flows
    /\ LET f == Head(cmds).flow
       IN  /\ made[f].method = "api-key"
           /\ Accepts(made[f].provider, Head(cmds).payload)
           /\ Taken(f)
           /\ key' = [key EXCEPT ![made[f].provider] = Head(cmds).payload]
           /\ Emit(Completed(f))
    /\ UNCHANGED refresh

\* A pasted code is exchanged; what the store says to the token is ignored.
SubmitCode ==
    /\ Takes("submit") /\ Head(cmds).flow \in flows
    /\ LET f == Head(cmds).flow
       IN  /\ made[f].method = "oauth"
           /\ Accepts(made[f].provider, Head(cmds).payload)
           /\ Taken(f)
           /\ refresh' \in {refresh, refresh \cup {made[f].provider}}
           /\ Emit(Completed(f))
    /\ UNCHANGED key

\* cancel_flow says nothing of a flow it does not know.
CancelFlow ==
    /\ Takes("cancel")
    /\ LET f == Head(cmds).flow
       IN  IF f \in flows THEN Taken(f) /\ Emit(Failed(f))
           ELSE UNCHANGED <<dialog, hostVars, task, aborted, events>>
    /\ UNCHANGED storeVars

-----------------------------------------------------------------------------
(* The task of a flow that waits for the browser. *)

TaskAt(f, from, to) == task[f] = from /\ task' = [task EXCEPT ![f] = to]
ByTask == UNCHANGED <<dialogVars, hostVars, key>>

\* wait_for_callback takes one connection.
Callback(f) ==
    /\ TaskAt(f, "waiting", "exchanging")
    /\ ByTask /\ UNCHANGED <<events, aborted, refresh>>

\* 300 s without one, a stray request, a taken port: nobody is told.
WaitEnds(f) ==
    /\ TaskAt(f, "waiting", "over")
    /\ ByTask /\ UNCHANGED <<events, aborted, refresh>>

ExchangeFails(f) ==
    /\ TaskAt(f, "exchanging", "over")
    /\ Emit(Failed(f))
    /\ ByTask /\ UNCHANGED <<aborted, refresh>>

\* From the token to the event there is no await before the event's own.
Exchanged(f) ==
    /\ TaskAt(f, "exchanging", "storing")
    /\ ByTask /\ UNCHANGED <<events, aborted, refresh>>

\* The store's answer is ignored; a task told to stop may not get to report.
StoreToken(f) ==
    /\ TaskAt(f, "storing", "over")
    /\ refresh' \in {refresh, refresh \cup {made[f].provider}}
    /\ \/ Emit(Completed(f))
       \/ f \in aborted /\ UNCHANGED events
    /\ ByTask /\ UNCHANGED aborted

User == OpenDialog \/ PickMethod \/ SubmitInput \/ Retry \/ CloseDone \/ Esc
Client == User \/ FeedEvent
Host == BeginFlow \/ BeginFails \/ SubmitUnknown \/ SubmitRefused \/ SubmitKey
            \/ SubmitCode \/ CancelFlow
Task(f) == Callback(f) \/ WaitEnds(f) \/ ExchangeFails(f) \/ Exchanged(f) \/ StoreToken(f)

Next == Client \/ Host \/ \E f \in 1 .. flowSeq : Task(f)

AuthSpec == Init /\ [][Next]_authVars

-----------------------------------------------------------------------------

\* A browser task stores a token only for a flow that nobody has cancelled or
\* finished otherwise, unless it already held the token when that happened
\* (cancel_flow, submit_input).
OnlyLiveFlowsStore ==
    [][\A f \in 1 .. flowSeq : StoreToken(f) => f \in flows \cup aborted]_authVars

\* Whatever dialog, flow and key met, the key kept for a provider is one that
\* provider accepts (submit_input).
KeysAreAccepted == \A p \in Providers : key[p] \in {NoKey, p}

\* When nothing is in flight, a dialog that asks for input asks for a flow the
\* host still has, so Enter has an effect (feed_flow_event, submit_input).
PromptsAreLive ==
    dialog.open /\ dialog.stage \in Prompting /\ cmds = <<>> /\ events = <<>>
        => dialog.flow \in flows

\* A key typed into a provider's dialog is submitted to a flow of that provider.
KeyStaysWithItsProvider ==
    \A i \in DOMAIN cmds :
        cmds[i].op = "submit" /\ cmds[i].payload # NoKey
            => made[cmds[i].flow].provider = cmds[i].payload

\* "stay silent unless the flow is still pending": a wait that ends while its
\* flow is pending is reported.
PendingEndsAreReported ==
    [][\A f \in flows : WaitEnds(f) => events' # events]_authVars
=============================================================================

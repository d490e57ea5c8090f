------------------------------ MODULE TurnLoop ------------------------------
(***************************************************************************)
(* One turn of the engine: run_turn_at with its passes, budgets, repetition *)
(* guard and summary pass, and the subagents a turn delegates to.          *)
(*                                                                         *)
(* Agent 0 is the turn the user started; agent k is the k-th subagent it   *)
(* started.  Subagents are futures in the turn's own task: they run only   *)
(* while the turn, having read a response to its end, joins them.  The     *)
(* model may answer anything; a response is a sequence of tokens and calls *)
(* that ends well or with an error.                                        *)
(***************************************************************************)
EXTENDS Naturals, Sequences, FiniteSets

CONSTANTS
    ModelCalls,     \* TurnBudgets.model_calls, set_budgets keeps it above zero
    ToolCalls,      \* TurnBudgets.tool_calls, likewise
    SubModelCalls,  \* SUBAGENT_MODEL_CALLS (12)
    SubToolCalls,   \* SUBAGENT_TOOL_CALLS (24)
    MaxSiblings,    \* MAX_CONCURRENT_SUBAGENTS (4)
    Sigs,           \* signatures of calls to tools of the registry
    Makes,          \* bound: the ones each agent's model makes
    Spawn,          \* the signature of a call to spawn_agent
    NoSig,          \* last_call = None
    MaxAgents,      \* bound: subagents
    MaxCalls,       \* bound: calls in one response, for each agent
    MaxLateCalls    \* bound: calls in the summary pass

ASSUME LoopAssumption ==
    /\ ModelCalls \in Nat \ {0} /\ ToolCalls \in Nat \ {0}
    /\ SubModelCalls \in Nat \ {0} /\ SubToolCalls \in Nat \ {0}
    /\ MaxSiblings \in Nat /\ MaxAgents \in Nat
    /\ Makes \in [0 .. MaxAgents -> SUBSET Sigs]
    /\ MaxCalls \in [0 .. MaxAgents -> Nat] /\ MaxLateCalls \in Nat
    /\ Spawn \notin Sigs /\ NoSig \notin Sigs \cup {Spawn}

VARIABLES
    agent,    \* every agent's run of run_turn_at
    spawned,  \* how many subagents were accepted
    over      \* the agents that ended, in order: the turns appended to the log

vars == <<agent, spawned, over>>

-----------------------------------------------------------------------------

Agents == 0 .. MaxAgents
Root == 0
NoAgent == MaxAgents + 1

ModelBudget(a) == IF a = Root THEN ModelCalls ELSE SubModelCalls
ToolBudget(a) == IF a = Root THEN ToolCalls ELSE SubToolCalls

Phases == {"unborn", "reading", "joining", "summary", "over"}

\* How a call was answered: by its tool (run, denied or unknown), by its
\* subagent, by a subagent that said nothing, or by a refusal.
Delegated == {"child", "silent", "invalid"}
Answers == {"tool", "nested", "repeat", "budget"} \cup Delegated

\* Parts of a turn.  Calls are numbered as the turn records them.
Part == [part : {"call"}, id : Nat, sig : Sigs \cup {Spawn, NoSig}]
        \cup [part : {"result"}, id : Nat, sig : Sigs \cup {Spawn, NoSig}, by : Answers]

\* A delegation of the pass: the call and its subagent (NoAgent: refused).
Kid == [id : Nat, child : 1 .. NoAgent]

\* `made` counts the calls of the turn, `calls` those of the pass; `seen` is
\* the length of the turn when the model was last asked (history).
Run == [phase : Phases, passes : Nat, executions : Nat, made : Nat, calls : Nat,
        toolsLast : Nat, capHit : BOOLEAN, err : BOOLEAN,
        last : Sigs \cup {Spawn, NoSig}, turn : Seq(Part), parts : Seq(Part),
        kids : Seq(Kid), spoke : BOOLEAN, seen : Nat, unshown : BOOLEAN]

Unborn ==
    [phase |-> "unborn", passes |-> 0, executions |-> 0, made |-> 0, calls |-> 0,
     toolsLast |-> 0, capHit |-> FALSE, err |-> FALSE, last |-> NoSig,
     turn |-> <<>>, parts |-> <<>>, kids |-> <<>>, spoke |-> FALSE, seen |-> 0,
     unshown |-> FALSE]

FirstPass == [Unborn EXCEPT !.phase = "reading", !.passes = 1]

Init ==
    /\ agent = [a \in Agents |-> IF a = Root THEN FirstPass ELSE Unborn]
    /\ spawned = 0 /\ over = <<>>

-----------------------------------------------------------------------------
(* Reading a response.  A call is recorded when it arrives.                 *)

Reading(a) == agent[a].phase \in {"reading", "summary"}

CallPart(r, sig) == [part |-> "call", id |-> r.made + 1, sig |-> sig]
ResultPart(r, sig, by) == [part |-> "result", id |-> r.made + 1, sig |-> sig, by |-> by]

Called(r, sig, results) ==
    [r EXCEPT !.made = @ + 1, !.calls = @ + 1,
              !.parts = Append(@, CallPart(r, sig)) \o results]

\* Mutant: a delegation is set aside before it is counted.
ChargedUnlessSpawn(r, sig) ==
    IF sig = Spawn THEN r.executions ELSE r.executions + 1

\* A call within the budget counts, whatever becomes of it.
Charged(r, sig) == r.executions + 1

Step(a, r) ==
    /\ agent' = [agent EXCEPT ![a] = r]
    /\ UNCHANGED <<spawned, over>>

MayCall(a) ==
    \/ agent[a].phase = "reading" /\ agent[a].calls < MaxCalls[a]
    \/ agent[a].phase = "summary" /\ agent[a].calls < MaxLateCalls

WithinBudget(a) ==
    agent[a].phase = "reading" /\ agent[a].executions < ToolBudget(a)

\* Mutant: the refusal is sent to the client only.
RefusalUnrecorded(r) == <<>>

\* A pass records the refusal, the summary pass does not.
BudgetRefusal(r) ==
    IF r.phase = "reading" THEN <<ResultPart(r, NoSig, "budget")>> ELSE <<>>

\* Which tool was called no longer matters.
RefuseOverBudget(a) ==
    /\ MayCall(a) /\ ~WithinBudget(a)
    /\ LET r == agent[a]
       IN  Step(a, [Called(r, NoSig, BudgetRefusal(r)) EXCEPT !.capHit = TRUE])

\* A delegation is answered when the pass joins its subagents.
Delegation(sig, child) ==
    LET r == agent[Root]
        c == Called(r, sig, <<>>)
    IN  [c EXCEPT !.executions = Charged(r, sig),
                  !.kids = Append(@, [id |-> r.made + 1, child |-> child])]

\* start_subagent refuses a fifth sibling and an empty task.
DelegateRefused ==
    /\ MayCall(Root) /\ WithinBudget(Root)
    /\ Step(Root, Delegation(Spawn, NoAgent))

Delegate ==
    /\ MayCall(Root) /\ WithinBudget(Root)
    /\ Len(agent[Root].kids) < MaxSiblings
    /\ spawned < MaxAgents
    /\ spawned' = spawned + 1
    /\ agent' = [agent EXCEPT ![Root] = Delegation(Spawn, spawned + 1)]
    /\ UNCHANGED over

\* last_call after a call that is not a delegation.
Remembered(r, sig) == sig

\* execute_tool_call refuses the call it was last given.  Inside a subagent
\* spawn_agent is such a call, and the depth cap refuses it.
ExecuteCall(a, sig) ==
    /\ MayCall(a) /\ WithinBudget(a)
    /\ sig \in Makes[a] \/ (sig = Spawn /\ a # Root)
    /\ LET r == agent[a]
           by == IF sig = r.last THEN "repeat"
                 ELSE IF sig = Spawn THEN "nested" ELSE "tool"
       IN  Step(a, [Called(r, sig, <<ResultPart(r, sig, by)>>)
                      EXCEPT !.executions = Charged(r, sig),
                             !.last = Remembered(r, sig)])

\* The provider's task ends; the subagents of the pass run now.
EndResponse(a, failed) ==
    /\ agent[a].phase = "reading"
    /\ Step(a, [agent[a] EXCEPT !.phase = "joining", !.err = failed])

-----------------------------------------------------------------------------
(* Subagents. *)

\* A subagent begins when the join first polls it.  Whether it will send a
\* token (the model's, or the rules its memory hook recalls) is chosen here:
\* only its end depends on it.
StartSubagent(k) ==
    /\ agent[Root].phase = "joining" /\ agent[k].phase = "unborn"
    /\ \E i \in DOMAIN agent[Root].kids : agent[Root].kids[i].child = k
    /\ \E speaks \in BOOLEAN : Step(k, [FirstPass EXCEPT !.spoke = speaks])

\* Mutant: a refused delegation is waited for like a subagent.
JoinedAlways(r) == \A i \in DOMAIN r.kids :
    r.kids[i].child # NoAgent /\ agent[r.kids[i].child].phase = "over"

\* join_all: refused delegations are complete from the start.
Joined(r) == \A i \in DOMAIN r.kids :
    r.kids[i].child # NoAgent => agent[r.kids[i].child].phase = "over"

Verdict(kid) ==
    IF kid.child = NoAgent THEN "invalid"
    ELSE IF agent[kid.child].spoke THEN "child" ELSE "silent"

KidResult(kid) ==
    [part |-> "result", id |-> kid.id, sig |-> Spawn, by |-> Verdict(kid)]

\* The results in the order the model asked for them.
KidResults(r) == [i \in 1 .. Len(r.kids) |-> KidResult(r.kids[i])]

-----------------------------------------------------------------------------
(* The loop of run_turn_at, after a pass. *)

\* Mutant: tools_last_pass is set where the loop is left only.
ToolsOfLeaving(r) == IF r.capHit \/ r.calls = 0 THEN r.calls ELSE r.toolsLast

\* tools_last_pass keeps its value when the provider failed.
ToolsLast(r) == IF r.err THEN r.toolsLast ELSE r.calls

PassEnds(a) == agent[a].phase = "joining" /\ Joined(agent[a])

Leaves(r) == r.err \/ r.capHit \/ r.calls = 0

BudgetHit(a, r) == (r.passes = ModelBudget(a) /\ ToolsLast(r) > 0) \/ r.capHit

\* The turn with what the pass produced; the next request sees all of it.
Extended(r) ==
    LET turn == r.turn \o r.parts \o KidResults(r)
    IN  [r EXCEPT !.turn = turn, !.parts = <<>>, !.kids = <<>>, !.calls = 0,
                  !.toolsLast = ToolsLast(r)]

NextPass(a) ==
    /\ PassEnds(a) /\ ~Leaves(agent[a]) /\ agent[a].passes < ModelBudget(a)
    /\ LET e == Extended(agent[a])
       IN  Step(a, [e EXCEPT !.phase = "reading", !.passes = @ + 1, !.seen = Len(e.turn)])

PassesDone(a) == PassEnds(a) /\ (Leaves(agent[a]) \/ agent[a].passes = ModelBudget(a))

SummaryPass(a) ==
    /\ PassesDone(a) /\ BudgetHit(a, agent[a])
    /\ LET e == Extended(agent[a])
       IN  Step(a, [e EXCEPT !.phase = "summary", !.seen = Len(e.turn)])

\* TurnCompleted is sent and the turn appended to the session's log; the rest
\* were locals.  (`unshown` is a history: without an error the turn ended on a
\* result the model was not shown.)
Ends(a, r) ==
    /\ agent' = [agent EXCEPT ![a] = [Unborn EXCEPT
                     !.phase = "over", !.turn = r.turn, !.spoke = r.spoke,
                     !.unshown = ~r.err /\ \E i \in DOMAIN r.turn :
                                     i > r.seen /\ r.turn[i].part = "result"]]
    /\ over' = Append(over, a)
    /\ UNCHANGED spawned

EndTurn(a) ==
    /\ PassesDone(a) /\ ~BudgetHit(a, agent[a])
    /\ Ends(a, Extended(agent[a]))

\* Nothing is deferred in the summary pass, so its parts end the turn.
EndSummary(a, failed) ==
    /\ agent[a].phase = "summary"
    /\ Ends(a, [agent[a] EXCEPT !.turn = @ \o agent[a].parts, !.parts = <<>>,
                                !.calls = 0, !.err = @ \/ failed])

-----------------------------------------------------------------------------

ResponseStep(a) ==
    \/ RefuseOverBudget(a)
    \/ \E sig \in Sigs \cup {Spawn} : ExecuteCall(a, sig)
    \/ \E failed \in BOOLEAN : EndResponse(a, failed) \/ EndSummary(a, failed)

PassStep(a) == NextPass(a) \/ SummaryPass(a) \/ EndTurn(a)

AgentStep(a) == ResponseStep(a) \/ PassStep(a)

Over == agent[Root].phase = "over" /\ UNCHANGED vars

Next ==
    \/ \E a \in Agents : AgentStep(a)
    \/ DelegateRefused \/ Delegate
    \/ \E k \in Agents \ {Root} : StartSubagent(k)
    \/ Over

Spec == Init /\ [][Next]_vars

\* The model ends every response, and a future that can go on is polled.
Fairness ==
    \A a \in Agents : WF_vars(AgentStep(a)) /\ WF_vars(a # Root /\ StartSubagent(a))

FairSpec == Spec /\ Fairness

-----------------------------------------------------------------------------
(* Properties. *)

TypeOK ==
    /\ agent \in [Agents -> Run]
    /\ spawned \in Agents
    /\ over \in Seq(Agents)

AnswersOf(turn, id) ==
    {j \in DOMAIN turn : turn[j].part = "result" /\ turn[j].id = id}

Closed(turn) ==
    \A i \in DOMAIN turn : turn[i].part = "call" =>
        \E j \in DOMAIN turn : j > i /\ AnswersOf(turn, turn[i].id) = {j}

\* Whatever way a call was answered - by its tool, a refusal of the budget or
\* of the guard, a subagent, a refused delegation - the request the model is
\* sent next holds exactly one result for it, after it: a provider rejects a
\* conversation with an open call.
RequestsAreClosed == \A a \in Agents : Reading(a) => Closed(agent[a].turn)

\* "calls are announced as denied but never run, and nothing is recorded for
\* them" (the doc of run_pass on the summary pass): a turn that ended has no
\* call without a result, so the store has nothing to repair in it.
StoredTurnsAreClosed ==
    \A a \in Agents : agent[a].phase = "over" => Closed(agent[a].turn)

Whole(r) == r.turn \o r.parts

\* The results of a turn that say so.
Results(turn, by) == {i \in DOMAIN turn : turn[i].part = "result" /\ turn[i].by \in by}

\* However a model mixes repeats, refusals and delegations, and across passes,
\* no call is carried out twice unless another one was in between, if only to
\* be told that a subagent delegates no further.
NoImmediateRepeat ==
    \A a \in Agents :
        LET whole == Whole(agent[a])
            given == Results(whole, {"tool", "nested"})
        IN  \A i, j \in given :
                i < j /\ whole[i].sig = whole[j].sig => \E k \in given : i < k /\ k < j

Ran(r) == Cardinality(Results(Whole(r), {"tool"}))

\* What a prompt may cost: the tools a turn runs and the subagents it starts
\* share its tool budget, a pass starts at most MaxSiblings subagents, and a
\* subagent's tools stay within the smaller budget of its own.
CostIsBounded ==
    /\ Ran(agent[Root]) + spawned <= ToolCalls
    /\ agent[Root].phase # "over" => spawned <= MaxSiblings * agent[Root].passes
    /\ \A k \in Agents \ {Root} : Ran(agent[k]) <= SubToolCalls

\* The results of delegations are in the order the model asked for them,
\* however long the subagents took.
DelegationsInOrder ==
    \A i, j \in DOMAIN agent[Root].turn :
        LET p == agent[Root].turn[i]  q == agent[Root].turn[j]
        IN  /\ p.part = "result" /\ p.by \in Delegated
            /\ q.part = "result" /\ q.by \in Delegated
            /\ i < j
            => p.id < q.id

\* What a model is told of its calls: each with one result, the delegations' in
\* the order they were asked for, and none run twice in a row.
ConversationIsSound == RequestsAreClosed /\ NoImmediateRepeat /\ DelegationsInOrder

\* "the model always gets the last word": a turn that ends without an error
\* does not end on the result of a tool or of a subagent the model was never
\* shown.
ModelHasLastWord == \A a \in Agents : ~agent[a].unshown

\* Every turn ends, whatever the model calls and however its subagents end.
TurnEnds == <>(agent[Root].phase = "over")
=============================================================================

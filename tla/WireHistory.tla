----------------------------- MODULE WireHistory -----------------------------
(* What a model is told of the session so far: a turn's passes record their  *)
(* parts (run_pass), Transcript::to_messages projects the parts into         *)
(* messages, and a provider renders the messages for its server.             *)
(*                                                                           *)
(* A part's text is left out.  A call carries its `place`, the number of     *)
(* calls recorded up to it, which no code sees, and its `id`: Anthropic's    *)
(* ids are the server's own, Gemini's and Ollama's number the calls of one   *)
(* response and start again with the next.                                   *)
EXTENDS Naturals, Sequences, SequencesExt, FiniteSets

CONSTANTS Names,      \* the tools a model may call
          Delegate,   \* spawn_agent, whose results are deferred
          MaxCalls,   \* calls in one response
          MaxPasses   \* responses of the session

VARIABLES
    dialect,  \* which provider
    parts,    \* the parts of the transcript
    passes,   \* responses so far
    phase     \* "idle", or "turn" while a turn runs

vars == <<dialect, parts, passes, phase>>

CallsIn(list) ==
    FlattenSeq([i \in DOMAIN list |-> IF list[i].kind = "call" THEN <<list[i]>> ELSE <<>>])
Delegating == \E i \in DOMAIN parts : parts[i].name = Delegate

Init ==
    /\ dialect \in {"anthropic", "gemini", "ollama"}
    /\ parts = <<>> /\ passes = 0 /\ phase = "idle"

\* ---------------------------------------------------------------- recording

Part(kind, name, place, id) == [kind |-> kind, name |-> name, place |-> place, id |-> id]
UserText == Part("user", "", 0, 0)
Text == Part("text", "", 0, 0)

\* The ids a provider gives the calls of one response.
Id(nth, before) == IF dialect = "anthropic" THEN before + nth ELSE nth

\* Each call is recorded, and its result after it; a delegation's result comes
\* after the response was read, and the pass's text at the very end.
Recorded(names, text) ==
    LET before == Len(CallsIn(parts))
        call(i) == Part("call", names[i], before + i, Id(i, before))
        result(i) == [call(i) EXCEPT !.kind = "result"]
        own(i) == IF names[i] = Delegate THEN <<call(i)>> ELSE <<call(i), result(i)>>
        late(i) == IF names[i] = Delegate THEN <<result(i)>> ELSE <<>>
        each == DOMAIN names
    IN FlattenSeq([i \in each |-> own(i)]) \o FlattenSeq([i \in each |-> late(i)])
         \o (IF text THEN <<Text>> ELSE <<>>)

StartTurn ==
    /\ phase = "idle"
    /\ phase' = "turn" /\ parts' = Append(parts, UserText)
    /\ UNCHANGED <<dialect, passes>>

\* A response that calls tools: the turn goes on with another pass.
PassWithCalls ==
    /\ phase = "turn" /\ passes < MaxPasses
    /\ \E n \in 1 .. MaxCalls, text \in BOOLEAN :
         \E names \in [1 .. n -> Names] : parts' = parts \o Recorded(names, text)
    /\ passes' = passes + 1
    /\ UNCHANGED <<dialect, phase>>

\* A response without calls ends the turn.
FinalPass ==
    /\ phase = "turn" /\ passes < MaxPasses
    /\ parts' = Append(parts, Text)
    /\ passes' = passes + 1 /\ phase' = "idle"
    /\ UNCHANGED dialect

Next == StartTurn \/ PassWithCalls \/ FinalPass
WireSpec == Init /\ [][Next]_vars

\* --------------------------------------------------------------- projecting

RoleByAuthor(part) == IF part.kind = "user" THEN "user" ELSE "assistant"
Role(part) == IF part.kind \in {"text", "call"} THEN "assistant" ELSE "user"

\* A result opens its own message, and nothing joins it; anything else joins
\* the message before it if the role is the same.
Joins(messages, part) ==
    /\ messages # <<>>
    /\ part.kind # "result" /\ Last(Last(messages).content).kind # "result"
    /\ Last(messages).role = Role(part)

Project(messages, part) ==
    IF Joins(messages, part)
    THEN [messages EXCEPT ![Len(messages)].content = Append(@, part)]
    ELSE Append(messages, [role |-> Role(part), content |-> <<part>>])

to_messages == FoldLeft(Project, <<>>, parts)

\* ---------------------------------------------------------------- rendering

\* Anthropic and Gemini: message by message, part by part.
Rendered == to_messages

\* Ollama has no call ids: the position and the name of a result are those
\* recorded for its id, the last call with that id.
Calls == CallsIn(parts)
Keyed(id) == {i \in DOMAIN Calls : Calls[i].id = id}
NameOf(id) == LET k == Keyed(id) IN Calls[CHOOSE i \in k : \A j \in k : j <= i].name

\* `order` grows only for an id not seen, but the position is overwritten.
Ids(n) == {Calls[i].id : i \in 1 .. n}
Position(id) ==
    LET k == Keyed(id) IN Cardinality(Ids((CHOOSE i \in k : \A j \in k : j <= i) - 1))

Tool(result) == [result EXCEPT !.kind = "tool", !.name = NameOf(result.id)]

\* A run of results is held back and sent in call order.
Sorted(pending) ==
    [i \in DOMAIN pending |->
       CHOOSE r \in Range(pending) :
         Cardinality({s \in Range(pending) : \/ Position(s.id) < Position(r.id)
                                             \/ /\ Position(s.id) = Position(r.id)
                                                /\ s.place < r.place}) = i - 1]
Flushed(state) ==
    [out |-> state.out \o [i \in DOMAIN state.pending |->
                             [role |-> "tool", content |-> <<Tool(Sorted(state.pending)[i])>>]],
     pending |-> <<>>]

IsResult(message) == \A i \in DOMAIN message.content : message.content[i].kind = "result"

Wire(state, message) ==
    IF IsResult(message)
    THEN [state EXCEPT !.pending = @ \o message.content]
    ELSE LET flushed == Flushed(state)
         IN [flushed EXCEPT !.out = Append(@, message)]

HasCalls(message) ==
    message.role = "assistant" /\ \E i \in DOMAIN message.content : message.content[i].kind = "call"

wire_messages ==
    LET out == Flushed(FoldLeft(Wire, [out |-> <<>>, pending |-> <<>>], to_messages)).out
    IN IF out # <<>> /\ HasCalls(Head(out)) THEN Tail(out) ELSE out

\* --------------------------------------------------------------- properties

\* The run of messages that are not the assistant's after the m-th.
Replies(messages, m) ==
    {r \in (m + 1) .. Len(messages) :
       \A k \in (m + 1) .. r : messages[k].role # "assistant"}

Answers(messages, m) ==
    {messages[r].content[1].place :
       r \in {q \in Replies(messages, m) : messages[q].content[1].kind = "result"}}

Asked(messages, m) ==
    {messages[m].content[i].place :
       i \in {j \in DOMAIN messages[m].content : messages[m].content[j].kind = "call"}}

\* A request to Anthropic or Gemini answers the calls of a message right after
\* it, and answers there nothing else, if the session delegated nothing.
CallsAnsweredNext ==
    dialect # "ollama" /\ phase = "turn" /\ ~Delegating =>
      \A m \in DOMAIN Rendered :
        Rendered[m].role = "assistant" => Answers(Rendered, m) = Asked(Rendered, m)

\* The same for every session: what to_messages says it takes care of.
AnsweredInTheNextTurn ==
    dialect = "anthropic" /\ phase = "turn" =>
      \A m \in DOMAIN Rendered :
        Rendered[m].role = "assistant" => Answers(Rendered, m) = Asked(Rendered, m)

\* A result is read under the name of the tool that gave it.
TrueName(place) == Calls[place].name
NamesOwn(wire) ==
    \A m \in DOMAIN wire :
      wire[m].role = "tool" => wire[m].content[1].name = TrueName(wire[m].content[1].place)

\* What Ollama reads as one reply to a message with calls is in call order.
InCallOrder(wire) ==
    \A m \in 1 .. (Len(wire) - 1) :
      wire[m].role = "tool" /\ wire[m + 1].role = "tool" =>
        wire[m].content[1].place < wire[m + 1].content[1].place

\* While every call has an id of its own, Ollama is sent each result under the
\* name of the tool that gave it, and consecutive results in call order.
ResultsReadBack ==
    dialect = "ollama" /\ Cardinality(Ids(Len(Calls))) = Len(Calls) =>
      LET wire == wire_messages IN NamesOwn(wire) /\ InCallOrder(wire)

\* What a provider is told of the calls is what happened.
HistoryReadsBack == CallsAnsweredNext /\ ResultsReadBack

\* The same for every session: what wire_messages says it does.
ResultsAreNamed == dialect = "ollama" => NamesOwn(wire_messages)

\* A request ends with the user's side, which the model is to answer.
RequestsAskTheModel ==
    phase = "turn" => Last(to_messages).role = "user"
=============================================================================

--------------------------- MODULE ProviderStreams ---------------------------
(* Reading a model's streamed answer (generate_turn of the three provider    *)
(* crates).  The server writes lines; the connection delivers them cut at    *)
(* any byte; the reader keeps what is not a whole line yet, and turns each   *)
(* line into steps for the engine.                                           *)
(*                                                                           *)
(* Anthropic streams a tool call as a block: a start with its name and id,   *)
(* fragments of its input, a stop; several blocks may be open.  Gemini and   *)
(* Ollama send a call whole and without an id the reader uses, so it numbers *)
(* them.  A line is cut into two pieces here, its head and its end; a call's *)
(* name, id and input are the numbers of the lines they came in.  A cut may  *)
(* fall inside a character.                                                  *)
EXTENDS Naturals, Sequences, SequencesExt, FiniteSets

CONSTANTS Blocks,    \* content block indexes of one answer
          MaxLines

VARIABLES
    dialect,  \* which provider
    sent,     \* the lines the server wrote
    arrived,  \* pieces delivered, two for each line
    buf,      \* pieces of the line not yet complete
    reader,   \* tool_names and tool_ids, tool_json, call_seq, the steps sent, and
              \* the lines with a character lost
    status    \* what generate_turn returned

vars == <<dialect, sent, arrived, buf, reader, status>>

\* --------------------------------------------------------------- the server

Line(kind, block) == [kind |-> kind, block |-> block, at |-> Len(sent) + 1]

\* The last line about this block that opened or closed it.
OpenKinds == {"tool", "prose"}
State(lines, b) ==
    LET about == {i \in DOMAIN lines :
                    lines[i].block = b /\ lines[i].kind \in OpenKinds \cup {"stop"}}
    IN IF about = {} THEN "stop" ELSE lines[CHOOSE i \in about : \A j \in about : j <= i].kind

Write(line) ==
    /\ status = "reading" /\ Len(sent) < MaxLines
    /\ sent' = Append(sent, line)
    /\ UNCHANGED <<dialect, arrived, buf, reader, status>>

\* Blocks of one index follow one another; those of different ones overlap.
AnthropicWrites ==
    /\ dialect = "anthropic"
    /\ \E b \in Blocks :
         \/ State(sent, b) = "stop" /\ \E k \in OpenKinds : Write(Line(k, b))
         \/ State(sent, b) = "prose" /\ Write(Line("text", b))
         \/ State(sent, b) = "tool" /\ Write(Line("json", b))
         \/ State(sent, b) # "stop" /\ Write(Line("stop", b))

\* Reasoning and text are both a text; a call comes whole.
OthersWrite ==
    /\ dialect # "anthropic"
    /\ \E k \in {"text", "call"} : Write(Line(k, 0))

\* A comment, an event name, a ping, or a line that is not JSON.
NoiseWrites == Write(Line("noise", 0))

\* An error reported inside the stream.
ErrorWrites == Write(Line("error", 0))

\* --------------------------------------------------------------- the reader

NoReader == [opened |-> [b \in Blocks |-> 0], json |-> [b \in Blocks |-> <<>>],
             calls |-> 0, steps |-> <<>>, error |-> FALSE, harmed |-> {}]

Init ==
    /\ dialect \in {"anthropic", "gemini", "ollama"}
    /\ sent = <<>> /\ arrived = 0 /\ buf = <<>>
    /\ reader = NoReader /\ status = "reading"

Token(line) == [kind |-> "token", from |-> line.at, input |-> <<>>, id |-> 0]
Call(from, input, id) == [kind |-> "call", from |-> from, input |-> input, id |-> id]

Started(r, line) == [r EXCEPT !.opened[line.block] = line.at]

\* A fragment is kept for its own block.
Fragment(r, line) == [r EXCEPT !.json[line.block] = Append(@, line.at)]

\* A stop of a block that is no tool's changes nothing.
StoppedLast(r, line) ==
    LET open == {b \in Blocks : r.opened[b] # 0}
        last == CHOOSE b \in open : \A c \in open : r.opened[c] <= r.opened[b]
    IN IF open = {} THEN r
       ELSE [r EXCEPT !.steps = Append(@, Call(r.opened[last], r.json[last], r.opened[last])),
                      !.opened[last] = 0, !.json[last] = <<>>]
Stopped(r, line) ==
    LET b == line.block
    IN IF r.opened[b] = 0 THEN r
       ELSE [r EXCEPT !.steps = Append(@, Call(r.opened[b], r.json[b], r.opened[b])),
                      !.opened[b] = 0, !.json[b] = <<>>]

\* Gemini's and Ollama's steps_from_payload: a call gets the next number.
Whole(r, line) ==
    [r EXCEPT !.calls = @ + 1,
              !.steps = Append(@, Call(line.at, <<>>, r.calls + 1))]

\* Ollama's error frame ends the turn; the others know no such payload.
Reported(r) == IF dialect = "ollama" THEN [r EXCEPT !.error = TRUE] ELSE r

Read(r, line) ==
    IF r.error THEN r ELSE
    CASE line.kind = "text" -> [r EXCEPT !.steps = Append(@, Token(line))]
      [] line.kind = "tool" -> Started(r, line)
      [] line.kind = "json" -> Fragment(r, line)
      [] line.kind = "stop" -> Stopped(r, line)
      [] line.kind = "call" -> Whole(r, line)
      [] line.kind = "error" -> Reported(r)
      [] OTHER -> r

Pieces(from, to) == [i \in 1 .. (to - from) |-> from + i]

\* A line whose head was dropped is not JSON.
Legible(left, line) == \E i \in DOMAIN left : left[i] = 2 * line.at - 1

\* The end of a line takes what is buffered with it; anything else is kept.
Fed(state, piece) ==
    LET line == sent[piece \div 2]
    IN IF piece % 2 = 1 THEN [state EXCEPT !.left = Append(@, piece)]
       ELSE [left |-> <<>>,
             reader |-> IF Legible(state.left, line) THEN Read(state.reader, line)
                        ELSE state.reader]

\* Anthropic's and Gemini's readers decode each chunk by itself, so a character
\* cut in two is lost; Ollama's keeps bytes.
Split(r, upto) ==
    IF dialect = "ollama" THEN r ELSE [r EXCEPT !.harmed = @ \cup {(upto + 1) \div 2}]

Chunk ==
    /\ status = "reading"
    /\ \E upto \in (arrived + 1) .. (2 * Len(sent)), inside \in BOOLEAN :
         LET fed == FoldLeft(Fed, [left |-> buf, reader |-> reader], Pieces(arrived, upto))
         IN /\ inside => upto % 2 = 1
            /\ arrived' = upto /\ buf' = fed.left
            /\ reader' = IF inside THEN Split(fed.reader, upto) ELSE fed.reader
            /\ status' = IF reader'.error THEN "failed" ELSE "reading"
    /\ UNCHANGED <<dialect, sent>>

\* The server closes the response: a piece left over is dropped.
Finish ==
    /\ status = "reading" /\ arrived = 2 * Len(sent)
    /\ status' = "finished"
    /\ UNCHANGED <<dialect, sent, arrived, buf, reader>>

\* The server closes in the middle of a line, or without its newline.
FinishShort ==
    /\ status = "reading" /\ arrived = 2 * Len(sent) - 1
    /\ status' = "finished"
    /\ UNCHANGED <<dialect, sent, arrived, buf, reader>>

\* The connection breaks (the error of stream.next), or the request failed.
Broken ==
    /\ status = "reading"
    /\ status' = "failed"
    /\ UNCHANGED <<dialect, sent, arrived, buf, reader>>

Server == AnthropicWrites \/ OthersWrite \/ NoiseWrites \/ ErrorWrites
Client == Chunk \/ Finish \/ FinishShort \/ Broken
Next == Server \/ Client
StreamSpec == Init /\ [][Next]_vars

\* --------------------------------------------------------------- properties

\* The fragments of a block's input since its start, up to line n.
Inputs(lines, b, start, n) ==
    FoldLeft(LAMBDA kept, i : IF /\ i > start /\ lines[i].block = b /\ lines[i].kind = "json"
                              THEN Append(kept, i) ELSE kept,
             <<>>, [i \in 1 .. n |-> i])

\* What a line says: a text its token; a stop of a tool's block the call that
\* block started, with the fragments of that block since; a whole call itself.
Said(lines, i) ==
    LET line == lines[i]
        begun == {j \in 1 .. (i - 1) : lines[j].block = line.block /\ lines[j].kind \in OpenKinds}
        start == CHOOSE j \in begun : \A k \in begun : k <= j
        earlier == {j \in 1 .. (i - 1) : lines[j].kind = "call"}
    IN CASE line.kind = "text" -> <<Token(line)>>
         [] line.kind = "call" -> <<Call(line.at, <<>>, Cardinality(earlier) + 1)>>
         [] line.kind = "stop" /\ lines[start].kind = "tool" ->
              <<Call(start, Inputs(lines, line.block, start, i), start)>>
         [] OTHER -> <<>>

Meaning(lines, n) == FlattenSeq([i \in 1 .. n |-> Said(lines, i)])

\* However the bytes are cut and the blocks overlap, the engine gets what the
\* whole lines say, each call once and with its own input, up to an error.
StepsAreSaid ==
    ~reader.error => reader.steps = Meaning(sent, arrived \div 2)

\* What drain_ndjson says of itself (a character split across two chunks still
\* decodes).  Refuted for Anthropic and Gemini.
CharactersSurvive == reader.harmed = {}

\* An error the server reports makes the turn fail.  Refuted for Anthropic and
\* Gemini: the event has no arm, and the turn ends as if it were complete.
FailuresSurface ==
    status = "finished" => \A i \in 1 .. (arrived \div 2) : sent[i].kind # "error"
=============================================================================

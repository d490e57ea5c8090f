----------------------------- MODULE MCOutside --------------------------------
(* What turya exchanges with the world outside, one kind at a time: with the *)
(* processes of its tools - a shell command, an MCP server, the language     *)
(* servers of a session - and with a model's server, the history sent and    *)
(* the answer streamed back.  They share no state, so `focus` says which of  *)
(* them a behaviour is about.                                                *)
EXTENDS BashCommand, Sequences

CONSTANTS Main, Callers, MaxId, MaxNoise, MaxQueries,
          Blocks, MaxLines, Names, Delegate, MaxCalls, MaxPasses

VARIABLES
    focus,
    stage, nextId, req, asked, lines, server, reader, noise, sent, dropped,
    step, n, alive, opened, diagnosis, left, slow,
    dialect, written, arrived, buf, parser, status,
    parts, passes, turn

Mcp == INSTANCE McpConnection
Lsp == INSTANCE LspQuery WITH out <- diagnosis
Stream == INSTANCE ProviderStreams WITH sent <- written, reader <- parser
History == INSTANCE WireHistory WITH phase <- turn

mcpVars == <<stage, nextId, req, asked, lines, server, reader, noise, sent, dropped>>
lspVars == <<step, n, alive, opened, diagnosis, left, slow>>
streamVars == <<written, arrived, buf, parser, status>>
historyVars == <<parts, passes, turn>>
modelVars == <<dialect, streamVars, historyVars>>
outsideVars == <<focus, vars, mcpVars, lspVars, modelVars>>

MCInit ==
    /\ focus \in {"bash", "mcp", "lsp", "stream", "history"}
    /\ Init /\ Mcp!Init /\ Lsp!Init /\ Stream!Init /\ History!Init
    /\ focus \notin {"stream", "history"} => dialect = "anthropic"

MCNext ==
    /\ UNCHANGED focus
    /\ \/ focus = "bash" /\ Next /\ UNCHANGED <<mcpVars, lspVars, modelVars>>
       \/ focus = "mcp" /\ Mcp!Next /\ UNCHANGED <<vars, lspVars, modelVars>>
       \/ focus = "lsp" /\ Lsp!Next /\ UNCHANGED <<vars, mcpVars, modelVars>>
       \/ /\ focus = "stream" /\ Stream!Next
          /\ UNCHANGED <<vars, mcpVars, lspVars, historyVars>>
       \/ /\ focus = "history" /\ History!Next
          /\ UNCHANGED <<vars, mcpVars, lspVars, streamVars>>

\* No fair action is enabled in a component that is not in focus.
MCSpec == MCInit /\ [][MCNext]_outsideVars /\ Fairness /\ Mcp!Fairness

\* A tool call returns its own answer, never a late one of a call that gave up
\* (Connection::request).
AnswersAreOwn == Mcp!AnswersAreOwn

\* Every call to a server ends, whatever the server does.
CallsSettle == Mcp!CallsSettle

\* Only the outer deadline leaves a language server running (query_server).
OnlyTimeoutsLeaveServers == Lsp!OnlyTimeoutsLeaveServers

\* The engine gets what the model's server said, however its bytes are cut
\* (generate_turn).
StepsAreSaid == focus = "stream" => Stream!StepsAreSaid

\* A model is told of its calls what happened (to_messages, wire_messages).
HistoryReadsBack == focus = "history" => History!HistoryReadsBack
=============================================================================

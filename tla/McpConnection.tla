--------------------------- MODULE McpConnection ---------------------------
(***************************************************************************)
(* One MCP server over its pipes (turya-mcp): the handshake of connect,    *)
(* the tool calls that share the connection, and its shutdown.             *)
(*                                                                         *)
(* A call takes a number, writes under the lock of stdin, and reads lines  *)
(* under the lock of rx, which it gives back after every line.  The waits  *)
(* block their thread: a killed turn's call goes on, so the next turn's    *)
(* call may run beside it.  A line of the channel is an answer to a        *)
(* numbered request, noise (a notification, or not JSON), or the end the   *)
(* reader thread puts there.                                               *)
(***************************************************************************)
EXTENDS Naturals, Sequences, FiniteSets

CONSTANTS
    Main,       \* the thread that starts the program: connect and tools_for
    Callers,    \* tasks that run tool calls
    MaxId,      \* bound: requests
    MaxNoise    \* bound: lines of the server that answer nothing

VARIABLES
    stage,   \* what main does with the server
    nextId,  \* Connection.next_id
    req,     \* every client's request
    asked,   \* requests the server has read and not answered
    lines,   \* the reader thread's channel
    server,  \* is the server's process alive?
    reader,  \* does the reader thread run?
    noise,   \* lines that answered nothing
    sent,    \* history: requests answered on the channel
    dropped  \* history: <<client, id>>: who skipped another request's answer

vars == <<stage, nextId, req, asked, lines, server, reader, noise, sent, dropped>>

Clients == {Main} \cup Callers
Outcomes == {"none", "result", "error", "exited", "timeout", "unwritten"}
Line == [kind : {"result", "error"}, id : Nat] \cup [kind : {"noise", "end"}]
Starting == {"initialize", "list", "describe"}

Quiet == [pc |-> "idle", id |-> 0, out |-> "none", from |-> 0, missed |-> FALSE]

Init ==
    /\ stage = "initialize" /\ nextId = 1
    /\ req = [c \in Clients |-> Quiet]
    /\ asked = {} /\ lines = <<>> /\ server = TRUE /\ reader = TRUE
    /\ noise = 0 /\ sent = {} /\ dropped = {}

-----------------------------------------------------------------------------
(* request. *)

\* Main asks while it starts; a call needs the handle tools_for made.
MayAsk(c) ==
    \/ c = Main /\ stage \in Starting
    \/ c \in Callers /\ stage = "serving"

NextNumber(n) == n + 1

TakeId(c) ==
    /\ MayAsk(c) /\ req[c].pc = "idle" /\ nextId <= MaxId
    /\ req' = [req EXCEPT ![c] = [Quiet EXCEPT !.pc = "numbered", !.id = nextId]]
    /\ nextId' = NextNumber(nextId)
    /\ UNCHANGED <<stage, asked, lines, server, reader, noise, sent, dropped>>

\* The pipe of a server that is gone breaks.
Write(c) ==
    /\ req[c].pc = "numbered"
    /\ IF server
       THEN /\ req' = [req EXCEPT ![c].pc = "waiting"]
            /\ asked' = asked \cup {req[c].id}
       ELSE /\ req' = [req EXCEPT ![c].pc = "over", ![c].out = "unwritten"]
            /\ UNCHANGED asked
    /\ UNCHANGED <<stage, nextId, lines, server, reader, noise, sent, dropped>>

LockRx(c) ==
    /\ req[c].pc = "waiting" /\ \A d \in Clients : req[d].pc # "reading"
    /\ req' = [req EXCEPT ![c].pc = "reading"]
    /\ UNCHANGED <<stage, nextId, asked, lines, server, reader, noise, sent, dropped>>

\* Mutant: any response is taken for the answer.
AnyAnswer(line, id) == line.kind \in {"result", "error"}

Answers(line, id) == line.kind \in {"result", "error"} /\ line.id = id

\* One turn of the loop that finds a line: the answer, the end, or a line to skip.
TakeLine(c) ==
    /\ req[c].pc = "reading" /\ lines # <<>>
    /\ lines' = Tail(lines)
    /\ LET line == Head(lines)
           skipped == line.kind \in {"result", "error"} /\ ~Answers(line, req[c].id)
       IN  /\ req' = [req EXCEPT ![c] =
                  IF Answers(line, @.id)
                  THEN [@ EXCEPT !.pc = "over", !.out = line.kind, !.from = line.id]
                  ELSE IF line.kind = "end" THEN [@ EXCEPT !.pc = "over", !.out = "exited"]
                  ELSE [@ EXCEPT !.pc = "waiting"]]
           /\ dropped' = IF skipped THEN dropped \cup {<<c, line.id>>} ELSE dropped
    /\ UNCHANGED <<stage, nextId, asked, server, reader, noise, sent>>

\* Mutant: the wait has no deadline.
NeverExpires(c) == FALSE

\* recv_timeout: the deadline passes on an empty channel with a sender.
Expires(c) == lines = <<>> /\ reader

Timeout(c) ==
    /\ req[c].pc = "reading" /\ Expires(c)
    /\ req' = [req EXCEPT ![c].pc = "over", ![c].out = "timeout",
                          ![c].missed = req[c].id \in sent]
    /\ UNCHANGED <<stage, nextId, asked, lines, server, reader, noise, sent, dropped>>

\* An empty channel without a sender.
Disconnected(c) ==
    /\ req[c].pc = "reading" /\ lines = <<>> /\ ~reader
    /\ req' = [req EXCEPT ![c].pc = "over", ![c].out = "exited"]
    /\ UNCHANGED <<stage, nextId, asked, lines, server, reader, noise, sent, dropped>>

\* execute returns; the task may be given another call.
Return(c) ==
    /\ c \in Callers /\ req[c].pc = "over"
    /\ req' = [req EXCEPT ![c] = Quiet]
    /\ UNCHANGED <<stage, nextId, asked, lines, server, reader, noise, sent, dropped>>

-----------------------------------------------------------------------------
(* connect, tools_for and shutdown. *)

\* A connection that is dropped kills its server; nothing was recorded of it.
GiveUp ==
    /\ stage \in {"initialize", "list"} /\ req[Main].pc = "over"
    /\ req[Main].out # "result" \/ (stage = "initialize" /\ ~server)
    /\ stage' = "failed" /\ server' = FALSE /\ asked' = {}
    /\ UNCHANGED <<nextId, req, lines, reader, noise, sent, dropped>>

\* The handshake goes on with `initialized`, which must still find the server.
Handshake ==
    /\ stage = "initialize" /\ req[Main].out = "result" /\ server
    /\ stage' = "list" /\ req' = [req EXCEPT ![Main] = Quiet]
    /\ UNCHANGED <<nextId, asked, lines, server, reader, noise, sent, dropped>>

Listed ==
    /\ stage = "list" /\ req[Main].out = "result"
    /\ stage' = "describe" /\ req' = [req EXCEPT ![Main] = Quiet]
    /\ UNCHANGED <<nextId, asked, lines, server, reader, noise, sent, dropped>>

\* tools_for lists again; without an answer the server stays and has no tools.
Described ==
    /\ stage = "describe" /\ req[Main].pc = "over"
    /\ stage' = IF req[Main].out = "result" THEN "serving" ELSE "toolless"
    /\ UNCHANGED <<nextId, req, asked, lines, server, reader, noise, sent, dropped>>

Shutdown ==
    /\ stage \in {"serving", "toolless"}
    /\ stage' = "closed" /\ server' = FALSE /\ asked' = {}
    /\ UNCHANGED <<nextId, req, lines, reader, noise, sent, dropped>>

-----------------------------------------------------------------------------
(* The server and the reader thread. *)

\* What the server prints is lost once the reader thread has ended.
Forwarded(line) == IF reader THEN Append(lines, line) ELSE lines

Answer(i, kind) ==
    /\ server /\ i \in asked
    /\ asked' = asked \ {i}
    /\ lines' = Forwarded([kind |-> kind, id |-> i])
    /\ sent' = IF reader THEN sent \cup {i} ELSE sent
    /\ UNCHANGED <<stage, nextId, req, server, reader, noise, dropped>>

Chatter ==
    /\ server /\ reader /\ noise < MaxNoise
    /\ noise' = noise + 1 /\ lines' = Forwarded([kind |-> "noise"])
    /\ UNCHANGED <<stage, nextId, req, asked, server, reader, sent, dropped>>

Exit ==
    /\ server
    /\ server' = FALSE /\ asked' = {}
    /\ UNCHANGED <<stage, nextId, req, lines, reader, noise, sent, dropped>>

\* End of file, or a line that is not UTF-8.
ReaderEnds ==
    /\ reader
    /\ \/ ~server /\ UNCHANGED noise
       \/ server /\ noise < MaxNoise /\ noise' = noise + 1
    /\ reader' = FALSE /\ lines' = Append(lines, [kind |-> "end"])
    /\ UNCHANGED <<stage, nextId, req, asked, server, sent, dropped>>

Settled ==
    /\ stage \in {"failed", "closed"} /\ ~server /\ ~reader
    /\ \A c \in Callers : req[c].pc = "idle"
    /\ UNCHANGED vars

RequestStep(c) ==
    TakeId(c) \/ Write(c) \/ LockRx(c) \/ TakeLine(c) \/ Timeout(c)
    \/ Disconnected(c) \/ Return(c)

MainStep == GiveUp \/ Handshake \/ Listed \/ Described \/ Shutdown

ServerStep ==
    \/ \E i \in asked, kind \in {"result", "error"} : Answer(i, kind)
    \/ Chatter \/ Exit \/ ReaderEnds

Next == (\E c \in Clients : RequestStep(c)) \/ MainStep \/ ServerStep \/ Settled

\* Threads run.  The lock of rx is not fair to one caller's attempt, but a call
\* that is ready again and again gets it.  Nothing is asked of the server.
Fairness ==
    \A c \in Clients :
        /\ WF_vars(Write(c)) /\ SF_vars(LockRx(c)) /\ WF_vars(Return(c))
        /\ WF_vars(TakeLine(c) \/ Timeout(c) \/ Disconnected(c))

Spec == Init /\ [][Next]_vars /\ Fairness

-----------------------------------------------------------------------------

TypeOK ==
    /\ stage \in Starting \cup {"serving", "toolless", "failed", "closed"}
    /\ nextId \in 1 .. MaxId + 1 /\ noise \in 0 .. MaxNoise
    /\ req \in [Clients -> [pc : {"idle", "numbered", "waiting", "reading", "over"},
                            id : Nat, out : Outcomes, from : Nat, missed : BOOLEAN]]
    /\ asked \subseteq Nat /\ lines \in Seq(Line) /\ {server, reader} \subseteq BOOLEAN
    /\ sent \subseteq Nat /\ dropped \subseteq Clients \X Nat

\* A call returns the answer to its own request, whatever late answers of
\* calls that gave up are still in the channel; and numbers are not shared.
AnswersAreOwn ==
    /\ \A c \in Clients : req[c].out \in {"result", "error"} => req[c].from = req[c].id
    /\ \A c, d \in Clients : c # d /\ req[c].pc # "idle" /\ req[d].pc # "idle"
                             => req[c].id # req[d].id

\* A call that times out although the server answered in time lost its answer
\* to another call that read the channel and skipped it; alone, it would not have.
LostOnlyToAnother ==
    \A c \in Clients : req[c].missed =>
        \E d \in Clients \ {c} : <<d, req[c].id>> \in dropped

\* Every call ends, answered or not, whatever the server does with finitely
\* many stray lines: the deadline bounds each wait, the reader's end the rest.
CallsSettle ==
    \A c \in Clients : req[c].pc \in {"numbered", "waiting", "reading"} ~> req[c].pc = "over"
=============================================================================

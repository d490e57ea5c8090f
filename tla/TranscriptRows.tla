----------------------------- MODULE TranscriptRows -----------------------------
(***************************************************************************)
(* The rows of the terminal client's transcript (turya-tui/src/lib.rs):    *)
(* what the events of a session append, the swap of the streamed text for  *)
(* its rendered block, the subagent views that Ctrl+E shows and hides, and *)
(* the cache of wrapped heights that is repaired from its first stale row. *)
(* A text is a sequence of tokens, each one column wide; 0 is any word that  *)
(* is not of a streamed answer.                                            *)
(***************************************************************************)
EXTENDS Integers, Sequences, SequencesExt

CONSTANTS
    MaxRows,     \* bound: rows of the transcript
    MaxTokens,   \* bound: tokens between two completed turns
    MaxViews,    \* MAX_SUBAGENT_VIEWS (32)
    MaxOutputs,  \* MAX_OUTPUT_ENTRIES (20)
    MaxChildren, \* bound: subagents of a session
    Widths       \* widths of the pane

VARIABLES
    transcript,   \* the rows
    streamStart,  \* index of the first streamed row, or None
    streaming,    \* the text streamed since the last turn that completed
    subagents,    \* the views kept, oldest first
    nextSubagent, \* next_subagent_id
    outputs,      \* tool_outputs: is it expanded?
    offsets,      \* row_offsets
    width,        \* row_offsets_width
    dirty,        \* row_offsets_dirty_from, or None
    heard         \* history: the tokens since the last turn that completed

cacheVars == <<offsets, width>>
rowVars == <<transcript, streamStart, streaming, subagents, nextSubagent, outputs,
             offsets, width, dirty, heard>>

None == -1

\* TLine: the streaming tells the assistant's undimmed rows from all others.
Row(voice, owner, text) == [voice |-> voice, owner |-> owner, text |-> text]
Mark(voice) == <<Row(voice, 0, <<0>>)>>

\* SubagentView: ids are handed out once; a silent child has no transcript.
View(id, long) == [id |-> id, long |-> long, expanded |-> FALSE]

Init ==
    /\ transcript = <<>> /\ streamStart = None /\ streaming = <<>>
    /\ subagents = <<>> /\ nextSubagent = 1 /\ outputs = <<>>
    /\ offsets = <<>> /\ width = 0 /\ dirty = 0
    /\ heard = <<>>

-----------------------------------------------------------------------------
(* The cache of wrapped heights. *)

\* invalidate_row_offsets_from: the first stale row only ever moves up.
Earlier(from) == IF dirty = None \/ from < dirty THEN from ELSE dirty

RowHeight(row, w) == IF row.text = <<>> THEN 1 ELSE (Len(row.text) + w - 1) \div w

\* The offsets of a transcript, worked out from nothing.
Exact(rows, w) ==
    FoldLeft(LAMBDA acc, row : Append(acc, Last(acc) + RowHeight(row, w)), <<0>>, rows)

\* ensure_row_offsets: where the repair starts, or None when nothing is stale.
StaleFrom(w) ==
    IF Len(offsets) # Len(transcript) + 1 \/ width # w THEN 0 ELSE dirty

\* The prefix up to the stale row is kept, the rest is rebuilt on it.
Repaired(from, w) ==
    LET start == IF from < Len(transcript) THEN from ELSE Len(transcript)
        kept == IF offsets = <<>> THEN <<0>>
                ELSE SubSeq(offsets, 1, IF start < Len(offsets) THEN start + 1 ELSE Len(offsets))
    IN  FoldLeft(LAMBDA acc, row : Append(acc, Last(acc) + RowHeight(row, w)), kept,
                 SubSeq(transcript, start + 1, Len(transcript)))

\* render and the page keys measure the transcript.
Measure ==
    \E w \in Widths :
        /\ width' = w
        /\ offsets' = IF StaleFrom(w) = None THEN offsets ELSE Repaired(StaleFrom(w), w)
        /\ dirty' = None
        /\ UNCHANGED <<transcript, streamStart, streaming, subagents, nextSubagent,
                       outputs, heard>>

-----------------------------------------------------------------------------
(* Rows that are appended. *)

Appended(rows) ==
    /\ Len(transcript) + Len(rows) <= MaxRows
    /\ transcript' = transcript \o rows
    /\ dirty' = Earlier(Len(transcript))

\* The user's prompts and submitted images, tool rows, notices and warnings,
\* toasts, the rule between turns: every handler that only logs.
Log(voice) ==
    /\ Appended(Mark(voice))
    /\ UNCHANGED <<streamStart, streaming, subagents, nextSubagent, outputs,
                   cacheVars, heard>>

\* retain_output keeps the newest outputs that were too long to show.
ToolOutput ==
    /\ Appended(Mark("other"))
    /\ outputs' = LET all == Append(outputs, FALSE)
                  IN  IF Len(all) > MaxOutputs THEN Tail(all) ELSE all
    /\ UNCHANGED <<streamStart, streaming, subagents, nextSubagent, cacheVars, heard>>

\* SubagentFinished: the oldest view makes room, its rows stay.
SubagentFinished ==
    /\ nextSubagent <= MaxChildren
    /\ \E long \in BOOLEAN :
           subagents' = LET all == Append(subagents, View(nextSubagent, long))
                        IN  IF Len(all) > MaxViews THEN Tail(all) ELSE all
    /\ nextSubagent' = nextSubagent + 1
    /\ Appended(Mark("other"))
    /\ UNCHANGED <<streamStart, streaming, outputs, cacheVars, heard>>

-----------------------------------------------------------------------------
(* A streamed answer. *)

ExtendsLast ==
    transcript # <<>> /\ Last(transcript).voice = "assistant"

\* Mutant: the copy of the answer starts over with each row.
StreamedRow(token) == IF ExtendsLast THEN Append(streaming, token) ELSE <<token>>

Streamed(token) == Append(streaming, token)

\* Mutant: the rows after the extended one count as stale, it does not.
StaleAfterToken == Len(transcript)

StaleByToken == IF ExtendsLast THEN Len(transcript) - 1 ELSE Len(transcript)

\* push_text: the first token of an answer notes where its rows begin.
TokenDelta ==
    LET token == Len(heard) + 1
    IN  /\ token <= MaxTokens
        /\ heard' = Append(heard, token)
        /\ streaming' = Streamed(token)
        /\ streamStart' =
               IF streamStart # None THEN streamStart
               ELSE IF ExtendsLast THEN Len(transcript) - 1 ELSE Len(transcript)
        /\ dirty' = Earlier(StaleByToken)
        /\ IF ExtendsLast
           THEN transcript' = [transcript EXCEPT ![Len(transcript)].text = Append(@, token)]
           ELSE /\ Len(transcript) < MaxRows
                /\ transcript' = Append(transcript, Row("assistant", 0, <<token>>))
        /\ UNCHANGED <<subagents, nextSubagent, outputs, cacheVars>>

\* render_markdown: the same words in one row or in several.
Rendered(text) ==
    {<<Row("assistant", 0, text)>>}
        \cup {<<Row("assistant", 0, SubSeq(text, 1, i)),
               Row("assistant", 0, SubSeq(text, i + 1, Len(text)))>> : i \in 1 .. Len(text) - 1}

\* TurnCompleted: finish_streaming_answer cuts at the noted row, whatever the
\* rows after it are by now, and the rule closes the turn.
TurnCompleted ==
    /\ streamStart' = None
    /\ streaming' = <<>>
    /\ heard' = <<>>
    /\ IF streamStart # None /\ streaming # <<>>
       THEN LET kept == IF streamStart < Len(transcript)
                        THEN SubSeq(transcript, 1, streamStart) ELSE transcript
            IN  /\ \E block \in Rendered(streaming) :
                       /\ Len(kept) + Len(block) < MaxRows
                       /\ transcript' = kept \o block \o Mark("other")
                /\ dirty' = Earlier(Len(kept))
       ELSE Appended(Mark("other"))
    /\ UNCHANGED <<subagents, nextSubagent, outputs, cacheVars>>

-----------------------------------------------------------------------------
(* What the user shows and hides. *)

\* /clear forgets the rows and nothing else.
Clear ==
    /\ transcript' = <<>>
    /\ dirty' = Earlier(0)
    /\ UNCHANGED <<streamStart, streaming, subagents, nextSubagent, outputs,
                   cacheVars, heard>>

\* load_transcript: a resumed session replaces the rows.
SessionResumed ==
    /\ \E last \in {"assistant", "other"} : transcript' = Mark("other") \o Mark(last)
    /\ dirty' = Earlier(0)
    /\ UNCHANGED <<streamStart, streaming, subagents, nextSubagent, outputs,
                   cacheVars, heard>>

Expandable == {i \in DOMAIN subagents : subagents[i].long}
Newest == CHOOSE i \in Expandable : \A j \in Expandable : j <= i

Shown(i) == [subagents EXCEPT ![i].expanded = TRUE]

\* toggle_subagent shows the newest view that has something to show.
Expand ==
    /\ Expandable # {} /\ ~subagents[Newest].expanded
    /\ Appended(Mark("other") \o <<Row("other", subagents[Newest].id, <<0>>)>>)
    /\ subagents' = Shown(Newest)
    /\ UNCHANGED <<streamStart, streaming, nextSubagent, outputs, cacheVars, heard>>

\* Vec::retain.
Without(rows, id) ==
    FoldLeft(LAMBDA kept, row : IF row.owner = id THEN kept ELSE Append(kept, row), <<>>, rows)

\* It is hidden again by the owner of its rows, wherever they are by now.
Collapse ==
    /\ Expandable # {} /\ subagents[Newest].expanded
    /\ transcript' = Without(transcript, subagents[Newest].id) \o Mark("other")
    /\ Len(transcript') <= MaxRows
    /\ dirty' = Earlier(0)
    /\ subagents' = [subagents EXCEPT ![Newest].expanded = FALSE]
    /\ UNCHANGED <<streamStart, streaming, nextSubagent, outputs, cacheVars, heard>>

Folded == {i \in DOMAIN outputs : ~outputs[i]}

\* expand_last_output: without such a view, the newest output not yet shown.
ExpandOutput ==
    /\ Expandable = {} /\ Folded # {}
    /\ outputs' = [outputs EXCEPT ![CHOOSE i \in Folded : \A j \in Folded : j <= i] = TRUE]
    /\ Appended(Mark("other") \o Mark("assistant"))
    /\ UNCHANGED <<streamStart, streaming, subagents, nextSubagent, cacheVars, heard>>

\* submit_prompt at any time: a turn that runs queues the prompt.
Submit == Log("other")

User == Submit \/ Clear \/ Expand \/ Collapse \/ ExpandOutput

Server ==
    \/ \E voice \in {"other", "assistant"} : Log(voice)
    \/ ToolOutput \/ SubagentFinished \/ TokenDelta \/ TurnCompleted \/ SessionResumed

Next == User \/ Server \/ Measure

RowsSpec == Init /\ [][Next]_rowVars

-----------------------------------------------------------------------------

\* The rows before the first stale one have exact heights, so a repair that
\* starts there measures the whole transcript right (ensure_row_offsets); no
\* append, swap, removal or change of width slips past the cache.
HeightsAreExact ==
    \A w \in Widths :
        Repaired(IF StaleFrom(w) = None THEN Len(transcript) ELSE StaleFrom(w), w)
            = Exact(transcript, w)

\* A child's rows are in the transcript at most once, and only while its view
\* says so, unless the view itself made room for others (toggle_subagent).
ShownOnce ==
    \A id \in 1 .. nextSubagent - 1 :
        LET owned == {i \in DOMAIN transcript : transcript[i].owner = id}
        IN  /\ \A i, j \in owned : i = j
            /\ owned # {} => \A k \in DOMAIN subagents :
                                 subagents[k].id = id => subagents[k].expanded

\* The rows on the screen are those of the transcript and of its views.
RowsAreTrue == HeightsAreExact /\ ShownOnce

Words(rows) == FlattenSeq([i \in DOMAIN rows |-> rows[i].text])

\* When a turn completes, every token streamed since the last one that did
\* stands at the end of the transcript, in order, whatever was logged, cleared,
\* collapsed or resumed in between (finish_streaming_answer).
AnswerIsWhole ==
    [][heard # <<>> /\ heard' = <<>> => IsSuffix(Append(heard, 0), Words(transcript'))]_rowVars

\* "The text is identical; only its structure changes, so nothing is lost":
\* completing a turn removes no row but those of the streamed answer.
NothingIsLost ==
    [][heard # <<>> /\ heard' = <<>> =>
        Len(SelectSeq(transcript', LAMBDA row : row.voice = "other"))
            > Len(SelectSeq(transcript, LAMBDA row : row.voice = "other"))]_rowVars
=============================================================================

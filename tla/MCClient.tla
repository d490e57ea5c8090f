------------------------------- MODULE MCClient -------------------------------
(* The terminal client, checked one part at a time: what it shows of its     *)
(* lists, the rows of its transcript, the prompt and its keyboard, and what  *)
(* it shows of the host and the session.  A part reads nothing of the others *)
(* that this model keeps, so `focus` says which of them a behaviour is       *)
(* about.                                                                    *)
EXTENDS Naturals

CONSTANTS Height, MaxRows, Notch, Page, MaxBatch, Window, MaxItems,
          MaxLines, MaxTokens, MaxViews, MaxOutputs, MaxChildren, Widths,
          MaxInput, MaxPrompts,
          CmdCap, InboxCap, EventCap, Scalars, Values, MaxTyped

\* Sizes are numbers, a pane has a column and a window a row, and no setting
\* with one value is called the theme.
ASSUME ClientAssumption ==
    /\ Height \in Nat /\ MaxRows \in Nat /\ Notch \in Nat /\ Page \in Nat
    /\ MaxBatch \in Nat
    /\ Widths \subseteq Nat \ {0}
    /\ Window \in Nat \ {0} /\ MaxItems \in Nat /\ MaxPrompts \in Nat
    /\ "theme" \notin Scalars

VARIABLES
    focus,
    rows, view, list, did,
    transcript, streamStart, streaming, subagents, nextSubagent, outputs,
    offsets, width, dirty, heard,
    input, draft, cursor, history, picker, attachments, completer, flow, wanted,
    pending, aborting, begun,
    status, shown, sending, cmds, inbox, events, saved, unsaved, queue, slot,
    task, reinject, done, turns, typed, late

View == INSTANCE TranscriptView
Rows == INSTANCE TranscriptRows WITH MaxRows <- MaxLines
Editor == INSTANCE PromptEditor
Status == INSTANCE ClientStatus

mcViewVars == <<rows, view, list, did>>
mcRowVars == <<transcript, streamStart, streaming, subagents, nextSubagent, outputs,
               offsets, width, dirty, heard>>
mcEditorVars == <<input, draft, cursor, history, picker, attachments, completer,
                  flow, wanted, pending, aborting, begun>>
mcStatusVars == <<status, shown, sending, cmds, inbox, events, saved, unsaved, queue,
                  slot, task, reinject, done, turns, typed, late>>
clientVars == <<focus, mcViewVars, mcRowVars, mcEditorVars, mcStatusVars>>

MCInit ==
    /\ focus \in {"view", "rows", "editor", "status"}
    /\ View!Init /\ Rows!Init /\ Editor!Init /\ Status!Init

MCNext ==
    /\ UNCHANGED focus
    /\ \/ /\ focus = "view" /\ View!Next
          /\ UNCHANGED <<mcRowVars, mcEditorVars, mcStatusVars>>
       \/ /\ focus = "rows" /\ Rows!Next
          /\ UNCHANGED <<mcViewVars, mcEditorVars, mcStatusVars>>
       \/ /\ focus = "editor" /\ Editor!Next
          /\ UNCHANGED <<mcViewVars, mcRowVars, mcStatusVars>>
       \/ /\ focus = "status" /\ Status!Next
          /\ UNCHANGED <<mcViewVars, mcRowVars, mcEditorVars>>

MCSpec == MCInit /\ [][MCNext]_clientVars

\* Only the user moves the rows of a user who reads back (Viewport::update).
ReaderUndisturbed == View!ReaderUndisturbed

\* A squashed batch of notches moves the view like the notches (squash), and
\* the selected item of a list is among the rows shown (follow, popup_rows).
ScrollingIsFaithful == focus = "view" => View!ScrollingIsFaithful

\* No append, swap, removal or resize slips past the cache of wrapped heights,
\* and a child's rows are shown at most once and only while its view says so
\* (ensure_row_offsets, toggle_subagent).
RowsAreTrue == focus = "rows" => Rows!RowsAreTrue

\* A turn that completes shows every token it streamed, in order
\* (finish_streaming_answer).
AnswerIsWhole == Rows!AnswerIsWhole

\* The end of a walk through the prompts brings back the draft (recall_newer).
DraftComesBack == Editor!DraftComesBack

\* A recalled prompt is the recorded one, but for new lines, and the picker and
\* the completer fit the text they were opened on (recall_older, on_key).
PromptIsSound == focus = "editor" => Editor!PromptIsSound

\* Once everything has been heard, the count, the spinner and the settings the
\* client shows are those of the session and the file (feed_flow_event).
StatusSettles == focus = "status" => Status!StatusSettles
=============================================================================

------------------------------ MODULE PromptEditor ------------------------------
(***************************************************************************)
(* The keyboard of the terminal client (turya-tui: on_key and what it      *)
(* calls): the prompt and its recall, the file picker on an @word, the     *)
(* slash completer, and the dialogs and permission prompts that take the   *)
(* keys away from them.  A text is a sequence of characters of which only  *)
(* four kinds matter: "a" (any letter), "@", "/" and " " (any blank).      *)
(***************************************************************************)
EXTENDS Integers, Sequences, SequencesExt

CONSTANTS
    MaxInput,  \* bound: characters typed into the prompt
    MaxPrompts \* MAX_PROMPT_HISTORY (500)

VARIABLES
    input,       \* the draft, or what was recalled over it
    draft,       \* stashed_draft
    cursor,      \* history_cursor, 0 for None
    history,     \* prompt_history, oldest first
    picker,      \* at_completer: where the word starts, 0 for None
    attachments, \* staged files
    completer,   \* is the slash completer open?
    flow,        \* the open dialog
    wanted,      \* pending_auth: a provider /auth was asked for
    pending,     \* is a permission prompt open?
    aborting,    \* did the last step send AbortTurn?
    begun        \* history: the draft when the walk through the prompts began

overlays == <<picker, completer, flow, wanted, pending>>
recall == <<draft, cursor, history, begun>>
editorVars == <<input, recall, attachments, overlays, aborting>>

\* A space, the letter that trimming and @ words look at.
Blank == " "
Letters == {"a", Blank}

Init ==
    /\ input = <<>> /\ draft = <<>> /\ cursor = 0 /\ history = <<>>
    /\ picker = 0 /\ attachments = 0 /\ completer = FALSE /\ flow = "none"
    /\ wanted = FALSE /\ pending = FALSE /\ aborting = FALSE /\ begun = <<>>

-----------------------------------------------------------------------------
(* Texts. *)

Dropped(text) == IF text = <<>> THEN <<>> ELSE Front(text)

Solid(text) == {i \in DOMAIN text : text[i] # Blank}

Trimmed(text) ==
    IF Solid(text) = {} THEN <<>>
    ELSE SubSeq(text, CHOOSE i \in Solid(text) : \A j \in Solid(text) : i <= j,
                      CHOOSE i \in Solid(text) : \A j \in Solid(text) : i >= j)

Ats(text) == {i \in DOMAIN text : text[i] = "@"}
LastAt(text) == CHOOSE i \in Ats(text) : \A j \in Ats(text) : j <= i

\* at_candidates: one file, whose name is one letter, contains the word.
HasCandidate(word) == word = <<>> \/ word = <<"a">>

\* current_at_word: the word after the last @ that follows a blank.
AtWord(text) ==
    LET at == LastAt(text)
    IN  IF Ats(text) # {} /\ (at = 1 \/ text[at - 1] = Blank)
           /\ HasCandidate(SubSeq(text, at + 1, Len(text)))
        THEN at + 1 ELSE 0

-----------------------------------------------------------------------------
(* Who owns the keyboard. *)

Editing == ~pending /\ flow = "none" /\ ~completer
Completing == ~pending /\ flow = "none" /\ completer

\* The other commands change nothing here until the host's events come back.
NoAbort == aborting' = FALSE

\* Mutant: typing does not end the walk through the prompts.
CursorAfterTyping == cursor

\* on_input_edited: an edit makes the recalled prompt a draft of its own.
CursorAfterEdit == 0

PickerFor(text) == AtWord(text)

Edited(text) ==
    /\ input' = text
    /\ cursor' = CursorAfterEdit
    /\ NoAbort
    /\ UNCHANGED <<draft, history, begun, attachments, completer, flow, wanted, pending>>

-----------------------------------------------------------------------------
(* Typing a prompt. *)

TypeAt ==
    /\ Editing /\ Len(input) < MaxInput
    /\ picker' = PickerFor(Append(input, "@"))
    /\ Edited(Append(input, "@"))

TypeLetter ==
    /\ Editing /\ Len(input) < MaxInput
    /\ \E c \in Letters :
           /\ picker' = IF picker = 0 THEN 0 ELSE PickerFor(Append(input, c))
           /\ Edited(Append(input, c))

Backspace ==
    /\ Editing
    /\ LET text == Dropped(input)
       IN  /\ picker' = IF picker = 0 \/ (text # <<>> /\ Last(text) = "@") THEN 0
                        ELSE PickerFor(text)
           /\ Edited(text)

\* Alt+Enter does not end the walk.
NewLine ==
    /\ Editing /\ picker = 0 /\ Len(input) < MaxInput
    /\ input' = Append(input, Blank)
    /\ NoAbort
    /\ UNCHANGED <<recall, attachments, overlays>>

\* accept_at_completion: Tab or Enter stages the file, which may be gone.
Accept ==
    /\ Editing /\ picker # 0
    /\ input' = SubSeq(input, 1, picker - 1) \o <<"a">>
    /\ picker' = 0
    /\ attachments' \in {attachments, 1}
    /\ NoAbort
    /\ UNCHANGED <<recall, completer, flow, wanted, pending>>

\* push_history: an immediate repeat is not recorded.
Recorded(prompt) ==
    LET text == Trimmed(prompt)
        all == IF history # <<>> /\ Last(history) = text THEN history ELSE Append(history, text)
    IN  IF Len(all) > MaxPrompts THEN Tail(all) ELSE all

\* submit_prompt takes the draft and the staged files.
Submitted ==
    /\ history' = Recorded(input)
    /\ cursor' = 0
    /\ draft' = <<>>
    /\ input' = <<>>
    /\ attachments' = 0
    /\ NoAbort
    /\ UNCHANGED <<picker, flow, wanted, pending, begun>>

Submit == Editing /\ picker = 0 /\ Trimmed(input) # <<>> /\ Submitted /\ UNCHANGED completer

-----------------------------------------------------------------------------
(* Recall. *)

\* Mutant: each step of the walk stashes what it leaves.
StashedAlways == input

Stashed == IF cursor = 0 THEN input ELSE draft

\* recall_older: the first step stashes the draft.
RecallOlder ==
    /\ Editing /\ picker = 0 /\ history # <<>>
    /\ draft' = Stashed
    /\ begun' = IF cursor = 0 THEN input ELSE begun
    /\ cursor' = CASE cursor = 0 -> Len(history) [] cursor = 1 -> 1 [] OTHER -> cursor - 1
    /\ input' = history[cursor']
    /\ NoAbort
    /\ UNCHANGED <<history, attachments, overlays>>

\* recall_newer: past the newest prompt the draft comes back.
RecallNewer ==
    /\ Editing /\ picker = 0 /\ cursor # 0
    /\ IF cursor < Len(history)
       THEN cursor' = cursor + 1 /\ input' = history[cursor + 1] /\ UNCHANGED draft
       ELSE cursor' = 0 /\ input' = draft /\ draft' = <<>>
    /\ NoAbort
    /\ UNCHANGED <<history, begun, attachments, overlays>>

-----------------------------------------------------------------------------
(* The slash completer. *)

OpenCompleter ==
    /\ Editing /\ input = <<>>
    /\ completer' = TRUE
    /\ input' = <<"/">>
    /\ NoAbort
    /\ UNCHANGED <<recall, attachments, picker, flow, wanted, pending>>

CompleterType ==
    /\ Completing /\ Len(input) < MaxInput
    /\ \E c \in Letters \cup {"@"} : input' = Append(input, c)
    /\ NoAbort
    /\ UNCHANGED <<recall, attachments, overlays>>

OpenOn(text) == text # <<>>

CompleterErase ==
    /\ Completing
    /\ input' = Dropped(input)
    /\ completer' = OpenOn(input')
    /\ NoAbort
    /\ UNCHANGED <<recall, attachments, picker, flow, wanted, pending>>

\* A bare / is a prompt like any other.
CompleterSubmit == Completing /\ Trimmed(input) = <<"/">> /\ Submitted /\ completer' = FALSE

\* dispatch_slash: /models and /auth open the browser and ask for the list,
\* /auth <provider> notes whom it wants; the others act on no overlay.
Dispatch ==
    /\ Completing /\ Trimmed(input) # <<"/">>
    /\ completer' = FALSE
    /\ input' = <<>>
    /\ \/ UNCHANGED <<flow, wanted>>
       \/ flow' = "browser" /\ UNCHANGED wanted
       \/ flow' = "browser" /\ wanted' = TRUE
    /\ NoAbort
    /\ UNCHANGED <<recall, attachments, picker, pending>>

-----------------------------------------------------------------------------
(* Esc, dialogs and permission prompts. *)

EscClosesCompleter ==
    /\ completer
    /\ completer' = FALSE
    /\ NoAbort
    /\ UNCHANGED <<input, recall, attachments, picker, flow, wanted, pending>>

EscClosesFlow ==
    /\ ~completer /\ flow # "none"
    /\ flow' = "none"
    /\ NoAbort
    /\ UNCHANGED <<input, recall, attachments, picker, completer, wanted, pending>>

\* esc_action does not look at the picker.
EscAborts ==
    /\ ~completer /\ flow = "none" /\ ~pending
    /\ aborting' = TRUE
    /\ UNCHANGED <<input, recall, attachments, overlays>>

\* Any key but Esc takes the prompt away; y and n answer it.
ModalKey ==
    /\ pending
    /\ pending' = FALSE
    /\ NoAbort
    /\ UNCHANGED <<input, recall, attachments, picker, completer, flow, wanted>>

\* handle_flow_key: a provider's dialog, a model chosen, a flow that is done.
FlowKey ==
    /\ ~pending /\ flow # "none"
    /\ \/ flow = "browser" /\ flow' = "auth"
       \/ flow = "browser" /\ flow' = "none"
       \/ flow = "auth" /\ flow' = "none"
    /\ NoAbort
    /\ UNCHANGED <<input, recall, attachments, picker, completer, wanted, pending>>

PermissionRequested ==
    /\ pending' = TRUE
    /\ NoAbort
    /\ UNCHANGED <<input, recall, attachments, picker, completer, flow, wanted>>

\* The list opens the wanted provider's dialog, whatever is open by now.
ProvidersListed ==
    /\ wanted
    /\ wanted' = FALSE
    /\ flow' \in {flow, "auth"}
    /\ NoAbort
    /\ UNCHANGED <<input, recall, attachments, picker, completer, pending>>

Esc == EscClosesCompleter \/ EscClosesFlow \/ EscAborts

Next ==
    \/ TypeAt \/ TypeLetter \/ Backspace \/ NewLine \/ Accept \/ Submit
    \/ RecallOlder \/ RecallNewer
    \/ OpenCompleter \/ CompleterType \/ CompleterErase \/ CompleterSubmit \/ Dispatch
    \/ Esc \/ ModalKey \/ FlowKey \/ PermissionRequested \/ ProvidersListed

EditorSpec == Init /\ [][Next]_editorVars

-----------------------------------------------------------------------------

\* While the cursor is on a prompt, the input is that prompt with nothing but
\* new lines added: every other key either walks or makes it a draft
\* (recall_older, on_input_edited).
RecallIsPure ==
    cursor # 0 =>
        /\ cursor \in DOMAIN history
        /\ IsPrefix(history[cursor], input)
        /\ Solid(SubSeq(input, Len(history[cursor]) + 1, Len(input))) = {}

\* However far the walk went, and whatever dialogs came in between, its end
\* brings back the text that was in the box when it began (recall_newer).
DraftComesBack == [][RecallNewer /\ cursor' = 0 => input' = begun]_editorVars

\* What is open over the prompt fits the text in it: the picker's word starts
\* after an @ that begins a word, so accepting replaces that word and no other
\* text; the completer's text is a command.  At most one of the two is open,
\* and never over a recalled prompt (on_key).
OverlaysFitTheText ==
    /\ picker # 0 => /\ picker = AtWord(input)
                     /\ ~completer /\ cursor = 0
    /\ completer => input # <<>> /\ input[1] = "/" /\ cursor = 0

\* The text in the box is the recalled prompt or a draft, and what is open over
\* it belongs to it.
PromptIsSound == RecallIsPure /\ OverlaysFitTheText

\* "it unwinds UI state, then stops the running turn": Esc does not abort the
\* turn while something is open over the prompt.
EscUnwindsFirst == [][EscAborts => picker = 0]_editorVars
=============================================================================

--------------------------- MODULE TranscriptView ---------------------------
(***************************************************************************)
(* What the terminal client shows of its lists (turya-tui): the viewport   *)
(* over the transcript (scroll.rs), the coalescing of wheel notches        *)
(* (input.rs) and the windowed lists of the browser and the command popup  *)
(* (flows.rs, slash.rs).  Only row numbers matter.                         *)
(***************************************************************************)
EXTENDS Integers, Sequences, SequencesExt

CONSTANTS
    Height,    \* rows of the transcript's pane
    MaxRows,   \* bound: rows of the transcript
    Notch,     \* WHEEL_LINES (3)
    Page,      \* rows of PageUp and PageDown (10)
    MaxBatch,  \* bound: notches in one batch of input
    Window,    \* BROWSER_VISIBLE_ROWS (8), POPUP_ROWS (7)
    MaxItems   \* bound: items of a list

VARIABLES
    rows,  \* wrapped rows of the transcript
    view,  \* the Viewport
    list,  \* a pane of the browser: its length, selection and offset
    did    \* who took the last step

vars == <<rows, view, list, did>>

AtMost(n, max) == IF n > max THEN max ELSE n
AtLeast(n, min) == IF n < min THEN min ELSE n

\* render: the largest top row that leaves no empty row below.
MaxTop(n) == AtLeast(n - Height, 0)

Init ==
    /\ rows = 0
    /\ view = [offset |-> 0, max |-> 0, follow |-> TRUE]
    /\ list = [len |-> 0, sel |-> 0, offset |-> 0]
    /\ did = "draw"

-----------------------------------------------------------------------------
(* Viewport. *)

\* Mutant: what was read last is forgotten when the content grows.
UpdatedFromBottom(v, max) ==
    [v EXCEPT !.max = max,
              !.offset = IF v.follow THEN max ELSE AtLeast(@ + max - v.max, 0)]

\* A held viewport keeps its row, a following one the bottom.
Updated(v, max) ==
    [v EXCEPT !.max = max, !.offset = IF v.follow THEN max ELSE AtMost(@, max)]

\* A tick that cannot move the viewport changes nothing.
Stuck(v, delta) == delta = 0 \/ (delta > 0 /\ v.follow) \/ (delta < 0 /\ v.offset = 0)

\* Reaching the newest row resumes following; any other movement ends it.
Moved(v, delta) ==
    LET from == IF v.follow THEN v.max ELSE v.offset
        to == AtMost(AtLeast(from + delta, 0), v.max)
    IN  [v EXCEPT !.offset = to, !.follow = to >= v.max]

Scrolled(v, delta) == IF Stuck(v, delta) THEN v ELSE Moved(v, delta)

PinnedToBottom(v) == [v EXCEPT !.follow = TRUE, !.offset = v.max]
Held(v) == [v EXCEPT !.follow = FALSE, !.offset = v.max]

-----------------------------------------------------------------------------
(* squash: a batch of notches (1 down, -1 up) as runs. *)

SameDirection(a, b) == (a < 0) <=> (b < 0)

\* Mutant: a change of direction does not end the run.
MergedWithAll(runs, notch) ==
    IF runs = <<>> THEN <<notch>> ELSE <<Last(runs) + notch>>

\* The next notch continues the last run or starts one.
WithNotch(runs, notch) ==
    IF runs # <<>> /\ SameDirection(Last(runs), notch)
    THEN Append(Front(runs), Last(runs) + notch)
    ELSE Append(runs, notch)

Notches(batch) == [i \in DOMAIN batch |-> Notch * batch[i]]
Squashed(batch) == FoldLeft(WithNotch, <<>>, Notches(batch))
ScrolledBy(v, deltas) == FoldLeft(Scrolled, v, deltas)

-----------------------------------------------------------------------------
(* BrowserFlow: one pane. *)

\* follow: the window moves as little as keeps the selection in it.
Follow(offset, sel, len) ==
    LET moved == IF sel < offset THEN sel
                 ELSE IF sel >= offset + Window THEN sel + 1 - Window ELSE offset
    IN  AtMost(moved, AtLeast(len - Window, 0))

\* move_prov and move_model wrap around.
Selected(l, delta) ==
    IF l.len = 0 THEN l
    ELSE LET sel == (l.sel + delta) % l.len
         IN  [l EXCEPT !.sel = sel, !.offset = Follow(l.offset, sel, l.len)]

\* set_query and set_providers start at the top of a list of another length.
Relisted(n) == [len |-> n, sel |-> 0, offset |-> 0]

\* popup_rows: the first row shown.
PopupStart(sel) == AtLeast(sel - (Window - 1), 0)

-----------------------------------------------------------------------------

\* New output, a collapsed block, a cleared transcript or a resize.
Output ==
    /\ \E n \in 0 .. MaxRows : rows' = n
    /\ did' = "output"
    /\ UNCHANGED <<view, list>>

\* One frame for every batch of events.
Draw ==
    /\ view' = Updated(view, MaxTop(rows))
    /\ did' = "draw"
    /\ UNCHANGED <<rows, list>>

Look(v) == view' = v /\ did' = "user" /\ UNCHANGED <<rows, list>>

\* The wheel over the transcript; a notch is a batch of one.
Wheel == \E b \in {<<1>>, <<-1>>} : Look(ScrolledBy(view, Squashed(b)))

PageKey == \E delta \in {Page, -Page} : Look(Scrolled(view, delta))

\* End, a submitted prompt, a turn that starts, auto_scroll on.
ToBottom == Look(PinnedToBottom(view))

\* auto_scroll off.
Hold == Look(Held(view))

Pick(l) == list' = l /\ did' = "user" /\ UNCHANGED <<rows, view>>

Move == \E delta \in {1, -1} : Pick(Selected(list, delta))
Relist == \E n \in 0 .. MaxItems : Pick(Relisted(n))

Next == Output \/ Draw \/ Wheel \/ PageKey \/ ToBottom \/ Hold \/ Move \/ Relist

Spec == Init /\ [][Next]_vars

-----------------------------------------------------------------------------

\* Output never moves the row of a user who reads back: while the viewport is
\* held and its row still exists, only the user moves it (scroll.rs).
ReaderUndisturbed ==
    [][did' # "user" /\ ~view.follow /\ view.offset <= MaxTop(rows')
        => view'.offset = view.offset /\ ~view'.follow]_vars

\* A batch of notches has the same effect whether it is squashed or not, in
\* every state of the viewport, at its edges too (input.rs); a viewport that
\* follows is at the bottom it knows.
SquashIsFaithful ==
    /\ \A batch \in UNION {[1 .. n -> {1, -1}] : n \in 0 .. MaxBatch} :
           ScrolledBy(view, Squashed(batch)) = ScrolledBy(view, Notches(batch))
    /\ view.follow => view.offset = view.max

\* The selected item of a list is always among the rows shown, and no row is
\* wasted past the end (flows.rs, slash.rs).
SelectionIsShown ==
    /\ list.len > 0 => /\ list.sel \in list.offset .. list.offset + Window - 1
                       /\ list.offset <= AtLeast(list.len - Window, 0)
    /\ list.sel \in PopupStart(list.sel) .. PopupStart(list.sel) + Window - 1

\* The wheel does what its notches do, and lists keep their selection in view.
ScrollingIsFaithful == SquashIsFaithful /\ SelectionIsShown
=============================================================================

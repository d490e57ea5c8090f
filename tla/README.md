# A verification model of turya

turya is a terminal agent harness: a session loop takes prompts, an engine runs
each prompt as a *turn* (model calls, tool calls, subagents), the user consents
to tools, and the conversation is kept in a SQLite log. This directory holds
TLA+ models of the parts where ordering, concurrency and failure decide whether
that works, the TLC runs that check them on small instances, and TLAPS proofs of
the properties that matter most. Paths below are relative to `src/crates/`.

Run one configuration with `tlc -config <run>.cfg <MC module>` and one proof
module with `tlapm <Module>_proofs.tla`; `PROJECT.json` lists which run uses
which module, the source lines behind every definition, the mutants that each
property must catch, the hazards, the findings and the theorems.

## 1. Inventory

| Component | Source | State it keeps | Operations | Talks to |
|---|---|---|---|---|
| Session loop | `turya-server/src/lib.rs` | queue, active turn, turn counter, the decision channel of the turn started last | SubmitPrompt, QueuePrompt, ClearQueue, AbortTurn, ResolvePermission; completion reports; a channel to itself | client (commands, events), task registry, engine |
| Task registry | `turya-core/src/tasks.rs` | key -> task handle, tree of prefixes | insert, abort_tree, reap, drain_all | session loop, Tokio |
| Turn loop | `turya-core/src/engine.rs` (`run_turn_at`, `run_pass`, `start_subagent`) | transcript of the turn, passes, executions, `last_call`, children of a pass | passes, budgets, delegation, join, summary pass, store | provider, tools, consent, session log |
| Consent | `turya-core/src/permissions.rs`, `engine.rs` (`execute_tool_call`) | mode, tools allowed for the session; per turn: map of waiters, closed flag | check, register, resolve, forget, dispatcher | session loop, client, turn loop |
| Context and compaction | `engine.rs` (`maybe_compact`, `compact`), `turya-core/src/context.rs` | failure counter, context budget, deferred flag | weigh, prune, summarise, keep the tail; `/compact` | provider, log, host |
| Session log | `turya-memory/src/lib.rs` | `sessions` and `turns` tables | append_turn, load_transcript with repair | engine, host, other processes |
| Store opening | `turya-memory/src/lib.rs` (`open`, `init`) | `turya.db`, its side files, its backups | probe, move aside, create, tag | other processes |
| Command host | `turya-cli/src/host_services.rs`, `main.rs` | engine configuration, selection, settings | switch model, effort, mode, settings, listing, sessions | engine, credentials, catalog, client |
| Model catalog | `turya-catalog/src/lib.rs`, `host_services.rs` (`ListProviders`) | disk cache per provider | list, merge, gate of a switch | provider servers, models.dev, credentials |
| Authentication flows | `host_services.rs`, `turya-auth/src/oauth.rs`, `turya-tui` (Auth dialog) | pending flows, browser tasks, the dialog | begin, submit, cancel, callback, exchange, time out | credential stores, client |
| Credential stores | `turya-auth/src/store.rs` | keychain, file, chain of both | get, set with read-back, delete | flows, commands, providers |
| Settings file | `turya-cli/src/config.rs` | `config.toml`, its backup | load, move aside, save | host, start, other processes |
| MCP client | `turya-mcp/src/lib.rs` | one connection, request ids, one receiver, a reader thread | handshake, request, time out, shut down | server process, tools |
| Tools | `turya-tools/src/lib.rs` | a shell, two pipes, two reader tasks | run, drain, kill, collect | processes |
| Language server hook | `turya-lsp/src/lib.rs` | one server per query | start, handshake, collect, kill | server process, engine |
| Provider clients | `turya-provider-*/src/lib.rs` | buffer, open content blocks, call numbers | read a stream, render a history | model servers, engine |
| Protocol types | `turya-protocol/src/lib.rs` | the transcript | projection into messages | providers |
| Self-update | `turya-cli/src/update.rs` | the running binary, its backup, the download | decide, ask, download, replace | file system |
| Terminal client | `turya-tui/src/lib.rs`, `scroll.rs`, `input.rs`, `flows.rs`, `slash.rs` | transcript rows and their cached heights, viewport, prompt and recall, overlays, status, one pending request | keys, wheel, events, frames | host, session loop |
| Skills, plugins, images, themes, installer | their crates | - | discovery, parsing, drawing | - |

What makes each of them hard, and what makes it correct:

* **Session loop.** A follow-up is queued, handed back to the loop as a command
  of its own and received again, while the client types, turns finish, panic, or
  are aborted. Tokio's `abort()` only marks a task: one that is being polled goes
  on to its next suspension. Correct means: at most one live turn and it is the
  one Esc and shutdown reach; no prompt lost or run twice; the loop never waits
  for itself; queued work is served.
* **Consent.** Subagents ask at the same time, the announcement goes out before
  the asker waits, turns are killed while answers travel, request ids can
  repeat, the client has one slot. Correct means: a tool runs only on consent
  given to it; a refusal has a reason; an answer reaches its asker; nobody waits
  for ever.
* **Turn loop.** A model may answer anything. Correct means: each request sent
  to the provider is a well formed conversation, the budgets and the repetition
  guard hold over passes, results keep the model's order although subagents end
  in any order, the turn ends, and it ends with the model having seen every
  result.
* **Session log.** Several connections and processes, crashes between the
  statements of a repair, stored ids that repeat. Correct means: dense
  numbering, nothing that was stored is ever lost, repairs last.
* **Compaction.** Every turn reloads the whole log while subagents append to it
  and compact it too. Correct means: the last turns reach the model word for
  word, and a log over the window is compacted unless that is impossible.
* **Authentication.** A background task waits for the browser while the user
  pastes a code, cancels, starts another flow or closes the dialog. Correct
  means: a flow that is over stores nothing, and a dialog that asks can be
  answered.
* **Files: credentials, settings, sessions, binary.** Load-change-save without a
  lock, renames in several steps, deaths in between, other processes. Correct
  means: what was reported as stored is there, what was reported as forgotten is
  gone, sessions and settings stay where they are found, a binary that runs is
  left.
* **Selection and catalog.** Engine, file, budget and label are changed one after
  the other, each may fail; listing awaits the network while keys come and go.
  Correct means: what runs is what was saved and shown, what a server listed and
  the browser offers is accepted, nobody is asked without a key who needs one.
* **Processes and wires.** Two pipes and a deadline, one receiver for many
  requests, chunks cut anywhere, overlapping content blocks. Correct means: each
  call gets its own output, answer and input, and calls end.
* **Terminal client.** Indices into rows that move, cached heights, a draft under
  a recalled prompt, a count and a spinner told over three bounded channels.
  Correct means: what is shown is what there is, and the reader and the draft
  are left alone.

## 2. Modules

| Module | Models | Kind |
|---|---|---|
| `TurnSession` | session loop, task registry, life of the turn tasks | detailed |
| `PromptLedger` | what the session promises about a prompt | abstract; `TurnSession` implements it |
| `PermissionRouting` | broker, router, dispatcher, the consent half of a tool call, the loop's forwarding of answers, the client's request slot | detailed |
| `SessionLog` | append and load-with-repair over several connections | detailed |
| `AppendOnlyLog` | what the store promises of a log | abstract; `SessionLog` implements it |
| `TurnLoop` | passes, budgets, guard, subagents, summary pass | detailed |
| `Compaction` | the context a turn runs on, `/compact`, the failure counter | detailed |
| `HostCommands` | the selection: engine, file, budget, label, next start | detailed |
| `ModelCatalog` | listing, disk cache, gate of a switch | detailed |
| `AuthFlows` | Auth dialog, pending flows, browser tasks | detailed |
| `CredentialStores` | keychain, file, and their chain | detailed |
| `SettingsFile` | `config.toml` under several processes | detailed |
| `StoreOpening` | probe, backup, creation and tag of `turya.db` | detailed |
| `SelfUpdate` | version decision and replacement of the binary | detailed |
| `McpConnection` | one MCP server and the calls that share it | detailed |
| `BashCommand` | one shell command, its pipes and its deadline | detailed |
| `LspQuery` | language servers of a session | detailed |
| `ProviderStreams` | reading a streamed answer, three dialects | detailed |
| `WireHistory` | the transcript as three providers are told of it | algorithm, checked over all short sessions |
| `TranscriptView` | viewport, wheel, windowed lists | detailed |
| `TranscriptRows` | transcript rows, streaming, views, height cache | detailed |
| `PromptEditor` | prompt, recall, file picker, completer, keyboard owner | detailed |
| `ClientStatus` | spinner, counts, settings, and the three channels | detailed |
| `MCTurnSession`, `MCPermissionRouting`, `MCSessionLog`, `MCTurnLoop` | instances for TLC | |
| `MCOutside`, `MCHost`, `MCClient` | the parts of one side of the program for TLC, one at a time | |
| `*_proofs` | theorems and their proofs | |
| `Folding` | induction over numbers and over folds, for the proofs | |

The three collecting modules hold several components that share no state. A
variable `focus`, chosen in the initial state, says which of them moves, so a run
explores the sum of their state spaces and not the product; each property is
that of the component, and `focus` guards those that another component's initial
state does not satisfy.

### TurnSession

`inbox`, `reinject` and `done` are the three bounded channels of `run_loop`;
`queue`, `active` and `registry` are its locals and the registry's keys; `turns`
is every task ever spawned, each with its phase, whether a worker polls it and
whether it was marked. `RecvCommand`, `RecvReinjected` and `RecvDone` are the
branches of `select!`; a command's whole arm of `dispatch` runs in the step that
receives it (`SubmitPrompt`, `AbortLive`, `AbortIdle`, `QueueBusy`, `QueueIdle`,
`ClearQueue`), including the reaping and killing it does on the way. `Reinject`
blocks the loop (`loop = "wedged"`) when its own channel is full. Tasks take
`Start`, `Complete`, `Store`, `Report`, `Return`, `Panic`, and are parked,
polled and dropped by an external scheduler. `ExitLoop` and `Drained` are
shutdown.

Left out: the channel of events to the client. `dispatch` awaits it (two events
per acknowledged abort), so a client that stops reading stops the loop; the
model's client always reads. Ids of subagent tasks: the session registers root
turns only, so the tree below a turn is empty.

`PromptLedger` has no channels: a prompt waits, runs at most once, and is over,
or is cleared before it ran. `StatusOf` is the refinement mapping.

### PermissionRouting

Calls of one turn are futures of one task, so between two suspensions only one
of them runs (`Runs`, `Mid`); the dispatcher is a task of its own. `pc` is a
call's place in `execute_tool_call`, `slot` its oneshot, `pending` the router's
map, `closed` its flag. `RegisterReads` and `RegisterInserts` are separate
because `register` reads the flag before it takes the lock; the dispatcher's
`CloseRouter` and `ClearRouter` are separate for the same reason. `HandleSubmit`,
`HandleAbort` and `HandleResolve` are the parts of the session loop that touch
consent. `Client = "tui"` has the terminal client's one slot, which a newer
request replaces and which any key but y and n empties (`OtherKey`);
`Client = "list"` shows all requests. `Hasty` lets the client answer before the
caller waits. `answered` and `waved` are histories: who was told yes, and whom
the mode or the risk level let through.

Request ids are an input (`Req`): anthropic forwards unique ids, gemini and
ollama number calls per response, so ids repeat.

### SessionLog

`rows` are the session's rows, `seq` the counter in `sessions`. An append is two
steps (read the counter; insert, bump and commit), a load is one step per
statement: `LoadReads`, `MarkRepaired`, one `RepairRow` per loaded turn,
`LoadReturns`. SQLite is external: a deferred transaction whose snapshot was
outdated by another commit fails at its first write (`WriteGranted`), a crash
loses what was not committed. `RepairRow` joins the lookup by turn id with the
update: no commit of another connection can change which row is the first with
an id. `Tid` is an input, because `turn_counter` starts at 0 in every process.
`Torn` names the turns stored with an open call; `loop_summary` below shows
where such turns come from.

`AppendOnlyLog` adds turns at the end and changes nothing else.

### TurnLoop

Agent 0 is the turn, agent k the k-th accepted subagent; `agent[a]` holds the
locals of `run_turn_at` and the parts of the pass under way. A call is recorded
when it arrives and then refused by the budget (`RefuseOverBudget`), set aside
(`Delegate`, or `DelegateRefused` for a full fan-out or an empty task), or run
through `execute_tool_call` with its repetition guard (`ExecuteCall`).
`EndResponse` ends the stream; subagents start only then (their futures are
lazy), in any order, and run concurrently. `NextPass`, `SummaryPass` and
`EndTurn` are the three ways on from a joined pass, `EndSummary` ends the
summary pass. Whether a subagent sends any token is chosen at its start, because
only its end depends on it. Which tool an over-budget call names is abstracted.

Left out: text, instructions and attachments in the transcript, loading and
compacting before the first pass, events, consent (a denied tool is one of the
results of `ExecuteCall`), aborts (which drop the whole task, subagents
included: `TurnSession`).

### Compaction

`phase` and `ctx` are a runner's place in `run_turn` and the transcript it holds;
a turn is its place in the log and whether its tool output is whole. Subagents
are runners on the same log. `StartTurn` loads and decides (`Demanded`,
`GaveUp`), `Summarise` loads again and prunes, `CompactSucceeds` replaces the old
turns and appends a marker, `CompactFails` counts. `HostCompact` and its two ends
are the command; `SetWindow` is a model switch. The estimate of tokens is a
weight: `Heavy` for a turn with tool output.

### HostCommands and ModelCatalog

The first has the selection in four places - `file`, `live`, `window`, `label` -
and one action per command of the host, each with its failing variants (no
credentials, `connect` fails after the budget was set, the file cannot be
written), the client's optimistic labels, and `Restart`, which derives everything
from the file. The second breaks `ListProviders` at its awaits: `Gate` reads what
a provider is allowed, `AskServer` resolves the credential again, the three `Load`
actions are the branches of `ensure_loaded`. It has two lists of models that need
no server, because the program does: `Static`, the catalog's, which the listing
shows and merges into the cache, and `Builtin`, the one of the provider's plugin,
which the switch checks. Ollama has neither; for Anthropic and Gemini they differ.
`Static` of `HostCommands`, which knows the switch and not the listing, is the
plugins' list.

### AuthFlows

`dialog` is the client's, `flows`, `made` and `flowSeq` the host's, `task[f]` the
browser task of flow `f`. `Taken(f)` removes a flow and aborts its task before
anything else, as `submit_input` and `cancel_flow` do; a task already past its
last await still stores. Whether a key is the provider's is all that is kept of
it.

### CredentialStores, SettingsFile, StoreOpening, SelfUpdate

Files under several processes, one action per operation of the file system, and
deaths between any two. `CredentialStores` has a keychain that works, is missing
or forgets (`KeychainChanges`) and a file written by truncation; `SettingsFile` a
file replaced by rename and moved aside by whoever loads it in a foreign state;
`StoreOpening` the probe, the rename to a backup, and a creation in three
transactions; `SelfUpdate` the decision and the two renames.

### McpConnection, BashCommand, LspQuery

`McpConnection`: threads that take a number, write, and read the shared channel
line by line under a lock that they give back after each; the reader thread; a
server that answers late, in any order, with errors or noise, and may die.
`BashCommand`: shell, background processes, two pipes of bounded capacity, two
reader tasks, the deadline. `handed` is the output of the result: `Return` cuts
what the readers have with `Clip`, as `clip_output` does at 32000 characters
(`Longest` chunks, without the label before standard error), and when waiting for
bash fails (`WaitFails`) the result is empty and the readers go on unheard.
`LspQuery`: queries that follow one another, two deadlines, and servers left
behind.

### ProviderStreams and WireHistory

The server writes lines and the connection delivers them cut anywhere (`Chunk`).
The reader takes the pieces one by one (`Fed`): an end completes the line that is
buffered, anything else is kept. What it sends is compared with `Meaning`, which
is defined over the lines and knows no buffer and no per-block maps. Whether a cut
falls inside a character decides only which lines lose one (`Split`, `harmed`).
`WireHistory`
records a session's passes as `run_pass` does, projects them with `to_messages`
and renders them with `wire_messages`; the properties compare what each provider
reads with what happened.

### TranscriptView, TranscriptRows, PromptEditor, ClientStatus

One module per piece of the client's state, one action per key or event handler.
`TranscriptRows` compares the cache of heights (`Repaired`) with the heights
computed from nothing (`Exact`); `Collapse` takes rows out by their owner,
wherever they are by now (`Without`). `ClientStatus` has the session loop of
`TurnSession` in short form (a killed turn ends at once but for the event it may
be sending) between the client's and the host's bounded channels.

## 3. Runs

Runs of components that can stop check for deadlock too, but for the three
collecting ones, whose bounded histories end.

| Run | Instance | What it shows |
|---|---|---|
| `session_safety` | 3 prompts, 1 abort or clear, shutdown, panics; channels of one slot | `TurnsAreContained`: one live, reachable turn, and nothing works on after shutdown; the loop blocks on itself only over capacity; the session implements `PromptLedger` |
| `session_liveness` | 3 follow-ups and a clear, no aborts or panics, fair | every prompt is run or cleared |
| `perm_turns` | a call in each of two turns, TUI, hasty client, aborts, mode changes, all decisions | no borrowed consent; a live waiter's dispatcher is there |
| `perm_siblings` | two concurrent calls of one turn, client with a list, fair | `AnswersAreHeeded`: refusals have a reason and no answer is lost; every request is settled |
| `log_repair` | four turns (two torn) over two lives, two connections that append and load, three loads, distinct ids | nothing stored is lost, repairs last; `LogIsSound`: dense numbering and repaired sessions say so; the store implements `AppendOnlyLog` |
| `loop_turn` | 2 passes, tool budget 3, up to 3 subagents (2 at once) of one pass and up to three tools, fair | `ConversationIsSound`: every request is well formed, repeats are refused, results are in the order of the calls; cost bound; the model's last word; termination |
| `outside` | a command with 2 background processes and 2 chunks a pipe, of which a result holds 2; 2 calls, 5 requests and 1 line of noise of an MCP server; 3 language server queries; 4 stream lines in 2 blocks, 3 dialects; 2 passes of up to 3 calls, 3 dialects; fair | output is whole or says that it was cut, calls return and get their own answer, only the outer deadline leaves a language server, the engine gets what the stream says, the history reads back |
| `client` | a pane of 3 rows over up to 8, wheel batches up to 4, lists of 5; 3 transcript rows, 2 tokens, 2 widths, 2 subagents; prompts of 2 characters; 3 commands over channels of 1, 1 and 3 slots | wheel and lists are faithful, rows and heights are true, the reader, the answer and the draft survive, status and settings settle |
| `host` | 2 flows of one provider; a log of 4 turns, 2 runners; 2 models and 2 efforts of one provider; 2 listed providers; one writer of 2 accounts; 2 processes on 2 settings; 2 opens of 3 databases; 3 releases | dialogs ask for live flows and only live flows store, tails are verbatim and long turns compacted, the selection is true, the listing honest (what a server listed is accepted, no locked setup asks), stores keep their word, settings and sessions stay, a binary remains |
| `perm_dupturn` | one request id in two turns | **violated**: the yes to the old turn's request runs the new turn's call |
| `log_overwritten` | `turn_0` in both lives | **violated**: the repair of the second writes over the first |
| `models_refused` | the instance of `host` | **violated**: an uncached listing offers the catalog's models, of which the switch refuses those that the plugin does not name |

Eight more configurations are kept beside the runs. Each is a counterexample to
what a comment or the interface says, found by TLC in seconds:

| Configuration | Module | Refuted | What happens |
|---|---|---|---|
| `session_interrupt.cfg` | `MCTurnSession` | `FollowUpsNeverInterrupt` | a bounced follow-up kills a working turn |
| `session_stranded.cfg` | `MCTurnSession` | `IdleServesQueue` | after an abort queued prompts wait in an idle session |
| `perm_replaced.cfg` | `MCPermissionRouting` | `NewRequestKeepsOld` | a second request removes the first unanswered |
| `loop_summary.cfg` | `MCTurnLoop` | `StoredTurnsAreClosed` | a call in the summary pass is stored without a result |
| `bash_orphan.cfg` | `BashCommand` | `CommandIsBounded` | a background process that keeps the pipes holds the call past its deadline |
| `esc_picker.cfg` | `PromptEditor` | `EscUnwindsFirst` | Esc aborts the turn while the file picker is open |
| `rows_lost.cfg` | `TranscriptRows` | `NothingIsLost` | rows logged during an answer are cut with it |
| `compact_unsummarised.cfg` | `Compaction` | `NoSummaryKeepsTurns` | without a summary the old turns are dropped all the same |

`compact_unsummarised.cfg` with `PROPERTIES CompactFreesContext` in the place of
its invariant shows that `/compact` reports how many turns it left and keeps
nothing of what it did: the next turn loads the whole log again.

### What the runs do not reach

Some properties cover a hazard in part; `PROJECT.json` says so at each hazard.

* Prompts left behind by an abort (`turya-server/src/lib.rs:185`): the liveness run has no
  aborts, and `session_stranded.cfg` refutes the statement with them.
* A waiter that registers while its router closes: such a turn is no longer live,
  and `EveryRequestSettles` and `LiveWaitersAreServed` speak of live turns.
* An answer that overtakes its caller's registration is dropped (section 5);
  `AnswersAreHeeded` is of clients that answer callers that wait, and
  `perm_turns` checks the consent of hasty ones. Ids that repeat are `perm_dupturn`.
* `AllowSession` between siblings: `perm_turns` has one call in each turn; the
  theorem `NoBorrowedConsent` is about any number of calls in each.
* The spinner after a kill whose last event comes late; the count and the settings
  are checked then too.
* Turns that a provider error ends, for `ModelHasLastWord`; openings of the store that
  overlap or die before the tag, for `SessionsStay`; Anthropic's and Gemini's wire
  with delegations and Ollama's with ids that repeat, for `HistoryReadsBack`; a
  keychain that comes back before an older secret, for `StoresKeepTheirWord`: in each
  the program fails, as section 5 says.
* Rows that are cut with an answer: `AnswerIsWhole` is about the answer, and
  `rows_lost.cfg` about the rows.

### Why these bounds

* Session: two prompts are needed for one to supersede the other, a third to be
  bounced between them. Channels of one slot make full channels reachable, which
  at the host's 32 and 16 they practically are not.
* Consent: a hazard needs two calls, siblings or of consecutive turns (an answer
  outlives one turn change); one mode change separates the check from the
  answer.
* Log: a repair that hits the wrong row needs two rows with one id and a third
  row to be hit instead; two connections, since SQLite admits one writer; three
  turns in one life, so that one append can be overtaken by two others; three
  loads, so that one can be cut short, one overlap an append, one come after.
* Loop: two passes carry counters and the guard from one to the next; a budget
  of three splits between plain calls and delegations within and over passes;
  three calls in a response exceed a fan-out of two, and three of a subagent put
  a refused delegation between two equal calls; one call in a summary pass
  suffices for every kind of answer there.
* Outside: one answer that is late, one waited for and one of the other caller
  need the handshake's three requests and two more; two pipes of two chunks make
  outputs that a result of two holds, holds in part from both pipes, and fills
  with standard output alone; two blocks overlap with four lines; a delegation
  before and after a plain call needs three calls.
* Client: a pane that can be above, at and below the end; a batch that passes an
  edge and comes back; one view that makes room for another; an event channel
  that fills up while the client sends.
* Host: a stale flow beside a live one; three turns to compact, two of them the
  tail, one appended meanwhile; a model the plugin names and one it does not; of
  the listed models one that catalog, plugin and server have, and one of each
  alone; a second process in each step of the first.

### Fairness

* `TurnSession`: the loop's `select!` picks among ready branches at random, so a
  branch that stays ready is taken; a worker polls a ready task, and the
  provider and the client let a polled turn go on. Nothing is assumed of aborts,
  panics or typing.
* `PermissionRouting`: as above, and the user answers a request that stays on
  screen. A call's steps are strongly fair because siblings of one task take
  turns.
* `TurnLoop`: the provider ends each response (a response is finite) and a
  future that can go on is polled.
* `BashCommand`: Tokio's tasks and its timer run; nothing is assumed of the
  shell or what it starts.
* `McpConnection`: threads run, and one that is ready for the receiver's lock
  again and again gets it; nothing is assumed of the server. Noise is bounded:
  each line restarts the wait, so a server that prints for ever is waited for
  for ever.

Each is what the Tokio scheduler, the system's threads and a client that is still
there provide; the runs with aborts, panics or a silent client claim no
liveness.

## 4. Proofs

Every safety property of the passing runs is proved, for all values of the
constants. Each theorem rests on the named assumption of its module
(`BoundsAssumption`, `RoutingAssumption`, `LogAssumption`, `LoopAssumption`,
`BashAssumption`, `ClientAssumption`: sizes are numbers, widths and windows are
not zero, identifiers that the code tells apart differ) and on the extra
hypothesis of its row.

| Module | Theorem | States | Extra hypothesis |
|---|---|---|---|
| `TurnSession_proofs` | `SessionTyped` | types of the session | |
| | `OneLiveTurn`, `LoopLeavesNothingRunning`, `ContainedTurns` | `SingleLiveTurn`, `NothingOutlivesLoop`, and `TurnsAreContained`, which is both | |
| | `SessionImplementsLedger` | `ImplementsLedger`, the refinement of `PromptLedger` | |
| | `LoopBlocksOnlyOverCapacity` | `WedgedOnlyOverCapacity` | |
| `PermissionRouting_proofs` | `RoutingTyped` | types of the routing | |
| | `NoBorrowedConsent` | `RunsOnlyWithConsent` | `DistinctIds` |
| | `LiveTurnsHaveDispatchers` | `LiveWaitersAreServed` | |
| | `EveryAnswerIsHeeded` | `AnswersAreHeeded` | `DistinctIds`, `~Hasty` |
| `SessionLog_proofs` | `LogTyped`, `DenseLog`, `SoundLog` | types, `SequenceIsDense`, `LogIsSound` | |
| | `NoStoredTurnIsLost`, `FinishedRepairsLast`, `StoreImplementsLog` | `StoredWorkKept`, `RepairSticks`, `ImplementsLog` | `DistinctTids` |
| `TurnLoop_proofs` | `LoopIsSound` | `LoopInv`, the invariant below | |
| | `ConversationsAreSound` | `ConversationIsSound` | |
| | `TurnsStayInBudget` | `CostIsBounded` | |
| | `TheModelHasTheLastWord` | `ModelHasLastWord` | |
| `Host_proofs` | `ABinaryRemains` | `BinaryRemains` | `RunFrom = {"exe"}` |
| | `NewMajorsAreWanted` | `MajorsAreWanted` of `SelfUpdate` | `RunFrom` within exe, bak |
| | `SettingsStay` | `SettingsAreKept` | |
| | `SessionsAreKept` | `SessionsStay` | `Starts` within none, other, tagged |
| | `TheChainKeepsItsWord` | `StoresKeepTheirWord` | `OneProcess` |
| | `ListingsAreHonest` | `ListingIsHonest` | |
| | `DialogsAskLiveFlows` | `PromptsAreLive` | |
| | `TokensAreOfLiveFlows` | `OnlyLiveFlowsStore` | |
| | `SelectionsAreTrue` | `SelectionIsTrue` | `NoModel \notin Models` |
| | `TailsAreVerbatim`, `LongTurnsGetCompacted` | `TailIsVerbatim`, `LongTurnsAreCompacted` | `TailFits` |
| `Outside_proofs` | `ResultsHoldAllOutput` | `OutputIsWhole` | |
| | `McpAnswersAreOwn` | `AnswersAreOwn` | |
| | `ServersEndWithTheirQueries` | `OnlyTimeoutsLeaveServers` | |
| | `StepsAreAsSaid` | `StepsAreSaid` | |
| | `HistoriesReadBack` | `HistoryReadsBack` | |
| `Client_proofs` | `ReadersStay`, `TheWheelIsFaithful` | `ReaderUndisturbed`, `ScrollingIsFaithful` | |
| | `TheRowsAreTrue`, `TheAnswerIsWhole` | `RowsAreTrue`, `AnswerIsWhole` | |
| | `ThePromptIsSound`, `TheDraftComesBack` | `PromptIsSound`, `DraftComesBack` | |
| | `StatusComesToRest` | `StatusSettles` | |

Where an extra hypothesis is something the code does not establish, it marks a
case in which the property fails:

* `DistinctIds` (no two calls share a request id) and `DistinctTids` (the stored
  ids of a session differ): `perm_dupturn` and `log_overwritten` are
  counterexamples without them.
* `~Hasty` (an answer is given to a caller that waits): an answer that arrives
  before its caller has registered is dropped (`permissions.rs:103`, section 5).
* `OneProcess`: two processes that load, change and save the credential file at
  once lose one of the two changes.
* `Starts`: a database older than any tag shares the name of its backup with one
  whose opening died before the tag, which replaces it.
* `RunFrom`: an update started from `turya.bak` deletes the binary it runs from.

The other three are facts of the program: an update is started from `turya` or its
backup, `TailFits` says that what is kept of a
session is no longer than the shortest session that is compacted (2 and 3 in
`context.rs`), `NoModel \notin Models` that the absence of a saved model is not
a model.

The inductive invariants:

* *Session.* `SingleLiveTurn` alone is not inductive: `RecvDone` frees the slot
  on a report, which is right only because a turn that reported does nothing
  more (`ReportedTurnsAreOver`); shutdown needs that the registry, once drained,
  stays empty (`DrainedRegistry`). `IInv` is their conjunction with the types;
  there is one case per action, and lemmas about `Aborted`, `Reaped` and
  `Reinject` used by several of them.
* *Prompts.* What the inbox, the reinject channel and the queue hold are prompts
  that wait, and none is held twice (`Apart`, in `LedgerInv`). So a prompt that is
  taken out has not run before, and every step is the ledger's `Type`, `Run`,
  `End`, `Clear` or a stutter; and since bounced prompts differ, there are, by the
  pigeonhole principle, fewer of them than were typed, which bounds the channel
  the loop writes to itself.
* *Consent.* The invariant follows an answer through all the places it can be
  in: commands under way, decision channels, the oneshot, the broker's memory.
  In each, what travels under an id was said about the call with that id; and a
  router's map holds each waiter under that waiter's own id.
* *Dispatchers.* `SlotInv`: the live turn is the one in the session's slot and
  the one whose sender the loop holds, turns start in their order with a
  dispatcher that reads, and only a turn that started and has not ended is
  polled. So closing a decision channel never ends the dispatcher of a turn that
  lives.
* *Answers.* `AnswerInv` says for every place of a call where its oneshot is: a
  waiter whose slot is open is in its router's map under its own id, a sender is
  dropped only by a router that has closed, what the client shows was announced,
  and nothing is answered before its caller waits. From it a refusal has one of
  the reasons it may have (`RefusalsAreDeliberate`), and an answer that was given
  to a waiter reaches it (`NoAnswerLost`).
* *Log.* Numbering comes first (rows are 1..seq; a transaction that may still
  commit has read the current `seq`). On it rests that a turn is in one row at
  most, that what a load will write back is what the rows hold, and that the
  rows it has passed are closed. The refinement is proved step by step: a commit
  is `Add`, everything else leaves size and log unchanged. That repaired
  sessions say so (`SoundLog`) rests on `Flagging`: a row is rewritten only by a
  load that has set the session's flag, and nothing takes the flag back.
* *Turn loop.* `LoopInv` says three things of each agent. `Sound`: what it has
  recorded is well formed up to the pass under way (`InTurn`, `OpenPass`,
  `LastPass`), no two results in a row are of one call, the guard's memory is the
  call carried out last (`LastIs`), and delegated results are in the order of
  their calls. `Spends`: its executions and, for the user's turn, the accepted
  subagents stay in its budget. `Siblings`: there are at most `MaxSiblings` of
  them for each pass. The lemmas before it say what appending a pass to a turn
  keeps: results keep their positions, an answer stays the only one of its call,
  and a call open before is open after unless the appended part answers it.
* *Listing.* What a listing has collected is accepted already, before the browser
  sees it (`RowsAreAccepted`): a row went into the cache in the same step, or its
  cache could not be written, or it comes from the catalog's list. Models of that
  list are accepted once any were cached, because what is cached was merged with it
  (`CacheHoldsStatic`); while none were, they need not be, and the theorem says no
  more of them. Nothing is assumed of how the catalog's and the plugins' lists are
  related.
* *Dialogs.* `PromptInv`: the flow that the newest announcement names is still
  pending (`Announced`), and so is the one the dialog asks for when no event is
  under way (`AskedFor`), because whoever takes a flow sends an event after it.
* *Tokens.* A task that waits or exchanges belongs to a pending flow, one that
  stores to a flow that is pending or was taken too late (`TasksHaveFlows`).
* *Selection.* `SelectionInv`: what runs is what was saved (`WhatRunsIsSaved`),
  and for model and mode each, a choice is still to be taken (`Waiting`), or the
  newest answer under way names what runs, or there is none and the bar shows it
  (`WillShow`); a switch that failed, or that fell back, is `Excused`.
* *Context.* `ContextInv`: what waits for its summary has the tail as the log has
  it (`Unpruned`), and what runs on a summary has that tail word for word after
  it (`Verbatim`). The log only grows, so both survive the other runners' steps.
* *Credentials.* `Working` says what an operation under way may rely on (nothing is
  promised of its account, a logout's backends are empty as far as it has come),
  `MapInHand` that the map it is about to write forgets what was forgotten and
  keeps what was promised, and `FileIsWhole` that only a write under way or one cut
  short leaves the file incomplete.
* *Settings.* As long as no two processes overlap, one is at work at most
  (`OneAtWork`), the file it is about to move aside is still not one with settings
  (`AsideIsForeign`), and what is in place is what the last save reported
  (`InPlaceIsKept`).
* *Sessions.* `FarAsItSays` says how far an opening has come and what that says of
  the database it works on, `OneOpening` that there is one at a time, and
  `WellKept` that the foreign database is the first one, in place or in its
  backup, and that any other with sessions is tagged and in place.
* *Update.* Until the rename the binary that was started runs, and from then on
  its backup does (`UpdateInv`). What the user agreed to is what is downloaded, and
  the binary it replaces is the one they ran (`Agreed`).
* *Commands.* `BashInv`: what was printed to a pipe was read or is in it
  (`NothingSpilled`), before the start nobody prints (`Unstarted`), a reader that
  has ended saw its pipe empty when nobody could write any more (`EndedReaders`),
  and an output is handed over after both, cut if need be (`HandedLast`); `ClipKeeps`
  says what a cut leaves. `OutputIsWhole` speaks of commands that exited or were
  killed: a failed wait returns nothing of what was printed.
* *MCP.* `McpInv`: numbers in use are below the next (`Numbered`), so a new
  request has a number no older answer carries, and a reader takes only lines
  with its own.
* *Language servers.* `LspInv` counts: only an outer deadline leaves a server.
* *Streamed answer.* `StreamInv`: the server's lines are such as the dialect allows
  (`Answers`), what is buffered is the head of the line under way, and unless an
  error came the reader is what the lines so far make of it (`HasRead`): its steps
  are their meaning, each open block is a start no stop has followed, with the
  fragments since, and calls are counted. One piece keeps that (`Took`), so by
  induction over the pieces a chunk does, however long it is.
* *Recorded history.* `HistoryInv` is about the transcript: each call's place is its
  number, a result is of one call before it and no call has two (`Placed`), a call
  that is no delegation is answered by the very next part (`Paired`), and no pass
  ends on an open one (`Complete`). That a pass keeps it is an induction over the
  calls of its response (`Recording`).
* *Messages.* By induction over the parts, each message made of them has one role,
  and answers stand where the parts have them (`Made`, `Taken`): so a message's calls
  are answered by the next one, and by no other, if nothing was delegated
  (`Answered`).
* *Ollama's wire.* If no two calls share an id, a result's id gives back its own call
  (`Keyings`), so it is sent under its tool's name, and its rank is its call's number.
  By induction over the messages what waits is in order once sorted
  (`SortedWaiting`), and what was sent before came earlier (`Sent`, `Orderly`).
* *Viewport.* `ViewInv` are the ranges of the offsets. That a batch of wheel
  notches moves the view as the notches do one by one is an induction over the
  batch: between two changes of direction the squashed run moves as far as its
  notches, clamped once or at each.
* *Rows.* `CacheInv`: below the dirty mark each cached start is the end of the
  row before (`Fresh`, `Measured`), and repairing from there gives what measuring
  everything gives. `ViewsOk`: the ids of the views differ and are below the next.
  `OwnersOk`: an owner's row is there once (`OneEach`), and the view that owns it
  says that it is expanded. `TextOk`: the text kept for the answer's block is what
  was heard. Redrawing (`Redrawn`, `Drawn`) and `Collapse` keep all of it. That the
  finished answer holds every token is then about the words of all rows in their
  order: the end of an answer leaves those before its start as they were and puts
  what was heard in the place of the others.
* *Prompt.* `EditorInv`: recorded prompts say something, the draft is the text
  that was begun while an older prompt is shown (`DraftIsKept`), a recalled prompt
  is shown as it was recorded until it is edited (`RecallIsPure`), and the picker
  and the completer point into the text (`OverlaysFitTheText`).
* *Status.* `StatusInv`, about what is under way in the channels: the last count
  announced is the length of the queue (`CountIsTold`); when no turn works and no
  prompt is on its way, the last event about the spinner stops it (`StopIsTold`);
  the last patch of a setting is what the client shows, and without one that is
  what was saved, unless its write failed (`SettingIsTold`); a report is of a turn
  there was, and of the live one only once it ended (`ReportsAreOwn`).

Some of these are inductions over data: over the notches of a batch, the rows that
are measured, redrawn or read out, the pieces of a chunk, the calls of a response,
the parts of a transcript. The library's induction theorems take an operator as a
parameter, which the provers here cannot instantiate, so `Folding` proves induction
over a *set* of numbers from the least number principle (`LeastNumber`,
`Induction`), writes each fold's step as a function on the set of values, and
reasons about its *trace*: the sequence of all its intermediate values (`Traces`).
`TraceExists`, `TracesAgree` and `FoldTraces` connect the traces to the models'
`FoldLeft` and `FoldFunction` definitions, and `FoldInduction` is the result: what
holds of the first value and is kept by each step holds of what the fold ends in. So
the theorems are about the operators the runs check, unchanged. What the provers cannot
open is `SelectSeq`, which is recursive: where the models filter a sequence in
something that is proved about, they fold (`Inputs`, `CallsIn`).

Only model-checked:

* liveness under fairness, which this prover cannot do: `EveryPromptServed`,
  `EveryRequestSettles`, `TurnEnds`, `CommandReturns`, `CallsSettle`;
* the three properties that the program violates, and the configurations beside
  them (section 3): their counterexamples are TLC's.

## 5. Other divergences met while reading

These were seen in the code, and most of them in instances of these models. A
name in code font is a statement that a module defines, next to the line of the
program or of its interface it is taken from, and that the code refutes; no run
checks it.

Session, consent and turns:

* `engine.rs:1111` "Only *consecutive* duplicates are refused": a delegation
  does not update `last_call`, so read, spawn_agent, read refuses the second
  read although a subagent ran in between and may have changed the file.
* `engine.rs:494` "An empty summary is a failure the parent must see": a rule
  recalled by the memory hook is sent as a token (726), so a subagent that said
  nothing of its own still counts as a success; so does one that failed after
  some text.
* `engine.rs:386`: refused delegations count as running siblings.
* `engine.rs:1015` says children are started while the response is read; their
  futures are lazy and are first polled at the join.
* `permissions.rs:103` promises that an answer that arrived early is delivered;
  it is dropped and the caller waits. `permissions.rs:113` promises that a late
  registration is never stranded; `closed` is read before the lock is taken.
* `turya-tui/src/lib.rs:2832` says permission modals must be answered; any key
  but y and n removes them.
* `turya-server/src/lib.rs:18`: follow-ups can also run out of the order typed;
  lines 186 and 324: Esc between a turn's completion and its report acknowledges
  the kill of a turn that succeeded, and a task being polled while it is killed
  still sends events.
* `engine.rs:922` ignores the error of `append_turn`, which SQLite refuses when
  the host's load repairs the session in between.
* `Compaction`: `CompactFreesContext`, see section 3.

Providers:

* `ProviderStreams`: `FailuresSurface`. An error that Anthropic's or Gemini's
  server reports in the middle of its stream has no arm in the reader, and the
  turn ends as if it were complete. `CharactersSurvive`: "a multi-byte character
  split across two chunks still decodes" (`turya-provider-ollama/src/lib.rs:529`)
  holds for Ollama, which buffers bytes; Anthropic's and Gemini's readers decode
  each chunk by itself, and a character cut in two becomes replacement characters.
* `WireHistory`: `AnsweredInTheNextTurn`. In a response that delegates and then
  calls two tools, the delegation's result comes after a second message of the
  assistant. `ResultsAreNamed`: Ollama's ids start again with each response, and
  an older result is sent under the name of the last call with its id.
  `RequestsAskTheModel`: a pass's text is recorded after its results, so the
  next request may end with the model's own words.

Host:

* `AuthFlows`: `KeyStaysWithItsProvider`. The announcement of a flow goes to
  whatever dialog is open when it arrives, so the key typed into a dialog can be
  submitted to the flow of the dialog closed before it.
  `PendingEndsAreReported`: a wait for the browser that times out says nothing.
  The answer to `ListProviders` also opens the dialog of a `pending_auth` over
  one that is open (`turya-tui/src/lib.rs:2113`).
* `HostCommands`: `LabelIsCorrected`, a failed switch leaves the bar on the model
  that was refused; `EffortIsApplied`, a switch and a start drop the saved
  effort, and a refused one is applied; `WindowIsOwn`, a model of unknown window
  runs with that of the model before it; `SelectionIsRestored`, a saved model
  that only its server lists is not taken at the next start.
* `ModelCatalog`: `OfferedIsAccepted` is the run `models_refused`. A listing shows
  the catalog's list (`turya-catalog/src/lib.rs:300-310`) of a provider that is
  locked, or whose server and cache have nothing; the switch checks the plugin's
  (`host_services.rs:752`). `claude-opus-4-5` and the three `gemini-2` models are
  in the first only, so they are offered and, until a listing with a server filled
  the cache, refused as unknown unless the server answers the switch itself.
  `OutageKeepsModels`, a listing with the document but without
  the provider's server drops the models that server had listed;
  `FactsAreKept`, one with the server but without the document drops what was
  known of them.
* `CredentialStores`: `LatestIsRead`, a keychain that comes back is read before
  the newer secret in the file; `OthersAreKept`, a death while the file is
  written loses every account in it.
* `SettingsFile`: `SavesKeepTheRest` and `OnlyForeignIsMoved`. Two processes that
  save at once lose one of the settings, and one moves aside the file the other
  has just written. `OnlyTheStartReplaces`: every command that saves a setting loads
  the file first, and moves it aside unreported if another program has put one of
  another version in its place (`config.rs:168-169` leaves that decision to the
  start).
* `StoreOpening`: `StartsFresh`, a foreign database whose rename fails is used as
  it is; `SessionsAlwaysStay`, two openings at once, or one that died before its
  tag was written, replace a backup that holds sessions.

Client:

* `ClientStatus`: `SpinsWhileWorking`, an automatic compaction or an error of the
  host stops the spinner of a turn that works; `ToolShownRuns`, a turn killed
  during a call leaves its tool in the top line; `NoGridlock`, the three channels
  fill up around a client that sends without reading.

`SelfUpdate` defines `MajorsAreWanted` besides, which holds and is proved: a new
major version is installed only if the user said so.

## 6. Not modelled

* *Skills, plugins, images, themes, markdown, drawing, the installer*: parsing at
  start and presentation; nothing in them waits, fails halfway or is shared.
* *File tools* (read, write, edit, glob, grep): each is one operation of the file
  system; what it returns is an input of `TurnLoop`.
* *Rules, search and export of the memory store*: queries over rows that
  `SessionLog` already has.
* *Request bodies* beyond the messages, *models.dev's document*, *PKCE and URLs*:
  formats, each one nondeterministic outcome where a model meets it.

What could come next: a composition of `TurnSession` with `PermissionRouting`, whose
session loops overlap in `HandleSubmit` and `HandleAbort`, would let the two be
checked against one client.

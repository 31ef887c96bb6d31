# svcp-ai: a verification project

svcp-ai is a coding agent in Go: a person (in a terminal window, a browser
window, or a program embedding the library) sends a prompt, a language model
answers, and the tools the model calls run on the person's machine after the
person has approved them. This directory models the parts of it whose
correctness depends on the order in which goroutines, people, providers and
failures act, and the algorithms whose results a test hardly covers; it checks
the models with TLC, and proves the central invariants with TLAPS. All line
numbers refer to `src/`.

`tlc -config X.cfg M` with the pairs of the table under Runs repeats a check,
`tlapm M.tla` for the eight modules named `...Proofs` the proofs.
`PROJECT.json` holds what a tool needs to know: components, runs, the code each
definition stands for, a plausible bug that breaks each property, the hazards,
the theorems.

## Inventory

| Component | State | Operations | Talks to | What is hard | What makes it correct | Module |
|---|---|---|---|---|---|---|
| Permission service (`internal/permission`) | approved sessions, approved scopes, pending requests with their channels, `done` | Request, Grant, GrantPersistant, Deny, AutoApproveSession, Shutdown | tools call it and block; front ends hear of requests over its broker | unlocked slices, a timer racing an answer, a subscriber that is not there yet, shutdown | no verdict without authority, a refusal stands, nobody blocks for good | `Permission`, `Approval` |
| Event broker (`internal/pubsub`) | subscriber channels, `done` | Publish, Subscribe, unsubscribe, Shutdown | every service publishes, front ends subscribe | send after unlock, full buffers, close races | no blocking publisher, a dropped event harms nothing else | in `Permission`, `Terminal`, `Transcript` |
| Agent: a turn (`internal/llm/agent`) | history and message in memory, tool results, the stored messages | the generation loop, stream events, the tool loop | provider stream, tools, message store | cancellation anywhere, refusal mid-loop, early end of stream, crash between saves | calls and results pair up, the stored history is what the model saw, a refusal or cancellation ends the turn | `Turn` |
| Agent: running requests | `activeRequests` | Run, Cancel, Summarize, Update, IsBusy | front ends, the goroutines' own Deletes | check-then-act on a concurrent map, panics, a result nobody reads | a session is busy iff something of it runs, what runs can be cancelled | `Agent` |
| Session store (`internal/session`) | rows | Create, Get, Save | agent, title generator, summariser, task tool | whole-row read-modify-write by several goroutines | no lost cost, title or summary | `Sessions` |
| Message store (`internal/message`) | rows, the parts of a message | Create, Update, List, AppendContent, AddToolCall, ... | agent, terminal window | stored first, published later; a list of parts of different kinds | what is stored is what ran, and what is shown; a row reads back as it was said | `Turn`, `Parts`, `Transcript` |
| File history (`internal/history`) | versions of files | Create, CreateVersion | file tools | equal timestamps, number conflicts | a change can be undone | `History`, `FileTools` |
| Database (`internal/db`) | three tables, triggers, keys | the statements the services use | services; listeners of their events | two statements and their events crossing, cascades, one connection's pragma | counts are right, a listener has what is stored | `Store` |
| File tools (`internal/llm/tools`) | last-read times | edit, write, patch, view | permission service, history, disk | the wait for approval between check and write | no unseen change overwritten | `FileTools` |
| Search tools | none | grep, glob, ls, completion of names | ripgrep, disk | two ways to find the same, limits, names that do not count | an answer that does not say it is cut is complete | `Search` |
| Other tools | none of their own | bash, fetch, docker, cicd, cloud, hosting, sign, open, build, image, runner, MCP | permission service, programs, the network | steps that depend on one another, two ways to say "denied" | nothing starts that was denied | `ToolGate` |
| Patch algorithm (`internal/diff`) | none | parse, find context, apply | patch tool | off-by-one, fuzzy matches | the result is the patched file | `PatchText` |
| Shell (`internal/llm/tools/shell`) | one process, a queue of ten | Exec | bash tool | timeouts, a dead shell, files polled for status | each command answered once, with its own result | `Shell` |
| Providers (`internal/llm/provider`) | a stream per request, options | stream, send, retry; conversion of messages and schemas; the choice of a client | agent | retry in mid-stream, cancellation while waiting, four dialects, options that replace one another | one Complete or one Error, nothing lost on the way to a provider, configuration reaches its client | `Streams`, `Conversions`, `Providers` |
| HTTP bridge (`internal/gui`) | turn slot, session map, shown requests | chat, permission, models, sessions | agent, permission service | a closed connection while the agent is blocked | one turn at a time, answers reach their request | `Bridge` |
| Embedding API (`pkg/svpc`) | - | Ask, Answer, Close, watchPermissions | agent, permission service | the meaning of AllowSession, ranging over a channel, closing beside a turn | what its documentation says | `Embed`, `Permission` |
| LSP client (`internal/lsp`) | outstanding calls, handlers | Call, Notify, the message loop, applyEdit | language servers | unlocked writes, server death, edits that move one another | every call returns, edits land where they were meant | `LspClient`, `Edits` |
| Workspace watcher (`internal/lsp/watcher`) | registrations, open files, timers | WatchWorkspace, debounce, OpenFile | file system, language server | timers replaced as they fire | the server knows the file as it is | `Watcher` |
| Application life cycle (`internal/app`, `cmd`) | clients, contexts, wait groups | start, restart, Shutdown, pumps | everything | shutdown against start-up, dropped events | everything is released, in order | `AppLife`, `Terminal` |
| Configuration (`internal/config`) | the file, the global | Load, Update*, updateCfgFile | windows, agent | unlocked read-modify-write, kill between truncation and write | a setting acknowledged is kept | `Settings` |
| Terminal window (`internal/tui`) | dialogs, messages, cached pictures, composer, list of files | one event loop, commands in goroutines | all services, a person | keys handled later than pressed, messages in any order, caches | an answer was meant, the screen is current, a prompt arrives where the screen says | `Terminal`, `Transcript`, `Composer`, `Windows`, `Sidebar` |

Without a model: generated code (`lsp/protocol`, 9 979 lines, and the scanning
of SQL rows), themes, prompts, model tables, rendering, start-up data of `cmd`.

## Modules

### Approval and Permission

`Approval` is the promise: every question a tool asks gets at most one verdict,
and "allow" always rests on something somebody said. It knows neither channels
nor timers.

`Permission` is `permission.go` with the front-end half of an approval.

| Model | Code |
|---|---|
| `autoApproveSessions`, `sessionPermissions`, `pending`, `closing` | the fields of `permissionService` (`pendingRequests` by its keys) and the state of `done` |
| `respCh` | the channel of capacity one of each request |
| `queue`, `subscribed` | the broker's one subscriber channel |
| `pc`, `verdict` | the tool goroutine inside `Request` |
| `shown` | `bridge.awaiting`, or the event in the embedding API's loop |
| `apc`, `job`, `copy` | HTTP handlers of `/permission`, or the embedding API's loop, inside Grant, GrantPersistant or Deny |
| `said` | history variable: what people answered |

`Request` is split where another goroutine can see a difference: the check of
the approved sessions, the search of the approved scopes, the Store, the
Publish, the select, the deferred Delete. `append` to `sessionPermissions`
takes no lock, so it is a read and a later write, and one of two may be lost.
A Go slice read during such an append may in principle be torn; the model
reads the old or the new contents. The quadruple an approval is matched on
(tool, action, session, directory) is one value, a scope.

### Turn

`Turn` is `processGeneration`, `streamAndHandleEvents`, `processEvent` and
`finishMessage`, over a sequence of turns of one conversation.

| Model | Code |
|---|---|
| `store` | the session's rows of the messages table |
| `history`, `msg`, `results`, `i` | `msgHistory`, `assistantMsg`, `toolResults`, the loop index |
| `stream` | what the provider goroutine has accumulated in this attempt |
| `cancelled` | the turn's context |
| `pc` | head of the loop, about to open the stream, receiving, just after an event, tool loop, inside a tool |
| `outcome`, `ran` | history variables |

Text is dropped: a message is its role, its tool calls, its results and its
finish reason. A save under the turn's context fails when that is done; where
the code makes up for it under `context.Background()`, an event interrupted in
the middle ends in the state of one interrupted right after it, and the model
has the latter only. Where the code does not (a stream error, a refusal) the
lost save is in the model. The `break` after a refusal leaves the `select`, not
the loop: later tools are run although their results have just been written as
cancelled; the model does the same.

### Agent and Embed

`Agent` is `activeRequests` with Run, Cancel and Summarize. Each operation of
the `sync.Map` is one step and nothing larger is. A turn's work is one step
here; its inside is `Turn`. `listening` and `heard` are the caller's end of the
channel without a buffer; `Leave` is the terminal window, which never reads, a
callback that returns false, or a connection that closes. `Panic` goes through
`logging.RecoverPanic`, which sends an error and leaves entry, context and
channel as they are. `Embed` is the same seen from a program that calls Ask,
Answer and Close of `pkg/svpc`: the rows a turn needs, the event it ends with,
and the channel between.

### Bridge

`Bridge` is `gui/server.go`: chat handlers with their pump, the turn slot, the
look-up of the stored session, the watcher goroutine with `perm` and
`awaiting`, and the answer handler. The watcher subscribes in a goroutine of its
own (`watching`, `WatcherSubscribes`), its subscription has room for `GuiBuffer`
requests, and the broker drops what finds none. A turn and its permission request
carry the name of the chat; the agent and the permission service are reduced to
what the bridge can see of them. `Restart` loses everything but the rows.
`unheard`, `spoiled` and `parted` record the three ways in which its promises do
not hold: a request published before the watcher has subscribed, or with a full
buffer, is never shown; an answer with an unknown action uses the request up
(`server.go:451`); and two first requests, or a title that `generateTitle` has
replaced, give one conversation two sessions.

### History and FileTools

`History` is the files table: a row's version comes from the latest row *by
second*, with three attempts at a free number. `FileTools` is edit, write,
patch and view for several sessions, with the one table of read times they
share, each call cut at stat, read, permission, write, history, record. A
content is a set of lines, so that a change by somebody else is visible and
nothing more. `known` says whether a tool has shown or written what is in a
file, or else whether it came while a call was at work on it; `replaced` is what
a write found on the disk, which is not always what the call has read, since a
person is asked in between. A write tool that found no file takes the old content
as empty without a second look (`write.go:120`), and a patch whose file cannot be
entered in the history goes on to the next file (`patch.go:316-330`). `History`'s
reading of the versions and its insertion are one step: what two of them in the
same instant do to a number is there already as a number found taken.

### The components that `MCRules` and `MCServices` extend

`Bridge`, `Parts`, `Sessions`, `Settings`, `Store`, `Streams`, `ToolGate` and
`Watcher` name their variables and actions so that one module can extend them all
(`ConfigInit`, `StoreNext`, `dbRows`, ...), and so do `Shell` and `AppLife` for
`MCServices`, and `Composer`, `Sidebar`, `Terminal` and `Windows` for `MCWindow`;
their proofs are in modules beside them.

| Module | Model | Code |
|---|---|---|
| `Watcher` | `loop`, `events`, `debounceMap`, `armed`, `firing` | the event loop of `WatchWorkspace`, fsnotify's channel, `debounceMap` and the timers running |
| | `registrations`, `isOpen`, `text`, `watchTold` | the registrations, the file in `openFiles`, what a goroutine has read and not yet sent, what the server was told |
| `Sessions` | `row`, `held` | one row of the sessions table; the copy of it that `TrackUsage`, `generateTitle`, `Summarize` or the task tool has read and not yet saved |
| `Streams` | `at`, `attempts`, `calls`, `told` | where the goroutine of `send` or `stream` of one of the four clients is, the calls it has put together, the events on the agent's channel |
| `ToolGate` | `tool`, `gateAt`, `acts`, `verdict` | which of fifteen tools is called, the step it is at, what it has started, what was answered; the tools are a table of steps |
| `Settings` | `configFile`, `cfg`, `work` | the file, a process's copy of it, the update each writer is in: read, truncated, written; `kept` is what was acknowledged |
| `Store` | `sessions`, `dbRows`, `call`, `dbTold` | the tables of sessions, and of messages and files; what each caller is about; what a listener has from events alone |
| `Shell` | `shellCall`, `commandQueue`, `processor`, `stdin`, `job`, `status` | where each bash call is; per shell its queue, the step of its processor, what was written to it, what it runs; the status files |

### The other parts

| Module | Actors | Left out |
|---|---|---|
| `LspClient` | callers, tools waiting for diagnostics, notification goroutines, the loop, the server | message contents |
| `AppLife` | one goroutine per server with its start, the request "initialize", the pings, the storing; watcher restarts, Shutdown | a second Shutdown in interactive mode |
| `Shell` | bash calls, processor, waiter, the shell itself with a pipe that may be full, over several shells, one of which may not start (`nil`) | output text |
| `PatchText` | none: parser and application, one line or section a step | rendering of diffs |
| `Terminal` | tools that ask, pump, program.Send, event loop, a person's keys, exit | other dialogs but as "takes keys first" (`inFront`) and "drawn over it" (`over`: help, "Summarizing", the question about initialization, a list) |
| `Transcript` | the agents that write, the event queue, the message list with its cache, the deferred renderView | summary mark, thinking text |
| `Composer` | composer, chat page and application, with the messages between them in any order | layout, history of prompts |
| `Windows` | the windows, what takes a key, what comes of it later, the agent's events in a channel that may drop them | what is chosen in them |
| `Sidebar` | the history's events, the command that listens and renews itself, the log page that takes them meanwhile | layout; the second listener after Ctrl+N (`chat.go:108`): the sidebar is one and the same |
| `Settings` | concurrent bridge requests or dialogs, loading, killing, restarting | environment beyond one key, project file |
| `Edits` | none: the changes of one request, one edit a step, at bytes; a character is one or two bytes and one UTF-16 unit | `\r\n` in new text; characters outside the basic plane |
| `Parts` | a turn that makes a message grow (text, reasoning, calls, results, pictures as data and as addresses), the row, a reader | text itself |
| `Search` | none: grep, glob (each in two ways), ls, completion; files that cannot be opened, lines too long to scan, names with a colon | patterns: how often a file is hit is given |
| `Conversions` | none: what five providers are sent, the types of pictures, inputs that are no objects, schemas by what each client keeps of them, the chunks Copilot streams | wording |
| `Providers` | none: the client for a model, the options that reach it | what the libraries make of them |
| `Store` | callers on connections, statements and their events, a listener | encoding of rows |

In `Terminal` a key remembers whose dialog had the keyboard when it was pressed
and what was drawn over it, and an answer remembers its key; `surprised` collects
the requests that took the keyboard with a key under way, `beneath` those that
came when a list was already drawn over their place. In `Settings` the file is read, truncated and written in three steps,
as `os.WriteFile` does it. In `Transcript` a
picture is the set of things it was drawn from, so that an outdated cache entry
is different from a fresh one. In `Parts` the parts of a kind are picked by place with a
recursive function, of which the prover can say more than of a filter with a
predicate. In `Edits`, `PatchText`, `Search` and
`Conversions` the reference is a definition that does not share a line with the
algorithm.

### Composition

`MCApproval`, `MCRules`, `MCServices` and `MCWindow` put components beside each
other that share no variable. To check them as one state space the first state
chooses a `part` and the others stay as they begin; the state count is the sum,
not the product. The components proved about are extended, the others
instantiated under a renaming (`INSTANCE ... WITH`).

Where components do interact the seam is in the models: `Permission` implements
`Approval`; `FileTools` uses `History`, and so does `Sidebar`; the verdict a
tool gets in `ToolGate` and `FileTools` is any that `Approval` allows, and that
it comes at all is `NobodyWaitsForGood`; what `Turn` takes from its stream is what
`Streams` shows a client to send.

## Runs

| Run | Module, config | Question | Result |
|---|---|---|---|
| `permission` | `MCApproval` | safety of the service and refinement of `Approval`; is anything overwritten that nobody has seen, does a denied patch change anything, can a change be undone | holds |
| `permission_scope` | `MCPermission`, `MCPermissionScope` | is the embedding API's AllowSession scoped by tool, action and path (pkg/svpc/permission.go:38) | no: `prompt.go:208` approves the session |
| `turn` | `Turn`, `MCTurn` | are stored conversations replayable, truthful and in step with memory; do refusals and cancellations end turns | holds |
| `agent` | `MCAgent` | stale entries, lost results, sessions kept busy | holds |
| `agent_one_turn` | `MCAgent`, `MCAgentOneTurn` | is a second turn refused while the first runs (pkg/svpc/README.md:125) | no: two concurrent Runs both pass the check |
| `files_edit_answers` | `MCFileTools`, `MCFileToolsEdit` | do the edit tool's special cases work as described (edit.go:60-61) | no: `Run` falls through to replaceContent and reports an error |
| `files_patch_atomic` | `MCFileTools`, `MCFileToolsPatch` | is a patch atomic (patch.go:64) | no: `ApplyCommit` writes file after file |
| `library_new_session` | `Embed`, `MCEmbedNewSession` | does Ask with the empty session id start a conversation, as the examples do | no: no such session is stored |
| `endpoint` | `Providers`, `MCProvidersEndpoint` | does a configured endpoint reach the client | no: a second group of options replaces the first (OpenAI always, Anthropic with a reasoning coder) |
| `services` | `MCServices` | do LSP calls, shutdown, bash calls, permission questions, the turn slot and calls of the library come to an end; is an answer the call's own | holds |
| `rules` | `MCRules` | thirteen safety questions, one per part | holds |
| `window` | `MCWindow` | five questions about what the terminal window shows and takes | holds |

The properties of the passing runs, and what each allows because the code does:

| Property | Says | Excused |
|---|---|---|
| `VerdictHasAuthority`, `DeniedStaysDenied`, `PendingIsLive`, `ImplementsApproval` | who is told yes has grounds, a no stays a no, what is pending waits, the service keeps its promise | |
| `OverwritesOnlyKnown` | no tool overwrites a content nobody has seen | what came while a call was at work; the target of a move |
| `DeniedPatchChangesNothing` | a patch denied in one file changed none | |
| `HistoryHasBoth` | the history has what a change of edit, write or patch replaced on the disk, and what it wrote | what came to the file while a person was asked (it is overwritten and kept nowhere), a database call that fails, three version numbers in a row taken, deleted text, the target of a move |
| `StoreCanBeGoneOnFrom` | calls and results pair, tell what ran, and are what memory holds | rows of a turn whose context went before they were saved |
| `RefusalEndsTurn`, `CancelEndsTurn` | the model is not asked again after a refusal; a cancelled turn ends | |
| `EntriesAreLive`, `WorkIsCancellable`, `HeardMeansFree`, `TurnEndsForAll` | the map of running requests tells what runs | turns that overlap another |
| `NoChangeMissed` | at rest the language server has the file's last text | a rename onto an open file, a stat that fails on a creation (the watcher ends), reports that overlap |
| `SessionKeepsAll` | no charge, title or summary is lost, none counted twice | two writers that overlap |
| `StreamEndsOnce` | one end per request, with the calls of the answering attempt only, after at most `maxRetries` repetitions; a panic of the goroutine is one of two | cancelled requests, answers that break off, a failure after message_stop, Copilot's token renewals; the two panics: Gemini's stream after a refusal, OpenAI and Copilot answering without a choice |
| `ToolsAskFirst` | nothing starts that was denied; a file is written and tests run only after steps that all went well; after a cancellation start only steps that do not look at the call's context | other steps follow failed ones (clean, lint, test and doctor, the next platform, stapling); `doctor` runs under `context.Background()` |
| `PatchDoesWhatItSays` | an accepted patch does what its lines say | white space where it was found inexactly |
| `ClientsAreServedApart` | one turn with a client at a time; session_id first and once, nothing after an error but `done`; a question shown and pending can be answered; a conversation has one session, across restarts | turns cancelled with their connection, unknown actions, racing first requests, replaced titles |
| `AcknowledgedIsKept` | a setting answered with success is in the file | another update between read and write, no file at start, the moment of rewriting |
| `EditsAreSimultaneous` | all edits refer to the document as it was | positions after a character that is not ASCII, ranges that end past the end, deletions of a whole line's text, insertions at one place, the last newline |
| `RowTellsAll` | a message read from its row is what was said until it was written | pictures given as an address: none is read back |
| `SearchTellsAll` | an answer that does not say it is cut is complete | places whose own path has an ignored name; what grep drops in silence: files it cannot open, lines of more than 64 KB, paths with a colon |
| `ConversionsKeepAll` | what a provider is sent says what the conversation says, and the schemas of the tools what they declare | a summary made in mid-round; inputs that are no objects; the types of pictures (Gemini half, Copilot none); what is required (Anthropic), lists of values and inner requirements (Gemini); parameters declared a level too deep; chunks of several pieces |
| `OptionsReach` | what is configured for a provider reaches its client | an endpoint replaced by other options (the run `endpoint`) |
| `StoreIsToldTruly` | counts are right, nothing is orphaned, a listener has what is stored | crossing events, cascades, updates of a deleted row |
| `VerdictWasMeant` | an answer comes from a key pressed while the request had the keys and was to be seen | a dialog that appears under the fingers; help, "Summarizing" or the question about initialization drawn over it; a list that was there before it |
| `WindowIsCurrent` | with all events delivered the window shows what is stored | lost events; a conversation changed while another was shown |
| `PromptsArrive` | a prompt goes with its attachments to the session the screen shows | prompts in flight while the session changes |
| `WindowsTellTheTruth` | the window on top takes the keys; an answered question is not asked again; "Summarizing" means work, and work is seen | windows named in `Windows` that are drawn over without taking keys; a refused Summarize, and an end of one that the broker or the pump dropped; another turn's error in between |
| `SidebarShowsChanges` | the list of files is that of its session | events between two subscriptions or while the log page is shown, rows of one second |
| `CallReturns` | who calls a language server gets an answer | the server died or its input was garbled, a message the loop could not read (the loop ends, the server lives), two goroutines in the map of handlers |
| `ExecReturns` | a bash call is answered | commands that fill the pipe of a shell that never reads again |
| `AskIsShown`, `CloseFreesSlot` (`ConnectionsAreServed`) | a question of a live turn is shown, a closed connection frees the slot | questions the broker dropped |
| `ShutdownEnds`, `NobodyWaitsForGood`, `CallersAreTold` | whoever waits gets an answer | a client that joins late, a request or ping to a dead server; a panicked turn |
| `ClientsOutliveWatchers`, `ExecAnswersOwn` | no client is stopped under its watcher; a bash call gets its own command's end | |

### Bounds

- `permission`: three requests, two of one scope, so that a remembered scope is
  matched and a different one is not, in one session; two answerers, so that
  appends overlap; a buffer of two for three requests, so that an event is
  dropped. The plain "allow" is left to `services`, since it changes nothing
  but the channel. File tools: two sessions (the second views and writes), two
  files, two calls, one outside change, two seconds: enough for a change between
  any two steps of a call, for a move onto a file, and for rows equally old.
- `turn`: two turns (what one leaves behind the next one reads), two rounds,
  and two calls per round, the fewest in which a cancellation or refusal has a
  call before it or after it. `MaxRounds` limits the model, not the agent: in
  the last round it asks for no tools.
- `agent`: two turns and two summaries of one session. A cancelled turn, its
  successor and the Delete of the first already show every loss of an entry.
- `services`: one caller, one server request and two waiting tools (they
  displace each other's handler); two language servers, one panic; two bash
  calls, a queue of one and two shells (a call waits behind another, and a
  shell dies under it); two chats, one of which may leave, room for one
  question in `perm` and for one in the watcher's subscription, so that the
  broker drops one; two permission requests in two sessions, one headless, a buffer of
  one; one call of the library with one round of one tool.
- `rules`: three texts, two events, one registration and four timers; two turns
  with two rounds, a task and a summary; two retries and five attempts; two
  calls to tools; every patch of up to three lines over eight kinds of line,
  against every file of up to three lines, and pairs of sections; two chats, one
  restart, the same or different conversations; two writers, two requests, two
  starts; every two edits at positions before, in and past a document of up to
  two lines, one of them with a character of two bytes, every two changes of
  whole files; three changes of a message; seven
  files with one hidden, one ignored name and a limit of two, one of them
  unreadable in each of the ways there are; conversations of
  three messages, schemas nested twice, tools declared in both ways, four chunks; every agent, provider and
  environment; four operations on the tables by two callers.
- `window`: two requests (which are symmetric: no property tells them apart and
  none of the run is temporal), buffers of one, two keys of six: two that answer,
  one that selects, help, one for a window in front, one for a list; two conversations, one with
  a task, three selections, one change of size, a queue of one event; two
  prompts, sessions and switches, two other messages (`MaxExtras`); three keys of
  thirteen over the windows, one event; two paths, two sessions, three rows.

A bound on something that could go on for ever (`MaxPanics`, `MaxShells`,
`MaxAttempts`, `MaxStarts`, ...) only stops new occurrences; what is under way
ends by itself. `MaxTimers` is not of that kind: it is the number of names for
timers, and a change waits when none is free. Four is more than two events and
a registration can have at one time.

### Fairness

The Go scheduler runs every goroutine that can run: weak fairness on the steps
of each goroutine, and on nothing else. Nobody has to answer, subscribe, cancel,
listen, press a key or shut down.

- `NobodyWaitsForGood` assumes for its first half that the five-minute timer
  fires (`requestTimeout`, permission.go:63, of which docs/api.md:100-101 says the
  contrary), and names that assumption in the formula; the half about Shutdown does
  without it.
- In `Turn` tools return (the permission wait is bounded, as just said) and a
  stream whose context is done brings one more event or is closed, since the
  HTTP request carries that context; a live stream may go on for ever. In
  `Agent` and `Embed` the work of a job ends.
- In `LspClient` a server that is alive and can read its input answers;
  `CallReturns` excepts exactly a dead server, a garbled one, a loop that ended
  over a message it could not read, and the runtime's stop. In `AppLife`
  Shutdown's own steps are fair once it was called. In `Shell` the processor,
  the waiter and the callers are fair, and an idle shell takes the next command
  from its pipe; that a command ends is not assumed: what ends the waiting for
  one that hangs is its time-out. In `Bridge` the handlers and the watcher
  are fair; the agent, the person and the timers are not.

The fairness of the parts of `services` is stated over each part's own
variables; a part that is not followed has no step and asks for none.

Deadlock is not checked in the passing runs: their models end when the bounded
inputs are used up, or, as the application does, for good. `FileTools` says with
`Rest` where it may stop, so its own two runs check it.

## What is proved

Everything here holds for all values of the constants: any number of sessions,
requests, files, turns, rounds, calls, attempts, timers. The bounds that keep
TLC's runs finite are ordinary constants in the proofs.

Assumptions on the constants, all evaluated by TLC in the runs:
`Permission` (scopes belong to sessions, a queue has room for one, the buttons
offered are among the kinds there are), `Agent` (turns and summaries are
different jobs), `Turn` (`BoundsAssumption`: naturals, one round at least),
`Streams` (`maxRetries` is a natural), `Watcher` (so is the number of timers),
`FileTools` (`ToolsAssumption`: requests are requests of the four tools with
paths and lines of the instance, the directory starts with contents or nothing),
`Settings` (`SettingsAssumption`: keys, addresses and themes are texts, "not set" is
not an entry, the files it may begin with are files), `Store`
(`StoreAssumption`: an id is of one thing, a row is something, there are finitely
many rows), `Shell` (`ShellAssumption`: there is a shell), `AppLife`
(`NamesAssumption`: there are finitely many language servers), `Bridge`
(`TalksAssumption`: each chat belongs to a conversation, and the mark of an event
without a request is no chat), `Composer` (`PromptAssumption`: prompts are counted by a natural).
`ToolGate`, `Sessions`, `Terminal`, `Windows`, `Sidebar` and `Parts` need none.

| Module | Theorems | Property |
|---|---|---|
| `PermissionProofs` | `Invariance`, `TypeCorrect`, `Authority`, `RefusalHolds`, `PendingExact`, `Implementation` | `VerdictHasAuthority`, `DeniedStaysDenied`, `PendingIsLive`, `ImplementsApproval` |
| `AgentProofs` | `Invariance`, `TypeCorrect`, `NoStaleEntry`, `Cancellable`, `HeardIsFree` | `EntriesAreLive`, `WorkIsCancellable`, `HeardMeansFree` |
| `TurnProofs` | `Invariance`, `TypeCorrect`, `CanBeGoneOnFrom`, `RefusalEnds` | `StoreCanBeGoneOnFrom`, `RefusalEndsTurn` |
| `FileToolsProofs` | `Invariance`, `TypeCorrect`, `KnownIsOverwritten`, `DenialChangesNothing` | `OverwritesOnlyKnown`, `DeniedPatchChangesNothing` |
| | `HistoryInvariance`, `ChangesCanBeUndone` | `HistoryHasBoth` |
| `RecordsProofs` | `SessionInvariance`, `SessionTypeCorrect`, `KeepsAll` | `SessionKeepsAll` |
| | `SettingsInvariance`, `SettingsTypeCorrect`, `AcknowledgedStays` | `AcknowledgedIsKept` |
| | `StoreInvariance`, `StoreTypeCorrect`, `StoreTold` | `StoreIsToldTruly` |
| | `PartsInvariance`, `RowIsTrue` | `RowTellsAll` |
| `ServersProofs` | `StreamInvariance`, `StreamTypeCorrect`, `EndsOnce` | `StreamEndsOnce` |
| | `WatchInvariance`, `WatchTypeCorrect`, `NothingMissed` | `NoChangeMissed` |
| | `AppInvariance`, `OutliveWatchers` | `ClientsOutliveWatchers` |
| `FrontProofs` | `TermInvariance`, `KeysMeanIt` | `VerdictWasMeant` |
| | `GuiInvariance`, `ServedApart` | `ClientsAreServedApart` |
| | `WinInvariance`, `WindowsAreTrue` | `WindowsTellTheTruth` |
| | `PromptInvariance`, `PromptsDoArrive` | `PromptsArrive` |
| | `SidebarInvariance`, `SidebarIsTrue` | `SidebarShowsChanges` |
| `ToolsProofs` | `GateInvariance`, `GateTypeCorrect`, `AskFirst` | `ToolsAskFirst` |
| | `ShellInvariance`, `ShellTypeCorrect`, `AnswersOwn` | `ExecAnswersOwn` |

None of these properties is inductive as it stands. What each inductive
invariant adds, and why it has to:

- **Permission.** An answer being delivered was said (`JobsWereSaid`), one
  request is answered once (`AnsweredOnce`), what a channel holds is that answer
  (`ChannelsCarryAnswers`), a request still shown has no answer
  (`ShownUndecided`), every remembered scope or session stems from an answer or a
  headless owner (`RememberedWasSaid`, `TrustWasSaid`, including the slices
  held between the two halves of an append), and a call has no verdict before
  it leaves the select (`UndecidedBeforeReturn`). The refinement maps each step
  to one of `Approval` or to a stutter.
- **Agent.** Jobs in flight together have noticed each other (`OverlapIsSeen`),
  without which a Delete could take away the entry of a turn that overlaps
  nothing; a result is handed over only after the entry is given back
  (`HeardIsOver`).
- **Turn.** The log is sound but for the row being written, which is the message
  in memory or differs by a finish reason whose save was lost (`LogIsSound`,
  `RowIsKept`): pairing is broken between the save of a message with calls and
  the save of its results, so the property can only be carried as "sound before,
  and this is the row". Ids still to be given are not in the log
  (`CallsAreFresh`), so a result cannot meet an older call. The tool loop has
  filled exactly what it has passed (`LoopIsAt`), and calls are made only while
  a round is left to answer them (`RoundsAreLeft`).
- **FileTools.** What is recorded as read is known (`FreshIsKnown`); a call's
  targets that exist are known from its check to its writing, what it has
  written stays known until it is recorded (`TargetsAreKnown`); it keeps to the
  paths of its request (`StaysOnTargets`); and it asks for everything before it
  writes anything, only an edit starts over (`AsksBeforeWriting`). A change from
  outside makes a content unknown only if no call is at work on the file, which
  is the whole of the argument why the one table of read times is enough. For the
  history: what a change is to leave is stored, waits among the rows still to be
  added, or found the three numbers taken that an insertion tries (`RowsAreKept`);
  what an edit or a write has planned is an edit, and a file it creates had nothing
  (`PlansAreEdits`). What a write finds on the disk is what its call has read, or
  something came between (`FoundInv`): without that the rows would have the
  content that was read, and nothing would tie it to the one replaced. That a first row is not gone past when it cannot be added, since
  a failing `Create` ends the call, is what keeps the old text.
- **Sessions.** Who holds a copy of the row is at work (`HoldersAreAtWork`), and
  no copy has more than was charged (`NobodyOvercharges`): that is enough for
  "never twice". For "nothing lost" the copies are the row while nobody is
  tangled (`CopiesAreCurrent`), the summary a row points to exists
  (`SummariesEnd`), everything before it is covered (`SummaryStandsForAll`), and
  only the first turn makes a title (`FirstTurnTitles`).
- **Settings.** The file has what was acknowledged, but between an update's read
  and its write that is a promise about the copy it holds: every copy that will
  be written back tells all that the file told (`CopiesTellAll`), but for what
  was acknowledged to others since, which is `missed` and goes into `doubt` when
  the copy is written. And an update past its first field has a setting to
  change (`UpdatesAreNamed`), without which its value could not be kept.
- **Store.** Between a statement and its event a listener is behind. What is
  carried is that the event under way says what is stored and is the only one
  of its key (`EventsAreCurrent`), and that a key with none under way has been
  told (`RestIsTold`); a second writer of the key makes it `mixed`. Who
  publishes or deletes knows its key (`CallsHaveKeys`). That a count is right is
  inductive only together with the rows: the trigger's decrement is the
  cardinality of a list that lost one element (`RowAdded`, `RowRemoved`).
- **Shell.** A call is met in its own shell only (`CallsAreAtHome`), waits while
  it is queued or executed and has no answer (`AskedAreWaiting`), and is in one
  place of the shell (`CommandsAreOnce`). What was not written to the shell has
  no status (`UnwrittenIsFresh`), and what has one is in no shell's hands
  (`StatusIsLast`); an answer "done" needs a status.
- **Streams.** The end is last among the events (`EndIsLast`), has been told by
  the time the goroutine is done (`EndsWhenDone`), who asks again has not asked
  too often (`AsksInLimits`), and calls come from one attempt, the last.
- **ToolGate.** Verdicts belong to calls (`VerdictsAreCalls`), an error ends the
  turn (`ErrorsEndTurn`), what is remembered was granted by an earlier call
  (`GrantsComeFirst`), the call under way is allowed (`CurrentIsAllowed`), steps
  go in order (`StepsGoInOrder`) and what writes a file or tests a build follows
  only steps that all went well (`BuildsOnWell`): other steps do follow failed
  ones, so the order of steps alone says nothing. The table of fifteen tools is checked once, row by
  row (`ToolFacts`).
- **Watcher.** The last event in the queue tells whether the file exists
  (`LastEventTells`), timers have names of their own (`NamesDiffer`), a text is
  held between its reading and its sending (`TextsAreHeld`), and a change is
  told, held, or going to be looked at again by a timer or an event
  (`ChangeIsOnItsWay`, `RemovalIsTold`).
- **Language servers' lives.** Shutdown goes on when the watchers' wait group is at
  zero, which says something of the watchers only because the group counts them
  (`GroupCounts`: a cardinality, of those that run and of those that panicked and
  are starting again while their deferred Done is still to come); after that only
  late ones join (`NobodyIsLeft`).
- **Terminal.** A key is read later than it was pressed, and an answer is sent later
  than its key was read. While a dialog has the keyboard the keys under way were
  pressed with its request to be seen, unless it surprised somebody
  (`KeysAreMeant`), and a list that lay over it lay there before it
  (`ListsWereThere`); the same is carried for what a key has become, in the queue of
  responses, in the loop's hands, in the request's channel (`AnswersAreMeant`).
- **Bridge.** Three parts, proved one after the other. The slot is taken
  exactly while a handler holds it (`SlotIsHeld`), an agent works with its
  connection open only under `pump` (`AgentsAreServed`), and a stream that goes on
  is well begun and has told no end (`StreamsAreTurns`). A request is on its way
  only for an agent that has asked (`OnlyAskedIsUnderway`), so that what is new in
  the watcher's queue has not been passed before, and what was passed is remembered
  until it is answered (`PassedIsAwaited`): `ShownIsAnswerable` alone says nothing of
  a request still in `perm`. A conversation that is not parted has one row
  (`OneRowEach`), which the map knows or the table's prefix finds (`RowIsFound`);
  one handler searches for it at a time (`OneSearches`), who is about to create it
  has seen that there is none (`SearchersKnowNothing`), and a title, which takes
  the prefix away, is made only for a conversation the map knows (`TurnsAreKnown`).
- **Windows.** The order in which windows take keys and the order in which they are
  drawn are two lists, and they agree only because some windows never meet
  (`OneAtATime`: a pair more than the property names). "Summarizing" outlives its
  work while the event that ends it waits in the channel; an answer waiting there does
  not end it, so the property's "some event" is not enough (`EndIsTold`,
  `OverlayEnds`). An event for which there is no room is dropped, and whether that was
  the end is remembered (`lostEnd`). And a summary runs only in a selected session (`WorkIsSeen`).
- **Composer.** A prompt that is still to arrive has gone nowhere and is in one place
  (`PromptsAreNew`). Editor, page and list remember a session each; they agree, or
  one message about sessions is under way, or two met and `promptCrossed` says so
  (`SessionsFollow`). A prompt under way finds the page, its session and the agent as
  it left them, unless it strayed or was crowded, and then in a session made for a
  prompt (`SentArrives`): messages overtake
  one another, so this is carried for each prompt under way and not for a queue.
- **Sidebar.** A session's record of a path has one row as it was before
  (`OneBefore`) and no row later than the one recorded last (`LastIsLatest`): a list
  loaded from the table then has what is due. Events come to a listener that is ready
  (`OneEar`). While one is under way the list is behind, and it is the last of its
  path that tells the rest (`ListFollows`); a first version is told only to a list
  that has nothing of the path. An event that the log page takes is one missed.
- **Parts.** Of text, reasoning and finish there is one part at most (`OneOfEach`), in
  the message and in its row: appending goes to the first text found, so with two the
  pieces would not be in their order. The rest are facts of the operator that picks
  the parts of a kind: what it gives of two lists joined, of one with a part replaced
  and of one with a part taken out. Where they
  need induction over the list, the proof takes the least place at which they would
  fail: the library's induction theorems are out of the provers' reach.

Each inductive invariant was checked by TLC on the run's instance before it was
proved.

Only model-checked:

- Liveness (`CancelEndsTurn`, `TurnEndsForAll` and the six temporal properties
  of `services`): the prover handles neither fairness nor ENABLED.
- `PatchDoesWhatItSays`, `EditsAreSimultaneous`, `SearchTellsAll`,
  `ConversionsKeepAll`: an algorithm and its reference both compute by recursion over
  data. Induction of the library is out of the provers' reach, three of the four use
  RECURSIVE operators, which a module with theorems may not, and an argument from the
  least failing place, as for `Parts`, has to relate two recursions that walk the data
  differently. `OptionsReach` is a finite question, and TLC asks all of it.
- `WindowIsCurrent`: it holds of conversations as the agent makes them (ids and owners
  are unique, results answer the calls of the message before, a child writes while its
  caller is the last message). In `Transcript` a script provides that; for every
  script the theorem would be about the script, with the drawing of nested calls as a
  recursion over it.

## Disagreements that no run singles out

The models reproduce these, or stop short of them where noted; each property
names the ones it excuses.

- Permission and terminal: docs/api.md:100-101 says "A `permission` event suspends
  the turn until `POST /api/v1/permission` answers it; the turn does not time out on
  its own", but every request is denied after five minutes
  (`requestTimeout`, permission.go:63 and :126), which is what `NobodyWaitsForGood`
  rests on; help covers the dialog while keys still go to it (tui.go:554-566,
  :767-795), and so do "Summarizing" and the question about initialization; keys go to the permission dialog although a session,
  command, model or theme list is drawn over it (tui.go:599); a new request
  replaces the one shown and keeps its selected option; an answer to an earlier
  request hides a later one (tui.go:288); two quick keys make two answers, and a
  third can block the event loop in a send nobody receives. Publish racing the
  broker's Shutdown sends on a closed channel and panics (recovered); in
  `Permission` Publish's snapshot of the subscribers and its sends are one step,
  and this race is in `Terminal` (`PublishPanics`).
- Turns: docs/api.md:94 has an event for each tool, but the channel of `Run`
  carries the last message only; a turn cancelled in the tool loop is returned
  as a Response, not an error (agent.go:305); a cancelled or failed stream leaves
  calls without results, which the next turn sends as they are; a panicked turn
  keeps its session busy until somebody cancels it.
- Library: the text so far is repeated on every event (prompt.go:18, :100); a
  failed turn makes Answer return the empty text and no error (prompt.go:137);
  Close returns while a turn is at work (svpc.go:183, :196).
- Session rows: generateTitle reverts the cost of the first round; two
  overlapping summaries lose messages; a failed child's cost is not charged;
  Summarize reports an error and then "Summary complete" (agent.go:691); a
  refused Summarize is told to nobody (tui.go:317); a summary made in mid-round
  leaves results without their calls.
- Streams: OpenAI's and Copilot's wait between attempts has the meaning of a
  cancelled context the wrong way round and closes the channel without an event;
  Copilot renews a refused token without counting; Gemini asks again after an
  empty stream without limit; it goes on after a refusal with the answer it did
  not get, and panics (gemini.go:313-324), as OpenAI and Copilot do over an answer
  without a choice (openai.go:224, :288, copilot.go:360, :496); the agent leaving
  early leaks the sending goroutine.
- Providers: an image goes to Copilot as bare base64 (content.go:74 makes a data
  URL for OpenAI only), and to Gemini with half its type ("png",
  gemini.go:61-63); Anthropic drops calls with an input that cannot be
  parsed but sends their results, Gemini sends the call with no input
  (gemini.go:80); Anthropic is not told which parameters are required
  (anthropic.go:136-139), Gemini neither the values of an enumeration nor what is
  required within a parameter (gemini.go:481-515); build, docker, sign and other
  tools give a whole schema where their parameters should be (build.go:45-69), so
  that providers see parameters named "type", "properties" and "required";
  a picture given as an address is written to its message's row and dropped when
  that is read (message.go:245-249); OpenAI and Copilot send an empty assistant
  message; Copilot looks at the first call of a chunk only; Azure without an
  endpoint is an OpenAI client with empty options.
- File tools: the read records are shared by all sessions; the target of a
  move is neither checked nor recorded (patch.go); deletion of text stores an
  empty content as the new version (edit.go:353); three attempts at a version
  number may all fail; what comes to a file while a person is asked is
  overwritten, and the history does not have it; a patch goes on when the history
  of one file fails (patch.go:316-330).
- Tables: deleting a session removes its messages and files and tells nobody;
  an update of a deleted message is published all the same; the foreign-keys
  pragma is set on one connection of the pool; times are in whole seconds where
  the schema says milliseconds; the unused Prepare would fail, since
  ListNewFiles names a column that is not there.
- Search: ls of a place with an ignored name is empty; grep and glob judge
  ignored names by the absolute path; grep says nothing of the files it could not
  search or parse (grep.go:237-253, :300-303, :334-344).
- Other tools: build.go asks only when a project_path is given, although
  runner.go:60-62 says "Every invocation goes through the permission service first";
  clean, lint, test and doctor report failures as text and end well
  (build.go:172-186), and doctor's checks outlive a cancelled call (build.go:253); a denial is an error in some
  tools and a text in others; image files named by the second overwrite each
  other.
- Patch language: a section at "End of File" longer than the file panics, an
  empty section without heading is read for ever, a `@@` line that is not in the
  file is ignored, white space counts as fuzz 1 where 100 was meant.
- Shell: a command that timed out is still run, and delays the next one; two
  calls that find the shell dead start two, and a call may be given the other's
  (shell.go:52-58); a shell that does not start is stored as nil, and the call
  panics; a command behind a busy shell that fills its pipe blocks the processor,
  which then looks at no time-out (shell.go:177).
- Language servers: WriteMessage has no lock, so two messages can be mixed; the
  thirty seconds of WaitForServerReady do not end a Call; the diagnostics map is
  read while it is written; the message loop ends for good at a message it cannot
  read (transport.go:96-101), as a request with a text for an id is
  (protocol.go:10), and every call waits on the living server. A failing stat ends the whole watcher; the handler
  for registrations is global to the process. A server that joins after
  Shutdown's cancel loop is waited for and never cancelled.
- Edits: positions are taken as bytes (edit.go:106-117) where tsprotocol.go:4105-4124
  says UTF-16 units unless something else was negotiated, and client.go:148-192
  negotiates nothing: after a character that is not ASCII an edit lands too far to
  the left; create and rename without options overwrite what is there; a failure
  in the middle leaves the changes made before; a range whose end line lies
  beyond the document keeps the last line's tail; a removed last newline is put
  back.
- Settings: without a file at start every update begins from `{}` and drops the
  one before, although config.go:958 says it persists; server.go:655 says a key
  is remembered for the next start, but an unknown provider is refused before
  the file is touched; after a failed Load UpdateAgentModel panics on a nil map,
  and a second Load returns the broken configuration without an error; a running
  agent keeps its provider whatever a chat request sets (server.go:646,
  docs/api.md:60).
- Window: an end of a summary that the broker (broker.go:110-114) or the pump
  (root.go:252-255) drops leaves "Summarizing" standing for good; the log page takes
  the events of files from the list beside the conversation (tui.go:661); after switching away and back a conversation is shown from pictures
  that may be outdated (list.go:490), and renderView runs beside the event loop
  over an unlocked map; a child's own calls appear with its next message only.
  Esc never leaves the composer's delete mode in a conversation (editor.go:72,
  page/chat.go:114); `q` and backspace do not leave the logs page (tui.go:93);
  a theme list over the quit window, and a permission request under the list of
  sessions, leave a hidden window with the keys; resizing the window of
  arguments goes back to its first field; the file picker panics on Enter in an
  empty directory; `$A` is replaced inside `$AB`; an older timer clears a newer
  message of the status line.

## Not modelled, and the plan

- `agent.Update` and IsBusy against a running turn (hazard agent.go:517):
  `Agent` and `Turn` together, with the provider as a variable.
- The unsubscribe goroutine of the broker; models and static files of the
  bridge; `LoadGitHubToken`, MCP and LSP entries of the configuration; the pings
  by kind of server; usage figures.
- The rendering of diffs and tool output, themes, what is chosen in the file and
  model windows: data in, text out, one goroutine.
- Generated code, and tables. More than a fifth of the repository's Go lines are
  LSP protocol types.

Theorems worth having next: `WindowIsCurrent`, with the script replaced by `Turn` as
the one who writes.

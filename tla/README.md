# A TLA+ development of the Codex ACP adapter

The program under `src/` is an adapter between an ACP client (the Zed editor)
and `codex app-server`, a child process that speaks JSON-RPC over stdio. It is a
tokio program: the client's requests are served by concurrent tasks, a reader
task takes the child's output apart, and two shared mutexes, one inbox and a
handful of booleans keep them out of each other's way. These modules model that
machinery, check it with TLC on small instances, and prove the safety part of it
with TLAPS for instances of every size.

Paths below are relative to `src/src/`; `thread/` is `src/src/thread/`.

## The system

| Part | State | Operations |
| --- | --- | --- |
| Transport: `app_server.rs`, `app_server/` | the app lock (`Mutex<AppServerProcess>`), the active-request slot, the stdin lock, two pipes, the inbox | request, answer, time out; the reader: complete, reject, forward, fail |
| Prompt and turn driver: `thread/prompt/flow.rs`, `thread/turn/` | `active_turn_id`, `last_completed_turn_id`, the pending command approval, the cancel watch, reconnect state | prompt, start a turn, drive it, interrupt, finish, flush, offer to implement a plan |
| Drains: `thread/notification/dispatch.rs` | none of their own: they share the inner lock and the inbox | background drain, post-turn drain, compaction watcher |
| Approvals: `thread/core/server_requests.rs`, `thread/features/approvals/` | a dialog per server request | ask the user, map the choice to a decision, answer |
| History replay: `thread/session/settings.rs`, `view.rs` | `history_replay_in_progress`, `replay_turns` | roll back, replay, load |
| Compaction: `thread/features/session/`, `features/notification/` | `compaction_in_progress` | request, announce, end, time out |
| Thread switch and archive: `thread/features/session/controls.rs` | the thread id and everything reset with it | archive, unarchive, fork, resume, switch |
| Sessions: `codex_agent.rs`, `thread/session/lifecycle.rs` | the session map | load, resume, close, delete, restore at start-up |
| Per-turn features: `thread/features/plan`, `tool_events`, `file`, `thread/turn/diff.rs` | fallback plan, started calls, file changes, diff history | one handler per item or delta |
| Limits and usage: `thread/session/config/limits.rs`, `usage_cache.rs`, `features/notification/events` | warned thresholds, usage shown, `context-usage-cache.json` | update, warn, observe, persist, restore |
| Choices: `thread/session/selector_preferences.rs`, `settings.rs`, `config/`, `display_maps.rs` | model, effort, tier and their defaults; `selector-preferences.json`, `display-maps.json` | start, pick, save, load models, render |
| Rendering, prompt parsing, start-up, scripts | | pure, or run once |

How they interact: a prompt task calls the transport through the app lock, which
is taken after the inner lock (`Mutex<ThreadInner>`) and never the other way
round. The reader puts everything that is not a response into the inbox. The
inbox is read by whoever needs it: the driver of a turn, the drain before a
prompt, the drain after a turn, the watcher of a compaction. What keeps a
message of a running turn from a drain is a check of `active_turn_id` under the
inner lock (`background_drain_may_receive`). What the messages of a turn leave
behind (plan, cards, diff) lives in `ThreadInner` and on the client's screen and
is reset by the start of a turn and by a switch of threads. The files of the
home directory are shared with other adapter processes and not locked. A server request becomes an ACP
dialog and later one answer on the child's stdin. A cancel is a change in a
`watch` channel that only a subscribed driver sees.

What is hard: timeouts that drop futures in the middle of a write, responses
that come after their request has given up, cancels against answers against the
end of the turn, `?` in the middle of a handler, one boolean shared by several
asynchronous operations (replay fence, compaction flag), awaiting the user
with a lock held, items that outlive their turn, and files that several
processes read, change and write back. PROJECT.json lists these hazards at their lines, with the
properties that cover them.

What makes each part correct:

* Transport: requests never interfere, a server request is answered at most
  once, timeouts work whatever the child does.
* Turn driver: a prompt ends with the end of its own turn and no other, no
  approval is answered twice or forgotten, a cancel ends the turn, the prompt
  returns.
* Drains: they never take a message from a running turn.
* Replay: the fence is up exactly as long as history is being replayed, and no
  turn runs then.
* Compaction: the flag is always lowered, and a compaction is always watched. The
  code has three holes here, and the properties say where they begin.
* Thread switch: archiving never leaves the session on the thread it archived,
  also after a failure half way, unless it says so; a session that moves leaves
  behind only what can be found again.
* Sessions: a session whose delete succeeded is never back by itself on the
  thread that is gone; a call returns unless the user, or a request that has no
  timeout, keeps its session waiting.
* Per-turn features: the plan on the screen never falls back and never hides the
  server's while the turn runs; a command ends with all of its output on its card
  or in its terminal, once; items of an earlier turn leave the screen alone; `/diff`
  shows what its turns changed; the server is told what the user picked.
* Limits and usage: a warning is news; the count that is shown belongs to a turn
  of the thread, and after a restart to its last one.
* Choices: what was chosen survives a restart, and what is offered is accepted,
  but for the effort a session already has.

## Modules

| Module | Models | Extends |
| --- | --- | --- |
| `Rpc` | the promise callers rely on: one request at a time, each ends once, success only with its own answer | |
| `Transport` | `AppServerProcess`, its reader and its child; refines `Rpc` | |
| `MCTransport` | symmetry for TLC | `Transport` |
| `TransportProofs` | types, the slot, the refinement of `Rpc`, lines and answers | `Transport`, TLAPS |
| `TurnDriver` | prompts, turns, approvals, drains and cancels of one thread | |
| `MCTurnDriver` | symmetry for TLC | `TurnDriver` |
| `TurnDriverProofs` | all safety properties of the driver | `TurnDriver`, TLAPS |
| `HistoryReplay` | the replay fence | |
| `HistoryReplayProofs` | the fence, for clients that need it only one at a time | `HistoryReplay`, TLAPS |
| `Compaction` | the compaction flag | |
| `CompactionProofs` | types and `CompactionWatched` | `Compaction`, TLAPS |
| `Sessions` | the registry of sessions, their threads and the store they share | |
| `SessionsProofs` | types and `OwnThreadUsable` | `Sessions`, TLAPS |
| `SessionsHistoryProofs` | `SwitchKeepsHistory` and `NoGhostSession` | `SessionsProofs` |
| `PlanText` | the plan parser on classes of lines | |
| `PlanFallback` | the plan shown and the fallback plan | `PlanText` |
| `ToolCards` | cards of tool calls and the output of commands | |
| `TurnDiff` | the diff of a turn and the history of diffs | |
| `Approvals` | options, picks and replies of server requests | |
| `TurnItems` | the router and the steps of a turn: composes the four above | `PlanFallback`, `ToolCards`, `TurnDiff`, `Approvals` |
| `MCTurnItems` | scenes, plans, texts, diffs and offers for TLC | `TurnItems` |
| `TurnItemsProofs` | all safety properties of what the screen shows | `TurnItems`, TLAPS |
| `OpenSessions` | the sessions of all processes | |
| `RateLimits` | warnings about the limits of the account | `OpenSessions` |
| `UsageCache` | usage of the context and its cache file | `OpenSessions` |
| `Preferences` | model, effort and tier, and the file of defaults and lists | `OpenSessions` |
| `DisplayMaps` | validation and rendering of display maps (no state) | |
| `SessionConfig` | sessions, picks and files: composes the four above | `RateLimits`, `UsageCache`, `Preferences`, `DisplayMaps` |
| `MCSessionConfig` | scenes, snapshots, models and edits for TLC | `SessionConfig` |
| `SessionConfigProofs` | all safety properties of limits, usage and choices; limits always have a label | `SessionConfig`, TLAPS |

Operators whose names begin with `Mut_` are not part of any specification. Each
is a plausible mistake in the definition that follows it, named under "mutants"
in PROJECT.json; with the mistake in its place TLC must find the named property
violated, which shows that the property depends on that code.

### Transport

`task` holds where each caller stands: waiting for the app lock, holding it,
writing its line, awaiting its oneshot. `slot` is the `ActiveRequest`, `reply`
the oneshot, `nextId` the id counter, `outcome` what each request returned.
`StartRequest` is `request_inner` up to the write, `InstallAccepted` and
`InstallRefused` are `ActiveRequestGuard::install`, `SlotAfterDrop` its `Drop`;
`Timeout` is the elapsed `tokio::time::timeout`, which may cut a line short
(`pipe = "torn"`). The reader is `DeliverResponse`, `RejectStartupRequest` and
`Forward`, by `classify_reader_action`; a rejection holds the reader until it
has written to the same stdin as the callers. `EndReader` is
`fail_active_request`. The child is external: it may answer late or never, ask,
notify, babble, close its output or exit.

### TurnDriver

One record of the thread (`innerLock`, `activeTurn`, `lastCompleted`, `sawPlan`,
`stall`), one line of state for each prompt (`phase`, `turn`, `mode`, `pending`,
`interrupted`, `notified`, `target`, `result`) and one for each server request
(`dialog`, `answers`). The phases follow the code: `draining` is the drain before
a turn, `starting` holds the inner lock over `turn/start`, `driving` is the
select loop, `asking` a handler that awaits the user inside its message arm,
`cancelling` and `interrupting` the two halves of a seen cancel, `finalizing`,
`flushing` and `finished` are `finish_active_turn`, `offering` and
`implementing` the plan dialog and its turn. `innerLock` matters where the code
keeps the guard across an await; short critical sections are atomic. A request
to the server is used as `Rpc` promises it; `requested` holds the `turn/start`s
the server has still to act on, which it may do after the prompt has given its
request up (`StartFails`, 20 seconds). The app lock is not modelled here:
it is only ever taken after the inner one and held for one exchange, so it adds
no waiting that `Transport` does not show.

`Places` gives every place a server request can be in; `RequestsAccountedFor`
says there is exactly one, which relates the inbox, the hands of the readers,
the pending approvals and the answers.

### HistoryReplay

Prompts (any of which may turn out to be `/undo`), rollback calls and the tasks
that replay a loaded session share `fence`. A prompt looks at the fence twice, a
rollback looks before its request and raises it after the answer, and whoever
finishes a replay lowers it.

### Compaction

`flag` is `compaction_in_progress`. Requests raise it, `FlagAfter` is what a
drained notification does to it, `DriverReceives` what the driver of a turn does,
which handles `turn/completed` by itself. `watcher` is the task spawned for each
request. The server's compactions run one after the other with its turns, and a
turn may contain one. A request that times out after 20 seconds is a failure on
this side (`CompactionTimesOut`, `StartTimesOut`), whatever the server does with
it: it may compact later, out of `queued`, or start the turn (`late`).
`mishaps` is a history variable: it records the three ways in which the code
loses track of a compaction: a turn that ends inside its own, an end that lowers
the flag of another, and a request that timed out.

### Sessions

Each call of the client is a task (`task[c]`) that runs beside the others, as
`CodexAgent` spawns it; step by step it goes through the phases of its
handler, one phase for each await. A loaded session is an instance: `sessions`
is the map from session ids to instances, `bound` the thread an instance is on,
`process` its app-server child, `innerLock` the call that keeps `ThreadInner`
across a dialog. `store` is what all children share on disk: a started thread is
`unwritten`, known to its own process only, until its first turn.

`ResumeThread` with its retries, `DiscoverPath` and `OnRestoreFailure` are the
bootstrap in `lifecycle.rs`; `LoadSession` takes the one start-up bypass;
`DeleteThread` and `RemoveSession` are the two halves of `session/delete`.
`Resolve` and `Pick` choose the thread of `/archive` and `/unarchive`;
`ArchiveThread`, `StartReplacement`, `SwitchThread` and `Unarchive` are the rest
of `handle_archive_command_ext`, including its way back. Every await may fail,
and a process may die between any two. A delete, fork, archive, unarchive or turn
may also fail after the server has carried it out (`Answered`, `ForkLost`): the
store has changed, and `?` leaves everything on this side as it was.

`archiver`, `deletedVia` and `raced` are history: who archived a thread, which
session was told that it deleted it, which loads overlapped a delete of their session.

### TurnItems

One action handles one message of the server, or one step of the turn or the
session, and plays the part of every handler it reaches: `PlanFallback`,
`ToolCards`, `TurnDiff` and `Approvals` hold those parts. `active`, `stop`,
`lastCompleted` and `draining` are the turn as its driver leaves it, without
the driver's own interleavings, which are `TurnDriver`'s: messages are handled
one at a time under the inner lock, so their order is all that matters here.

The server's side is `life`, `owner`, `kind` and `produced`: what its items are,
whose turn they belong to and how much output they have made. Items end late or
never, `turn/completed` is repeated, and what is left of a turn comes during its
drain or in the next turn; a plan item may come in the drain too, when the mode
of the turn and the mark of the server's plan are gone. `Expected` is the check
of `handle_item_completed`.

* `PlanText` puts every line in the class the parser's predicates give it;
  `planBullet` is the line two predicates match. `PlanFallback` keeps the phase
  and the statuses of the steps; `visible` is the client's copy.
* `ToolCards` counts output in chunks: `output[c]` is what the card shows, 0
  what was typed. `UsesTerminal` and `Preview` decide between a terminal, a
  plain card and the two ends of a long output. A request for approval redraws
  the card of its command: a plain one gets its terminal (a second time),
  another the text of the request in place of its content (`covered`).
* `TurnDiff` takes a diff as the files it changes and deletes. Its paths are
  relative to the root of the repository and looked up in the workspace first,
  then at the root (`PathOf`). In a workspace below the root (`BelowRoot`) a file
  that is gone is not found there, and one whose path leads to another file of
  the workspace is taken for that one (`Namesakes`): such files may be shown
  twice, or hidden.
* `Approvals` computes the options with their ids and the reply a pick stands
  for, through the id, as the code does.

A behaviour is about one of five subjects, its *scene*: plans, the output of
commands, the other tools, diffs, approvals. A scene leaves out the messages
that do not touch its subject; the turn and the session are the same in all.
`told` and `settled` are history.

### SessionConfig

`Start`, `Switch` and `End` are steps of any session of any process. A step that
changes a shared file reads it and computes the new contents (`caching`,
`saving`), and another step writes them, or fails, or the session ends first;
the session's lock is held in between, so that only other sessions interleave.
Reads of the limits are answered long before they are applied (`reading`).

* `RateLimits`: `index` is the number of thresholds behind a window.
  `LimitsUpdated` warns, `LimitsObserved` only moves the index. A failed read is
  a snapshot without windows.
* `UsageCache`: `turns` are the server's, and rolled-back identifiers do not come
  back; `Counts` gives turns counts that tell them apart.
* `Preferences`: an absent key, a null and a value of the file are told apart, as
  the code does (`deserialize_double_option`). `Saves` is
  `persist_selector_preferences` with what it materialises. A file that does not
  parse keeps a session from starting and is never written over. Lists are sets,
  since their order is only that of a menu; of the layouts only that of the model
  selector is kept.
* `DisplayMaps` is pure. `EditMaps` and `EditFile` are the user's editor.

`checked`, `apart`, `chosen` and `seen` are history; `checked` are the sessions
whose effort was fitted to a model they knew when it was set. Sessions may all end, so a
deadlock means nothing here.

## Runs

Every run takes its constants from its cfg and uses no symmetry in liveness
runs. Each bound is a constant of the module, named in a comment there.

| Run | Instance | Shows |
| --- | --- | --- |
| `transport_safety` | 2 tasks, 2 requests, 1 server request, 1 notification, 1 unreadable line | type invariant, slot ownership, no interference, at most one answer, whole lines, refinement of `Rpc` |
| `transport_liveness` | 2 tasks, 2 requests, 1 server request | timed requests return whatever the child does; with a responsive child untimed requests and rejections complete |
| `turn_safety` | 2 prompts, 2 turns, 1 request, 1 notification, the watcher; a client that queues its prompts and one that does not | the safety properties of the turn driver; `DrivesActiveTurn` and `DrainsLeaveRunningTurn` for the client that queues, the others for both |
| `turn_liveness` | 1 prompt, 2 turns (the second implements the plan), 2 requests | a cancel ends its turn; the prompt returns |
| `turn_stall` (violation) | 1 prompt, 1 turn | the stall watchdog aborts nothing |
| `replay_serial` | 3 prompts, 2 rollback calls, 2 replay tasks, one client call at a time | the fence covers every replay and comes down |
| `replay_rollbacks` (violation) | 1 `/undo`, 1 call | two rollbacks share the fence |
| `compaction_watched` | 2 requests, 2 turns, 1 automatic compaction | the flag is watched and lowered, watchers end |
| `compaction_abandoned` (violation) | 1 turn, 1 automatic compaction | a flag nobody lowers |
| `turn_items` | 2 tool calls, up to 3 turns, 2 files, 3 chunks of output, a history of 2 diffs, 3 plan entries shown; five scenes | what the messages of a turn leave on the screen |
| `session_config` | 2 sessions at a time and 3 in all, 2 threads, 3 turns, 2 models, one of them without efforts; scenes for limits, usage, choices (two) and maps | what sessions know and remember beside each other |
| `sessions` | 3 calls of any kind, 4 threads, one active and one archived at the start, 1 retry | what an archive, a switch and a delete may leave behind; which calls return |

Why the bounds are enough. A late response needs two requests, and a third adds
nothing but another late one: the slot holds one request and the proofs cover
the rest. A turn left behind by a failed prompt needs two prompts and two turns.
One server request against two answerers (user, cancel or drain) is the smallest
race; two are in `turn_liveness`, where the second arrives after a cancel. The
fence and the flag are single booleans, so two holders and one bystander show
every way of losing them. In `Sessions` two calls race over a session that a
third has opened; the store begins with a thread to load or archive and one to
unarchive, and has room for one to start and one to replace or fork it. The
theorems about it hold for any number of each.

In `TurnItems` two calls are one that outlives its turn and one of the next;
three turns fill a history of two; three chunks with a head and a tail of one
make an output too long for a plain card; texts cover every class of line, and
plans of four steps exceed the three entries shown. In `SessionConfig` a stale
write needs two sessions at once and a third that reads the result; two turns of
one thread and one of another tell apart an old count, a rolled-back one and
another thread's. One model has two names and lists efforts, the other lists
none and has a default all the same, as the models of the repository's tests do.
Two picks suffice for one to undo the other, and edits of the
file count as picks. The scenes bound starts and picks (`scene.starts`,
`scene.picks`), each in its own way.

The assumptions on the client: a client of the kind "queues" (`Clients`) sends a
prompt only when the last one returned, as the repository's README states of Zed
(README.md:178: "external ACP agents receive queued messages only after the
current generation finishes"); `Serial` says the same of rollback calls. Both
are constants, and a run of each module drops them (`turn_safety` has both kinds
of client). `Sessions` makes the first
of the two for each session and runs everything else side by side; `NoGhostSession`
leaves out the loads that overlap a delete of the same session, which the code
does not order.

Deadlock is not checked where the system may end: the child exits, the callers
are done, all sessions are closed. `turn_items` checks it.

### Fairness

* Tasks: tokio polls every woken task (weak fairness of a task's own steps), its
  mutexes are fair queues and `select!` picks its ready arms at random (strong
  fairness of taking a lock, of receiving, of noticing a cancel).
* Timers elapse (part of the tasks' weak fairness).
* The user answers a dialog, if only with Cancelled: ACP requires it of clients.
* The server stops a turn it has been told to interrupt.
* That the server ends turns left alone, and that the child reads and answers,
  is not assumed: it is a premise of `PromptReturns`, `RequestReturns` and
  `RejectionCompletes`, written in the property.
* Sessions: weak fairness of each call's own steps, but for those that await an
  answer no timeout bounds (`AwaitsAnswer`): `thread/delete`, `thread/archive`,
  `thread/unarchive`, `thread/fork` and a turn. A child that lives and says nothing
  keeps such a call waiting for ever, and with it every call that waits for the
  lock of its instance. `BootstrapFails` is a failure and `Pick` the user's choice,
  so neither is fair. `CallsReturn` has the premise, for each call, that no call of
  its instance waits for the user or such an answer for ever (`HoldsUp`). What is
  left says that nothing else can hold a call up: the requests with a timeout, the
  retries, the restores, the inner lock and the calls of other instances.
* Compaction: the server goes on with its work or hangs for good, and the client
  sends another prompt after one that was turned away. A request is answered,
  refused or times out.

## Proofs

Every invariant and every action property that a passing run checks is a theorem
of its specification, for every value of the constants that satisfies the
assumptions below. Nearly none of them is inductive: each theorem rests on a
stronger invariant, `...Inv`, with three lemmas (`...Initially`, `...Inductive` or
`...Kept`, and the implication).

### The transport

`TransportProofs`, for any number of tasks, requests and messages:

* `TypeCorrect`: `Spec => []TypeOK`.
* `SlotOwnership` and `RequestsDoNotInterfere`: the slot belongs to the holder
  of the app lock, and no request ever finds it busy or receives the response
  of another. `SlotInv` adds that at most one task is past the lock, that its
  request is the last one issued and that the slot is either empty or its own;
  that suffices, because a late response carries an older id.
* `TransportImplementsRpc`: the refinement. It needs `IInv`, `SlotInv` together
  with the fact that every response under way, in the pipe or in the oneshot, is
  one the child has really served (`GenuineQueues`), and that what is issued
  stays issued. Each action then maps to a step of `Rpc` or to a stutter.
* `LinesStayIntact`: `LineInv` says whose the unfinished bytes in the pipe are
  (`BytesOwned`); only a write that was cut short leaves bytes that are nobody's.
* `NoRequestAnsweredTwice`: `AnswerInv` follows each request of the server
  through the pipes, the inbox, the reader and the hands of the tasks
  (`RequestFits`): it is in one of them at most, and answered only when in none.

They rest on `TransportAssumption` only: the reader and "nobody" are not tasks,
the bounds are natural numbers.

### The turn driver and what surrounds it

`TurnDriverProofs`, for any number of prompts, turns, requests and clients, from
`TurnDriverAssumption` (names are distinct, bounds are natural numbers):

* `TurnTypes`, and `PromptsStopWithTheirTurn`: `StopInv` adds that a turn has an
  owner once it is used and that every message under way, in the inbox or in a
  hand, tells the truth about its turn (`MessagesTrue`).
* `ActiveTurnIsDriven` and `RunningTurnKeepsMessages`, for the client that queues
  its prompts: `ActiveInv` adds that one prompt at most is on its way
  (`OnePrompt`), that its turn is the active one (`ActiveFits`), that whoever
  starts a turn holds the inner lock, and that the watcher of a compaction polls
  only while no turn is active.
* `RequestsAreAccountedFor`: `RequestInv` says of every request that it is in one
  place (`RequestsKept`), and when hands and pending approvals can be full
  (`HandsFit`).

`HistoryReplayProofs`: `FenceHolds` and `TurnsAwaitReplay`, for any number of
prompts, rollback calls and loads. They assume `OneAtATime`: the client waits for
each call (`Serial`), or it never uses both prompts and rollback calls. Without
it the first is false; `replay_rollbacks` shows how. `ReplayInv` orders the
calls: one is served at a time, and none is past the fence for good while a load
may replay.

`CompactionProofs`: `CompactionTypes` and `CompactionsAreWatched`, from
`CompactionAssumption`. `CompactionInv` says where the end of a compaction will
come from: a request that is out is alone and has raised the flag, an accepted
compaction has a watcher, and one that the server began is announced in the
inbox with its end behind it or still at work. The three mishaps of the property
void all of this but `TurnsDriven`.

### Sessions

`SessionsProofs` and `SessionsHistoryProofs`, for any number of calls, threads
and retries, from `SessionsAssumption` (the bounds are natural numbers):

* `TypeCorrect`, with the type invariant of the table of tasks kept apart
  (`TaskTyped`), since every step writes one entry of it (`Moves`).
* `ArchiveKeepsThreadUsable`: `Spec => []OwnThreadUsable`. The property says that
  an instance on a thread it archived has a command that answers for it. That is
  not inductive: nothing in it keeps a second command from moving the instance
  back, or the first from being about another thread. `SessionsInv` adds that a
  session names the one instance whose home it is (`Registered`), that a running
  prompt works there and is the only one (`PromptsAtHome`, `OnePrompt`), that
  what the command found out about its target is still so (`ArchiveTarget`), and
  that it moves to a thread its instance did not archive (`FreshSwitch`), which
  for a new thread follows from `Archivers`.
* `SwitchesKeepHistory`: `Spec => SwitchKeepsHistory`. `HistoryInv` adds that only
  a registered instance is on a thread, that `/fork` forks the current one, and
  that a command about to switch has put the thread it leaves on disk; the store
  never forgets such a thread (`WrittenStays`).
* `DeletedSessionsStayGone`: `Spec => []NoGhostSession`, for the deletes that
  succeeded; one that failed on this side keeps its entry. Every thread comes to a
  session through a call that started it, found it or was given its id, and the
  invariant `GhostInv` says who has to do with it meanwhile: nobody with an unused
  one (`UnusedUnnamed`), its call alone with that of `session/new`
  (`NewPrivateAt`), no delete of the same session with that of a load or a fork
  (`OverlapAt`, `IntactAt`), and with that of a switch only those who loaded it by
  its id, who are another session (`SwitchAt`). A delete works on the instance of
  its session, or the session had none (`DeleteAt`). `GhostStep` describes the
  steps of a running call by what they do to threads, `Arrives` a new call.

### The messages of a turn

`TurnItemsProofs`, for any number of calls, turns, files and scenes, from
`ItemsAssumption`, `MessagesAssumption` and the assumptions of the four parts,
which only type what the server sends. All rest on `TurnInv`, which says whose
turn an item belongs to.

* `RepliesMatchChoices` (`ApprovalInv`): the edits that a dialog speaks of are
  those the turn has announced.
* `EditsAreShownOnce` (`DiffInv`): while a turn runs its diff has no card yet and
  the paths of its edits are remembered. A file of the card that was not deleted
  and has no namesake has the path its edit had.
* `ReportsCoverLastTurns` (`HistoryInv`): the history is the newest part of all
  the diffs that have settled (`IsNewestOf`), and a turn settles one diff at most.
* `LateItemsLeaveCards` (`CardInv`): a started call is one of the present turn.
* `ServerPlanStaysShown` and `PlanMovesForward` (`PlanInv`): the phases of the
  fallback plan and the ranks of its steps, and which of the two plans the screen
  shows. The first holds up to a plan item that is handled in the drain.
* `OutputIsShownOnce` (`OutputInv`): of each command, which chunks have gone to the
  terminal or to the card and in which order. The property says that a card or
  its terminal holds the chunks in order, without repetition, and all of them, and
  that what a request for approval has put on a card is gone from it in the end,
  unless it hides a terminal.
* `ShownTypes` (`RestInv`).

### Limits, usage and choices

`SessionConfigProofs`, for any number of sessions, snapshots, models and threads:

* `LimitWarningsAreNews`: `Spec => []WarningsAreNews`, from
  `SnapshotsAssumption`. The property speaks of the last step alone; `LimitsInv`
  adds that the thresholds behind a window are at least those it had crossed
  when the session saw it last, and types what waits to be applied.
* `LimitsAlwaysRendered`: in every reachable state, whatever number the server
  reports, the map of a window has a label for it (the code panics otherwise).
  `MapsInv` says that the maps of a session are valid, though the file need not
  be: `Start` validates them, and `SelectSummary` keeps them valid. It rests on
  `MapEditsAssumption`: the file, when it parses, has its five keys.
* `OfferedEffortsWork`: whatever models are loaded, and whenever, a session accepts
  every effort it offers, but for the one it has. That one is accepted too, once it
  was fitted to a model the session knew, unless it is the default of that model
  (`CheckedFits`): nothing in the code makes sure that a model lists its own
  default. `EffortsAssumption` keeps the word "null" from being an effort.
* `ChoicesComeBack`: `ChosenKept` says that while sessions stay apart the file, and
  whatever is on its way to it, has the last choice of each kind.
* `CachedUsageIsNeverStale`: every entry of the cache, and every one about to be
  written, holds a count the server has reported for the turn it names
  (`Honest`); a session that starts compares that turn with the thread's last
  one. `CountsAssumption` types the counts.

Only model-checked: liveness, which needs fairness and ENABLED and is beyond this
prover: `TimedRequestReturns`, `RequestReturns`, `RejectionCompletes`,
`CancelEndsTurn`, `PromptReturns`, `FenceLifted`, `FlagLifted`, `WatchersEnd` and
`CallsReturn`. The three violated properties are shown false by their runs. No
module declares a RECURSIVE operator, so that theorems can be stated about all of
them.

## Findings

1. `StallWatchdogAborts` (`thread/turn/execution.rs:120`): README.md:725 and :731
   speak of a watchdog that aborts a stalled turn. `maybe_finish_stalled_turn`
   sends a notice and returns `Ok(None)` in every case.
2. `ReplayFenced` (`thread/session/settings.rs:287`): two rollbacks pass the
   fence together, and the first to finish lowers it under the other.
3. `PromptsLetThrough` (`thread/turn/execution.rs:409`): a turn that ends in the
   middle of the compaction the server began inside it leaves the flag up, and
   prompts are told to wait for a message that never comes.

`CompactionWatched` and `FlagLifted` are stated up to the third of these and two
more holes. When compactions overlap, the end of the first lowers the flag
for both and ends the watchers of both, so that a second one in which the server
hangs is without its watchdog. And a `thread/compact/start` that times out is taken
for one that did not start and gets no watcher (`features/session/controls.rs:97`),
though the server may compact nevertheless: prompts lower the flag in the end by
draining what the server says, unless it hangs. docs/upstream-feature-matrix.md:153
speaks of a watcher after every requested compaction.

Other behaviour met while modelling, which the models have and no run singles out:

* A rollback call does not look at `active_turn_id` (`session/settings.rs:235`):
  history may be replayed under a running turn. `replay_serial` excludes it by
  its assumption on the client.
* `EditsNotShownTwice` makes two exceptions in a workspace below the root of the
  repository (`turn/diff.rs:280`). A deleted file is not found at the root and gets
  another path than its edit had. A file whose path from the root exists in the
  workspace as well is taken for that other file: it is shown a second time, and is
  left out of the diff if that other one was edited.
* The text of a request for network access or more permissions replaces the terminal
  on the card of a command that has begun (`features/approvals/command.rs:165`), and
  the end of the command, which leaves the card of a terminal alone
  (`features/tool_events/command.rs:97`), does not bring it back, although
  README.md:241 has shell commands use terminals. `OutputShownOnce` leaves out that
  the terminal is seen.
* A default effort that the model does not list, and the configured list does not
  name, becomes the default of the model when a session starts
  (`session/selector_preferences/materialize.rs:49`); README.md:531 has it preserved.
  `ChoicesSurviveRestart` speaks of listed efforts.
* A delete that fails on this side after the server has carried it out leaves the
  entry of its session in the registry, on a deleted thread (`codex_agent.rs:847`).
* The effort selector offers the effort a session has, also when its model does not
  take it, and then refuses it (`session/config/model_selector.rs:242`,
  `session/settings.rs:116`): the server gave it, it was set before the models were
  loaded, or it is the default of a model that does not list it.
* A plan item completed in the drain replaces the plan of the server, for the end of
  the turn has forgotten that there was one (`core/item_handlers.rs:63`).
* `/diff` with a range shows, for each file, the old text of the first of its
  turns against the new text of the last (`features/session/diff.rs:25`): where
  these turns change separate regions the two do not belong together, and where
  they are equal the file is left out. `DiffShowsNewest` promises only the files
  that a single turn of the range changes.
* The fallback plan is shown completed when its turn failed or was interrupted
  as well (`features/notification/events/turn.rs:111`).
* A plan entry whose words name the plan and end in a colon or a full stop is
  taken for an introduction and dropped (`features/plan/parse.rs:110`).
* A switch of threads forgets the plan and leaves it on the screen
  (`features/session/controls.rs:381`).
* Ends of items that come after the drain of their turn are dropped, and their
  cards stay in progress (`core/item_handlers.rs:47`).
* When one window is exhausted, the notice leaves out what the other has just
  crossed, and its index has moved nevertheless
  (`features/notification/events/warnings.rs:74`): it is never told.
* A session that overlaps another saves its own old defaults together with a new
  choice (`session/selector_preferences.rs:435`); `ChoicesSurviveRestart` speaks
  of sessions that follow each other.
* A pick of a status summary writes `display-maps.json` from memory
  (`session/settings.rs:145`), also over one that has become invalid since.
* After `/undo` the usage shown stays that of the turn that was taken back, until
  the next report or a restart; the cached count is dropped by the turn's id.

## Not modelled

* Slash commands other than `/undo`, `/compact`, `/archive`, `/unarchive`,
  `/fork`, `/plan` and `/diff`, and the parsing of all of them: they show a text,
  or call what is modelled here. Review turns differ from other turns in their
  prompt only.
* Authentication, capabilities, listings and `/rename`: one request, no state.
* The limits of a drain (its end is one nondeterministic step), the contents of
  messages, labels of sub-agents, locations, titles, hunks of diffs, credits and
  reset times: nothing decides by them.
* The order of menus, the layouts of the selectors other than the model's and the
  preferences of slash commands.
* Start-up diagnostics and the scripts: they keep no state that outlives them.
* The composition of all modules in one specification. Each module abstracts
  the others at an interface it names: `TurnDriver` uses `Rpc`'s promise,
  `TurnItems` the order of messages that `TurnDriver` allows, `SessionConfig` the
  starts and switches of `Sessions`.

## Plan

Done: all modules above, their runs, and a theorem for every safety property that
a run checks. What is left:

1. Abstract specifications of single parts with a refinement, as `Rpc` is for
   `Transport`: the fence as a lock over `HistoryReplay` under `OneAtATime`, and
   the registry of `Sessions` as a map from which an entry goes for good.
2. `DrivesActiveTurn` for the client that does not queue its prompts, weakened to
   what the check of `active_turn_id` gives it.
3. The cancel that arrives before its prompt has subscribed to it
   (`thread/session/settings.rs:219`), and the delete whose answer is lost
   (`codex_agent.rs:847`): the two hazards without a property, for which the code
   promises nothing.

# Formal models of Paneacea

Paneacea is a Windows terminal workspace: one process that shows a Wails/Svelte
window, runs shells in pseudo consoles, keeps workspaces, tabs and split panes,
saves them in SQLite and serves a command line client over a named pipe. This
directory holds TLA+ models of it, the TLC runs that check them on small
instances, and proofs for instances of any size. Every module names the source
it models; `PROJECT.json` maps each definition to its lines.

    tlc -workers 2 -config MCRuntime.cfg MCRuntime       # and the other cfgs
    tlapm RuntimeProofs.tla                              # and the other ...Proofs.tla

## 1. Inventory

| Part | Source | State | Operations |
|---|---|---|---|
| Runtime | `internal/daemon/runtime.go` | `state`, `sessions`, `outputs`, `stoppingAgents`, `shutting`, busy and resume maps, viewport offsets; all under `r.mu` | `New`, `Call` (mutations with rollback, queries), `launch` with `OnData`/`OnExit`, `Close`, `monitor`, `metadata` |
| Workspaces, tabs, layout | `internal/model/model.go`, `mutate`, `closeTab`, `removePane` | maps of workspaces, tabs and panes, a binary tree per tab, active ids, sort orders | create, rename, close, split, focus, move, resize ratios |
| Output buffer | `internal/daemon/output.go` | ring of 2 MiB, `start`, `end`, `exited`, emulator | `append`, `exit`, `read`, `snapshot`, `attachSnapshot` |
| Output batcher | `internal/terminal/stream.go` | pending bytes, synchronized-output deadline | `Add`, timer, `Flush`, `Close` |
| Session | `internal/terminal/session.go` | process, pseudo console, `done`, `closeOnce` | `Write`, `Resize`, `Close`, exit and draining, `OnExit` |
| Emulator replies | `launch`, `output.go` | a pipe and a pump goroutine per launch | emulator writes, pump writes to the shell |
| History | `checkpointHistory`, `deleteHistoryLocked`, `persistence/store.go` | generations, saved records, `historyMu` | checkpoint, delete, restore, limit |
| Store | `persistence/store.go` | one SQLite file | `Load`, `Save` (a transaction), history tables |
| Agents | `agents/adapters.go`, `monitor`, `register`, `countAgentPrompt` | `Agent` records of panes | detect, register, resume, stop |
| Host and App | `desktop/host.go`, `desktop/app.go` | `ready`, `closed`; `streams` by id | start, close; `Call`, `ReadOutput`, `Detach` |
| Pipe server, client, CLI | `daemon/server.go`, `ipc/`, `cli/cli.go` | connections | requests with deadlines |
| Busy, resume | `sendInput`, `commandSubmitted`, `promptLocked`, `resumeAgent` | `promptAware`, `commandPending`, `resuming` by pane | send a line, read a prompt, resume an agent |
| Metadata | `launch`, `consumeMetadata`, `metadata` | the unfinished OSC sequence of a launch | title, directory, prompts |
| Window | `frontend/src/App.svelte`, `components/` | last state by revision, focus, mounted terminals | poll, mutate, mount and dispose views, read loops, input queues |

How they interact. Everything that reads or changes the runtime's maps takes
`r.mu`. Shells run on goroutines of their own: a session reads its pseudo
console into the batcher, the batcher's callback appends to the launch's output
buffer and takes `r.mu` for metadata; when the process ends and its output is
drained, `OnExit` takes `r.mu`, finds out whether the launch is still the
current one of its pane, and removes the pane. `Session.Close` is called from
goroutines that nobody waits for, except in `Runtime.Close`. The window calls
`Call` concurrently, polls the state every 1.5 seconds, and each terminal view
loops over `ReadOutput`, which waits in the output buffer it found.

What is hard, and what makes each part correct:

- *Lifecycle*: exits, closes, restarts, failing saves, shutdown and crashes
  meet in any order. No shell may run that nobody knows of, a pane may leave the
  database only because it was closed or its shell ended, and a pane shown as
  running has a shell.
- *Output*: readers are slower than writers, hold buffers that have been
  replaced, and are cancelled. No output may be lost, repeated or reordered,
  the exit comes last, and a view catches up in the end.
- *Layout*: every tab has a tree whose leaves are exactly its panes, and the
  active ids exist, after any sequence of operations.
- *Batching*: bytes leave in order, none stays behind, and a frame waits for its
  cursor, but not for long.
- *Replies*: the reader, the emulator, the pump and the shell must not wait for
  each other in a circle.
- *History*: a checkpoint must not bring back the history of a pane that was
  removed meanwhile.
- *Busy and resume*: a pane is busy while its command runs and no longer; a
  resume command is typed only into an idle prompt, and once.
- *Agents*: the process table is older than the state it is compared with; the
  root agent of a pane is kept, a stopped pane has none.
- *Metadata*: output is cut anywhere; a report is found once, whole.
- *Host*: start, failure and close of several processes meet; one at a time has
  the database, and a window that closes leaves nothing behind.
- *Window*: an older answer must not replace a newer state; typed text arrives in
  order; view, shell and emulator agree about their size.

## 2. Modules

| Module | What it is |
|---|---|
| `Runtime`, `MCRuntime` | pane lifecycle: runtime maps, launches, saves, exits, close, crash |
| `SavedPanes` | abstract specification: what the database promises |
| `OutputBuffer` | the ring and its operations, as operators on a record |
| `OutputStream`, `MCOutputStream` | buffers, lookup, streams, views: how output reaches a screen |
| `ByteStream` | abstract specification: bytes leave in order, each once, none stays |
| `OutputBatcher`, `MCOutputBatcher` | Add, ticker and Close of the batcher, with synchronized frames |
| `Layout` | the layout of a tab as a function on paths; `Join` of two |
| `LayoutTree` | the recursive methods of `model.Layout` on trees |
| `Workspace`, `MCWorkspace` | workspaces, tabs and panes over `Layout`, compared with `LayoutTree` |
| `TerminalPipeline`, `MCTerminalPipeline` | reader, batcher, emulator, pump, exit, checkpoints: locks and pipes |
| `History`, `MCHistory` | checkpoints, deletion, the setting, close and restart |
| `Busy`, `MCBusy` | busy panes and `agent.resume` |
| `AgentTracking`, `MCAgentTracking` | which agent a pane shows |
| `GuiSync`, `MCGuiSync` | the window's copy of the state |
| `RuntimeProofs`, `OutputProofs`, `BatcherProofs`, `PipelineProofs`, `HistoryProofs`, `StateProofs`, `AgentProofs`, `GuiProofs` | theorems, section 4 |

How they fit together. `Runtime` is the core; the other modules refine parts of
it that it leaves open. `OutputBuffer` is used by `OutputStream`, `Layout` by
`Workspace`; `LayoutTree` shows that `Layout` says what the recursive code does.
A batch that `OutputBatcher` emits is what `TerminalPipeline` passes to the
emulator and `OutputStream` appends; the generation of that buffer is what
`History` saves; the exit that ends the pipeline is the `OnExit` of `Runtime`; a
prompt in the output is what `Busy` and `AgentTracking` read; `GuiSync` polls
what `Runtime` changes. Each module keeps the state its properties relate,
because their product is out of reach.

### Runtime

A section of code that holds `r.mu` is one action; the boundaries are where
the lock is let go. `state` is `r.state.Panes` with statuses only, `disk` what
the last successful `Save` wrote, `session` and `output` are the maps of the
same name. A member of `Shell` is a launch: session, buffer and process in
one, because `launch` makes them together; a launch that nothing refers to any
more is used again. `toClose` holds the sessions some goroutine is about to
close, `closing` those whose `closeOnce` has fired.

| Action | Code |
|---|---|
| `Start`, `CloseStoreAfterFailedStart` | `New` and `host.start` |
| `NewPane`, `RestartPane`, `ClosePanes`, `MutateOther` | `mutate` as `Call` runs it: on a copy, saved, committed or rolled back |
| `StopAgents` | `agent.stop` |
| `SaveState` | saves outside `Call` (`metadata`) |
| `CloseSession`, `ShellExits`, `OnExit` | `Session.Close`, the end of the process, `OnExit` once it has the lock |
| `BeginClose`, `CloseSessions` | the two locked sections of `Runtime.Close` |
| `WindowsShutdown`, `ProcessEnds` | the environment; `ProcessEnds` is also every crash, and takes the shells along (job objects) |

Every save may fail at any time. `ClosePanes` takes a set because `pane.close`,
`tab.close` and `workspace.close` differ only in how many panes go. Panes whose
shell could not be launched ("error") have no session and no process.

### OutputBuffer and OutputStream

A byte is its position in the output of its launch, so a screen that lost,
repeated or mixed up bytes differs from the right one. `Limit` is
`historyLimit`, `Chunk` the 64 KiB of one read. `append` goes round the ring in
one step because the code holds `o.mu`. The emulator is fed under the same lock,
so a snapshot ends at `end`. Where it begins is left open, at most `MaxCut` bytes
after the first: the code bounds it by bytes and by lines of scrollback, leaves
the scrollback out on the alternate screen, and the view is reset before it is
written (`output.go:102-182`), so older output may be missing afterwards.

`OutputStream` follows one pane: its launches, `r.outputs[pane]` (`cur`), the
status the window sees, and any number of views, of which one is mounted. A
view's call goes through `App.ReadOutput` and the lookup in `Call`
(`FindOutput`), waits in the buffer it found (`ReturnOutput`, `ReadTimesOut`,
`ReadDetached`), and is written to the screen (`HandleOutput`), while the pane
is stopped, restarted, closed or removed, the tab hidden and shown (`Hide`,
`Show`), and the view replaced when the polled state has another process id
(`Refresh`). A disposed view sends `Detach`, which may arrive in any order with
its last call. Process ids are launch numbers; a stopped pane has id 0.

### OutputBatcher

Two locks: `emitMu` is held while a batch is emitted, `mu` only for a moment, so
a step under `mu` is one action and the emitting threads (the reader in `Add`,
the ticker's goroutine, `Close`) interleave with it. A byte is ordinary or
completes one of the three sequences the code looks for. Time is counted in
intervals of the ticker. `held` is a history variable: how long a deadline has
kept back what is in the buffer, not counting time in which the ticker's
goroutine is merely late. `HoldLimit` is twice the repair delay, because a wait
may outlive the frame it was begun for (the frame left in a full batch) and then
meet another. The abstract `ByteStream` is a queue, and the refinement includes
its fairness.

### Layout, LayoutTree and Workspace

A layout maps paths to panes and splits, which makes `Split` and `Remove` plain
function definitions; `LayoutTree` has the code's recursion, and `MethodsAgree`
compares the two on every layout that `Workspace` reaches, for every pane and
every move. `Workspace` has one action per mutation; ids are reused when
nothing refers to them any more. Sort orders are the positions in the
sequences: what is shown is in the order of the lists of ids. The numbers in
`SortOrder` are written by `tab.create` and `tab.move` and read by nobody, so
they are left out.

### TerminalPipeline

Each goroutine is a program counter, each mutex the name of its holder, each
pipe a sequence or a flag. `reply` is the emulator waiting in its unbuffered
reply pipe. `MaxLate` bounds the queries that are unanswered when the input
closes: with one the pump's failure is harmless, with two it is finding 3. What
the console host still holds when the output pipe is closed (`releaseResources`)
is lost in the model as in the code.

### History

`r.mu` and `historyMu` are given by who is where. A checkpoint copies under
both, lets `r.mu` go and writes pane by pane; deleting calls keep `r.mu`. What is
saved is the generation of a launch's output. Each write and deletion may fail.
`Drain` is `Runtime.Close` waiting for its sessions: `Session.Close` gives up
after five seconds and its error is dropped, so any shells may go on printing
while the last checkpoint runs and after it. `ClosedMeansSaved` leaves those
panes out, and those that a call still running launched, or trimmed, after
`Close` had ended the shells (`late`). The `unreadableHistory`
branch of the code is not modelled, nothing sets it.

### Busy and AgentTracking

`Busy`: a shell that reads its input line by line and prints prompts; the queue
of prompts that have been printed and not read is what the code cannot see.
Lines and clicks come at any time, prompts may be read before their commands are
recorded, and a reservation may expire while its call is under way. The history
variable `raced` keeps which of these three has spoiled something: `"typeAhead"`
(a line or a click that did not wait for what was under way, or a program that
ended before it had read what was sent), `"quickShell"` (a prompt read with a
command still to be recorded) and `"slowCall"` (a reservation that expired with
its call, the typed command or the agent it starts still to come). The next
prompt that is read with nothing under way empties it, and the properties then
hold again. Each names the races it does not survive; findings 4 to 7 are these
exceptions.

`AgentTracking`: processes have identities (pid and creation time), a table is
taken before it is used, agents start each other, register at any time, end;
shells number their commands. An agent ends before the prompt after it is read,
as the shell waits for it. One whose parents end is cut off from the tree of its
shell: `"forked"` (an MSYS fork, which `paneOrphans` still finds by the pane's id
in its environment, whichever launch it is of) or `"detached"` (found by nobody).
`Candidates` is what `monitor` matches: descendants of the shell first, then
those orphans (`runtime.go:1421-1430`).

### GuiSync

A member of `Call` is a call in flight; calls are served and answered in any
order, lost, refused, or fail to be saved, `pane.focus` too; the user acts
whether or not a mutation is unanswered. A pane that is closed does not come back
under its id. `focusLost` is a history variable: a focus has failed since the
view was replaced (finding 9). Revisions are unbounded in the type; `MaxChanges`
and `MaxClicks` bound them in runs.

## 3. What the runs check

| Run | Instance | Question |
|---|---|---|
| `runtime` | 2 panes, 3 launches, 2 agent stops | safety of the lifecycle, refinement of `SavedPanes` |
| `runtime_live` | 2 panes, 2 launches, 2 agent stops | running panes have shells; exits and closes end |
| `runtime_failed_start` | 1 pane, 2 launches | finding 2, a violation |
| `output` | ring 3, reads of 2, 5 bytes, 2 launches, 1 view value | safety of the stream |
| `output_live` | ring 1, reads of 1, 1 byte a launch, 2 launches, 2 views | views catch up, calls left behind end |
| `batcher` | batches of 4, chunks of 2, 6 bytes, delay 3 | order, holding and closing, refinement of `ByteStream` |
| `workspace` | 2 workspaces, 3 tabs, 4 panes | links, active ids, what an operation leaves alone, recursion against functions on paths |
| `pipeline` | 3 bytes, batches of 2, 1 late query | output before exit, no circle of waits |
| `history` | 1 pane, 2 launches, 2 changes each, 1 failure | what is on disk, and that it gets there |
| `busy` | 1 client, 2 resume calls at a time, 2 launches, 2 lines, one kind of race at a time | busy, idle, typed once |
| `agents` | 2 agents, 3 commands, 3 launches | which agent is shown, and when it goes |
| `gui` | 2 panes, 3 calls, 1 that is lost or fails | what the window shows |

Lifecycle (`runtime`, `runtime_live`). `NoShellLost`: a live process is the
session of a pane or is being closed. `PanesAreSaved`: what clients see is what
a restart loads. `ClosedPanesStayClosed`: rollbacks, late saves and restarts
bring nothing back. `PanesForgottenOnlyOnExit` and `ImplementsSavedPanes`:
crashes, shutdowns, failed saves and agent stops never cost a saved pane.
`IInv`: the inductive invariant of section 4, among it that the session and
output maps agree and no launch serves two panes, since `OnExit` decides by
them, and that a session the runtime closes under a pane that stays is never
taken for a shell that exited. `RunningPaneHasShell`, `ExitedPaneGoes`,
`ClosedSessionEnds`: as named, with `agent.stop`; only panes whose last restart
came while the mark of `agent.stop` was set (`early`) are excepted from the first
two (finding 1).

Output (`output`, `output_live`). `ViewShowsOutput`: the screen of a view that
follows the pane is the output up to its sequence, without gaps or repetitions,
from where its last snapshot begins. `ExitIsShownLast`: the exit message comes
after all of it. `ScreenMovesOn`: what is shown stays, and only a reader that the
ring has overtaken is redrawn. `ViewCatchesUp`: a view that
stays mounted ends up with all output and the exit of the launch the pane then
has, across a restart too. `DisposedViewsEnd`: calls left behind end.

Batcher. `BatcherInv`: after `Close`, everything accepted has been emitted (the
exit is told on that ground), and a frame is held only for a cursor that is
still to be shown. `HeldForLimitAtMost`: not for ever, however often frames
end. `ImplementsByteStream`: bytes leave once, in order, and in the end all.

Workspaces. `WorkspaceInv`: leaves, panes, tabs and workspaces name each other,
each once, and what is active exists. `RestKeepsPlace`: panes and tabs an
operation is not about stay where they are. `FocusSurvivesClosing`: closing
something else leaves the focus. `MethodsAgree`: see above.

Pipeline. `PipelineInv`: output is shown once and in order, and the exit is told
after all that was read; and `AnswersAreTaken`, the part of it that is about who
waits: the emulator, which holds `output.mu` and `emitMu` while it waits for the
pump, never waits for one that has stopped. `NobodyIsStuck`, the part that is
about circles: whoever has a lock, or waits for one of them, can go on, and
after the end of a shell one of those who handle it can; it is written with the
guards of the actions, and `CanMoveIsEnabled` compares them with `ENABLED`.
`ExitIsHandled`, `LocksAreReleased`: so exits are handled, calls answered and
checkpoints end.

History. `RemovedPanesLeaveNoHistory`: what was deleted is not written again by
a checkpoint under way. `SkippedOutputIsOnDisk`: what a checkpoint takes for
saved is saved. `HistoryInv`: with history off only a failure leaves anything on
disk, and of shells that end in time nothing is lost without a warning. `RetriesSucceed`:
what failed is done by a later try.

Busy. `BusyIsPending`: two records of one fact agree. `BusyWhileRunning`: a
running command shows, a shell at a prompt that has been read does not;
`BusyEnds`: an idle shell does not in the end. `TypesAtPrompt`,
`TypedOnce`: the resume command goes to an idle prompt, once. All as the comments
of the code promise, until a race is lost that the property names, and again
from the next prompt that is read with nothing under way. Agents. `RecordIsKept`, `FoundInThisShell`: neither nested
agents nor old tables replace the one that runs, and the indicator goes after
another command, not before; a forked agent of the former shell may be recorded
while `agent.stop` still closes that. `AgentInv`: a pane stopped by `agent.stop`
is idle without a process, unless an agent has registered once more before its
shell was closed; that one has ended. `ShowsWhatRuns`: in the end it is right.

Window. `NeverBack`: late answers change nothing. `Coherent`: equal revisions
are equal states, up to focuses under way and the active pane after one that
failed. `Converges`: polls repair what calls lost, that active pane excepted.

Bounds. Two panes are enough for one to interfere with the other's launch;
three launches let a pane's old launch drain while both panes run. Five bytes
through a ring of three wrap it and fall behind it, in one append or in
several; reads of two return before the end. One view value serves any number
of views one after the other, since it is used again when its call is over; two
are needed to replace a view while its last call is pending. In `output_live` a
ring of one byte makes every reader fall behind that misses a wake-up, and the
second launch is the one a view reads on to. A snapshot in `output` may leave out
any part of the output (`MaxCut` is `MaxBytes`). Two agent stops and two launches
in `runtime_live` leave a mark, let the new shell take it, and start again.

Two locks and three threads let every pair of emitters meet in `batcher`; the
delay of three intervals leaves room for a frame to end twice within it, and six
bytes for a frame to leave in a full batch of four and another to take over its
wait. Four panes in three tabs and two workspaces give nested splits, a tab that
goes with its last pane, and one to take the focus over. In `history` the second
launch is the current one beside the one on disk, and a second change beside the
one being written. Two calls of `agent.resume` at a time, each of which may be made
again when it has returned, let one meet a reservation that another has released;
`MaxRaces` is 1 in `busy`, so that one kind of race at a time is lost before the
pane is quiet again, any number of times. Three calls in flight let a poll, a focus and another
mutation overtake each other. `CHECK_DEADLOCK` is off where the system stops: a
pane that is gone with nothing mounted, a closed batcher, an ended shell. A
mutant of the code for each property (in `PROJECT.json`) is refuted by the run
that checks it.

Fairness. In `Runtime`: goroutines that wait for `r.mu` get it (`sync.Mutex`
does not starve), goroutines that were started run, and processes that were
killed end. In `OutputStream`: goroutines and the event loop of the window run
and the window polls. Nothing is assumed of clients, of programs in the panes
or of timeouts: reads need not time out for a view to catch up. In the modules
with locks of their own (`OutputBatcher`, `TerminalPipeline`, `History`) steps
that wait for a lock are strongly fair, for the same reason, and nobody has to
print, to end or to call. In `Busy` and `AgentTracking` output is read, tables
are taken and reservations expire; shells and agents do as they like. In
`GuiSync` calls are served and answered or fail, and the window polls when it is
not busy.

### Findings

Where the code does not do what its documents, comments or tests say. Finding 2
is the run `runtime_failed_start`. Of the others all but 3 happen in the runs
that pass: the property named excepts exactly this, and TLC shows the trace when
the exception is taken out.

1. `RunningPaneHasShell`, `ExitedPaneGoes`, the panes in `early`: `agent.stop`
   marks the pane and expects the `OnExit` of the stopped launch to clear the
   mark. If `pane.restart` comes first, that `OnExit` returns early
   (`runtime.go:439`) and the mark stays; the exit of the new shell is then
   swallowed at line 442, and the pane stays "running" without a shell, against
   README.md:163.
2. `MCRuntimeFailedStart.cfg`, `RestoredPanesKept`: when the `Save` of a start
   fails, `New` closes the sessions it launched without setting `shutting`; their
   `OnExit` removes the panes and saves that, against README.md:152.
3. `MaxLate = 2` in `MCTerminalPipeline.cfg`, `ExitIsHandled`: the pump stops at
   its first failed write (`runtime.go:362`) and leaves the emulator's reply pipe
   open. Two queries in the last output of a shell whose input has closed leave
   the emulator waiting with `output.mu` held; the exit is never handled, and a
   call that needs that output under `r.mu` stops the runtime.
4. `BusyEnds`, and the second part of `BusyWhileRunning`, `"quickShell"`:
   `sendInput` records a command after it has written it (`runtime.go:827-831`); a
   prompt read in between is taken back, and the idle pane stays busy until the
   next prompt, against `runtime.go:649-650`.
5. `BusyWhileRunning`, `"typeAhead"`: every prompt ends the pending command,
   whichever it belongs to (`runtime.go:676`), against `runtime.go:57-59`.
6. `TypesAtPrompt`, `"typeAhead"`: `typeResumeCommand` checks and writes without a
   lock (`runtime.go:627-642`), and may type into a command, against
   `runtime.go:596-597`.
7. `TypedOnce`, `"slowCall"`: a resume call that outlasts its reservation and
   fails deletes another call's (`runtime.go:587-590`), against
   `runtime.go:573-575`.
8. `AgentInv`, `registered`: `register` does not look at the pane's status, and an
   agent that registers while `agent.stop` closes its shell is shown in the
   stopped pane, against `agent_lifecycle_test.go:75-76`.
9. `Coherent`, `Converges`, `focusLost`: a focus shown before it is saved is not
   taken back when the call fails, and polls bring the same revision
   (`App.svelte:199`), against `doc/wails-implementation.md:71`.
10. `HistoryInv` (`ClosedMeansSaved`), `late`: "Sessions drain their final output
    on close, so the last checkpoint follows session shutdown"
    (`runtime.go:164`), but `Session.Close` returns after five seconds whether or
    not the shell has ended (`session.go:127`) and its error is ignored
    (`runtime.go:162`); what the shell prints from then on is lost without a
    warning.

## 4. What is proved

All constants are arbitrary (any sets, ring and read sizes, bounds); the
assumptions are the `ASSUME`s of the modules, each evaluated by a run.

`RuntimeProofs`: `TypeCorrect`; `LifecycleInvariant` (`[]IInv`); from it
`ShellsNeverLost`, `OwnClosesMarked`, `VisiblePanesSaved`, `ClosedForGood`;
`RuntimeImplementsSavedPanes` and `ForgottenOnlyOnExit`. The properties are not
inductive by themselves: that a rollback loses no shell needs that a session
has a pane (`SessionsHavePanes`), that an exit is judged correctly needs that a
running pane's session is not being closed (`RunningNotClosed`), and that a
save forgets only panes whose shell ended needs that memory and disk differ by
nothing else (`DiskLagIsExit`). The proof takes one lemma per action; the
refinement goes through `QuietStep`, which says what a step that neither draws
an id nor closes a pane owes to the database.

`OutputProofs`: first the buffer. `AppendHolds` shows that the ring holds the
last `Limit` bytes in place after any append, from `SameSlot` (two positions
less than a ring apart share a slot only if equal); `RangeIsOutput` and
`ReadContinues` say what a read returns. Then `StreamInvariant` (`[]IInv`): an
answer on its way continues the screen it is for (`AnswerContinues`), which
needs that a call holds the buffer of a launch no older than the one its view
shows (`HeldIsNewer`), that the current launch is the newest and is not marked
as exited before it ended (`CurrentIsNewest`), and that only disposed views are
detached (`DetachedAreDisposed`). It yields `StreamTypeCorrect`,
`OutputShownInOrder`, `ExitPrintedLast` and, as a step property,
`ShownIsKeptUnlessOvertaken`.

`RuntimeProofs` also has `OneLaunchPerPane` (from `IInv`) and
`RunningMeansAlive`, for any number of agent stops: that a running pane which is
marked was restarted early (`MarksAreEarly`), and that the other running panes
have shells, is inductive with `IInv`: an exit that is handled removes exactly
the pane of its launch, unless that is marked.

`BatcherProofs`: `BatcherInvCorrect` and `HeldForLimitCorrect`. The bytes added
are those emitted, carried by the thread that holds `emitMu`, and buffered, in
this order (`Ordered`), and a closed batcher keeps nothing (`Owners`). That a
wait is for a cursor still to be shown goes by two lemmas about what is printed:
`CursorAfterBoth` (output read in two pieces leaves the cursor as in one) and
`WaitGoesOn`. `BatcherStepsAreByteStream` is the safety half of the refinement:
each step of the batcher is one of `ByteStream` or leaves it alone. The limit
needs `Anchored`: a deadline and the first frame held are one delay apart as
long as both are known, and a deadline whose frame has left runs out within what
is left of one delay.

`PipelineProofs`: `PipelineCorrect`, from `Ordered` (what was read is what is
shown, in the batch, in the batcher and in the chunk, in this order) and
`Emitters` (who holds `emitMu`, and that the reader is done and the batcher
empty when the exit is told). That answers are taken needs the count of queries
on their way (`Late`): once the input is closed nothing is read any more, so the
count only falls, and the answer at which the pump stops is one of it; with at
most one in all, none is left for the emulator to ask. The count is a sum over
the places bytes are in, and `AddMoves`, `FlushMoves` and `EmulatorAsks` say that
it is kept as they move. Two queries would be enough to block (finding 3).
`SomebodyMoves` is that no lock is held by one who cannot go on: the callback
with `emitMu` and `output.mu` waits for the pump only, a call with `r.mu` and a
checkpoint with `historyMu` wait for `output.mu` only.

`ExitComesCloserCorrect` is what `ExitIsHandled` is without fairness, together
with `NobodyIsStuck`: once the shell has ended each step of reader, batcher,
callback, emulator, pump and waiter makes `StepsLeft` smaller, and no other step
makes it larger. It counts bytes by how far they have to go (a byte that is
flushed may cost a callback of its own) and the stages everyone has before them.
Then nothing can go round for ever, and only being scheduled, and getting a lock
that clients and checkpoints take and give back, is left to the fairness.

`HistoryProofs`: `HistoryInvCorrect`, `RemovedPanesCorrect`,
`SkippedOutputCorrect`. A checkpoint writes from a snapshot, so the invariant says
what a call under way may have changed since (`Settings`: while a checkpoint
writes, only a call that has still to clear or trim may contradict its setting),
which outputs are still to be written and how old they may be (`Copies`), what
is on disk of panes that are gone or unchanged (`Disk`), and what the last
checkpoint has still to do for the panes whose shells have ended (`Closing`).

`StateProofs` has what clients see: `Workspace` over `Layout`, then `Busy`.

*Layouts.* `Tree` is `WellFormed` with a longest path, without which an endless
layout would count as a tree. `SplitIs`, `RemoveIs` and `ResizeIs` say that each
operation makes a tree, which panes it has and that the others keep their order
(`OrderKept`). A cut is followed backwards: `Source` is where a node of the new
layout was in the old one, so what the old layout was not, the new one is not.

*Layouts by recursion.* `model.go` has nodes with children. `Join` is a split of
two layouts; `SplitRoot` takes a layout apart, and `LayoutInduction` shows, by
the length of the longest path, that a set with nil, the leaves and every split
of its members has all layouts. `RemoveAsWritten`, `FindAsWritten`,
`LeavesAsWritten` and `AtAsWritten` are the methods as equations between a split
and its children, `SplitAsWritten` and `ResizeAsWritten` what `pane.split` and
`pane.resize` assign through the node that `Find` and `At` return. Their six
theorems (`RemoveIsRecursive` and so on) show, for layouts of any depth, that
what solves the equations is what the operations by paths compute, and that it
is a solution.

*Workspaces.* `WorkspaceInvCorrect` from `WorkspaceIInv`: `WorkspaceInv`, that
layouts are trees, and `Apart`: no workspace is listed twice (else closing one
would leave its id), and one that is not listed remembers no active tab (else
its id, used again, would open with a tab that is gone). The lists of ids have
`AppendIs`, `WithoutIs` and `MovedIs`, which also say who stays ahead of whom.
With them and `OrderKept`, `RestKeepsPlaceCorrect`; `FocusSurvivesClosingCorrect`
needs that an active tab and pane exist before the step.

*Busy.* `BusyIsPendingCorrect`, for any clients and whatever races are lost.
It needs that a shell that has not started has printed no prompt
(`NoPromptYet`): otherwise the first prompt of a later launch would make a pane
prompt-aware whose flag was set by the process table. `BusyWhileRunningCorrect`,
`TypedOnceCorrect` and `TypesAtPromptCorrect` come from `FairInv`: as long as no
race but `"quickShell"` is lost, `CarefulInv` holds: there is one line or prompt
at a time, a prompt aware pane has a pending command while its shell works, one
call at most is past its reservation, and the reservation stands until the shell
has read. `QuietIsRight` is that it holds again once a prompt has been read with
nothing under way, whatever went before, and `ForgottenWhenQuiet` that races are
forgotten only then. That a pane is busy no longer than its command needs that
no race at all is lost: a command still to be recorded then has its line unread,
its program at work or its prompt unread (`NothingPending`), so recording it late
never leaves it pending for ever.

`AgentProofs`: `RecordIsKeptCorrect`, `FoundInThisShellCorrect` and
`AgentInvCorrect`, with agents that register whenever they like. They need that
a process that has ended stays so, in tables of any age (`Once`), that agents run
in the shell the pane has or in the one `agent.stop` closes (`Shells`), that no
process of the latter is recorded unless one registers again (`Stopped`), and
that all prompts are of the command before as long as none has ended since the
agent did (`Printed`, `Waiting`; `Remembered` for one that registered again).

`GuiProofs`: `NeverBackCorrect`; `CoherentCorrect`, from `AnswersCurrent` (an
answer of the current revision is the current state) and `ViewCurrent` (at equal
revisions the window differs from the runtime only by the active pane, by a
focus that is still unserved or has failed: `Focused`).

Only model-checked: the liveness properties, and of the refinement of
`ByteStream` its fairness, because liveness under fairness is beyond the prover;
and `MethodsAgree`: the recursive operators of `LayoutTree` are evaluated on
small trees; the equations they obey, the assignments included, are solved above
for all, but as functions on layouts: that a tree of nodes and its layout are
the same thing is what the run shows.

## 5. What is not modelled

- In `Runtime`: what the other modules add (layout, agents, history, input), and
  titles.
- In `OutputStream`: viewport offsets, the `restored` flag, panes that could not
  be launched, `App.Shutdown`, rolled-back restarts, reads without an emulator
  (tests only), and the entry a `Detach` that came too early leaves in
  `App.streams`.
- In `AgentTracking`: how adapters recognise agents by name and find session ids,
  and a pid that Windows gives away again.
- The desktop host: the listener, the single instance and the stages of `wait`.
  `Runtime` has its start, failed start, close and end.
- What is typed and resized: the view's input queue, `Session.Write` in pieces,
  `terminal.resize`. The last changes state the modules have: it redraws the
  emulator, changes what a checkpoint saves, and stores `Columns` and `Rows` of
  the pane, which it saves without a new revision (`runtime.go:841-848`), so that
  a window learns of them only with the next change. In `History` a resize is one
  more change of an output; `GuiSync` leaves the sizes out of its view, and what
  a resize does to the screen is left out of `OutputStream`.
- The OSC parser: how a report is found in output cut anywhere; `Busy` and
  `AgentTracking` start from the prompts found.
- In the window: menus, dialogs, shortcuts, links, selection, the viewport.
- Of the store: SQL, schema and migrations.
- The archived Rust and C# code, shell integration scripts, the Windows calls of
  `conpty.go` and `tree_windows.go`, profiles, link opening, logging and the
  command line: they keep no state of their own or are not built.

Some behaviour is in the models because it is in the code, though no property
speaks of it: the warning that history could not be cleared is never taken
back, and `clearHistoryWarnings` may take back the warning of a later call.

## 6. Plan

Left to model, in this order: the desktop host (who has the database while one
process starts and another closes), typed input and resizing, the OSC parser.
Left to prove, once these are modelled: that one process at a time has the
database, and that typed text reaches the shell in order.

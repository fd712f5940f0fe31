# A formal model of the tavern engine

TLA+ modules, TLC configurations and TLAPS proofs for the tavern profile of
this repository: role-play "cards" played by a language-model agent in a
workspace directory, with bookkeeping after every turn, saves, retry, and a
desk for writing cards. The code modelled is `packages/engine/src` and the
parts of `packages/ui/src/client` that decide what the engine is asked to do.

Contents: 1 the system, 2 the hard behaviours, 3 modules and code, 4 runs,
5 bounds, 6 fairness, 7 proofs, 8 disagreements found, 9 what is not modelled,
10 the plan.

## 1. The system

### Layout of one workspace

| on disk | kept by | holds |
|---|---|---|
| `preset/` | card desk, writer agent | the card: prompts, hooks, setup, UI |
| `runtime/` | main agent, tail child, hook scripts, card page, editor | the world of the story, and the snapshots `.chat.main.jsonl`, `.chat.tail.jsonl`, `.chat.tools.jsonl` |
| `savings/<name>/` | saves | copies of `runtime/` |
| `.tavern-boundaries.json` | saves | the stamp of each save: session, `seq` of its last turn/end, draft |
| `.tavern-session` | binding | the id of the bound session; read at boot |
| `.tavern-runtime-retired` | `loadSave` | the replaced `runtime/`, for the length of a swap |
| draft, edit and writer markers | card desk | which card is being written, and by whom |

In memory the engine (`TavernRuntime`, index.ts) has `workspaces` (session to
directory), `gates` and `tailRuns` (settlement chains), `stopped`,
`tailChildRuns`, `postStash` (rendered posts waiting for their message),
`writers`, `pendingShadows`. Durable conversations are append-only event logs
of the kernel (dsh, outside the repository): a rebind never rewrites one, it
creates or forks a session and points the workspace at it.

### Components

**Turn settlement** (index.ts `onSessionEvent`, `beginTurnSettlement`,
`spawnTailPhase`, `gate`, `stop`, `notifyTailSettled`). State: the two tables,
`stopped`, an AbortController and the `mainAfterDone` bar per run. Operations:
turn/start and turn/end handlers, the chain main.after, tail, tail.after, the
pre-step listener, stop with its repair of the log. Talks to the kernel's
agent loop (events, middleware), to `runHookPhase` (children with timeouts), to
`subagents.start('fork')`, and to the client through the `tavern-tail-done`
command events. Correct when: every turn boundary gets exactly one signal;
main step, scripts and tail child never write the world together; a completed
turn is archived unless it was stopped; nothing hangs behind a gate.

**Saves, ledger, retry** (workspace.ts `writeSave`, `autosaveStamped`,
`writeSaveStamp`, `loadSave`; index.ts `prompt`, `save`, `load`, `retryPoint`,
`reset`, `removeSave`). State: `savings/` and the ledger, two files written one
after the other, and the ring of autosaves. Correct when: a directory and its
stamp belong together; the conversation loaded with a world is the one that
made it; nothing is sent twice; the ring drops only its oldest rows.

**Session binding and rebinding** (`createSession`, `load`, `reset`,
`deleteSession`, `restoreBindings`). State: `workspaces`, `.tavern-session`, the
two runtime trees. Each rebind binds a fresh session around an `await` of the
kernel, replaces `runtime/` synchronously and unbinds the old session; each of
its steps can fail. Correct when: one session is bound, the one a restart will
find; it exists; its world is its own; a failed rebind changes nothing.

**Hook runner** (hooks.ts). Quiesces the workspace's scripts, reads
`preset/hooks.json`, runs the listed scripts in order, skips the rest on abort.

**Post ride and inbox repair** (`postStash`, `pendingShadows`, inbox-repair.ts).
Posts rendered at submission are paired with claimed messages first in, first
out; forked logs can hold half of an inbox insertion/removal pair. Correct when
every message gets its own post, a request shows no older one, and a fork owes
exactly what its source still owed it.

**Card desk** (`importFromLibrary`, `draftCard`, `publishCard`,
`editFromLibrary`, `saveEdit`, `cancelEdit`, `commitImport`, `deleteCard`).
State: two markers in the workspace, its `preset/`, the library directory.
Correct when a save of an edit reaches the card it came from, a draft is not
lost, and the markers tell a reload which page the author was on.

**Writer sessions** (WriterColumn.tsx, `writerLogGC`). State: the tabs and
tombstones in the page and in `runtime/.writer-sessions.json`, the sessions'
logs. Correct when a closed session stays closed and an open one keeps its tab.

**Agent tools** (tools.ts). Writes and edits of one file queue on a promise
chain per path, different files run concurrently. Correct when a document holds
what its calls would have left one by one in the model's order.

**Prompt composition and scripts** (prompting.ts), **conversation snapshots and tail transcript**
(chat-snapshot.ts, tail-transcript.ts: projections of event logs).

**File event channel** (file-events.ts on both sides): watcher, debounce,
back-off on error, SSE hub, the page's stream and its slow pull. Correct when
every change reaches every subscriber of its session in the end.

**Tail live follow** (tail-live.ts). The page retains the running tail child's
session, retries until the child's descriptor is on file, and lets go. Correct
when no reference outlives its effect and a running tail is followed.

**Web client** (TavernApp.tsx, card-ui.ts, chat view, landing):
the composer's lock, the send and retry paths, a card's page with `submit`,
`stop` and `runScript`.

**Others**: the wire face (`packages/api`), client runtime stores, mock model
provider, SillyTavern import, bundle and scripts, vendored UI packages, the
presets themselves. PROJECT.json lists all of them with their status.

### How they interact

The client sends through `prompt`, which autosaves (saves) and then asks the
kernel to admit the text. The kernel's loop starts a turn, asks the pre-step
listener (settlement) at every step, and dispatches turn/end, which starts the
settlement chain. The client's lock opens at the settlement signal. `load`
aborts a running chain and waits for its gate, then rebinds; `retryPoint` waits
for the gate and delegates to `load` or `reset`; `reset` waits for nothing.
`stop` marks, cancels the turn and either aborts the chain or repairs the log.

## 2. The hard behaviours

Everything runs on one event loop, so a data race is a wrong assumption carried
across an `await`, and a crash can fall between any two file operations.
PROJECT.json lists the hazards with their lines. The main ones:

- completion races stop and cancel; the settlement signal has three senders
  (chain, microtask, stop's repair) and must be sent once;
- a queued submission opens a turn under a running chain; the tail child
  hatches before main.after is over; a stop lands while the fork resolves;
- a synchronous throw inside the turn/end dispatch;
- two-file saves, a ring pruned by time, loads that pair the wrong halves;
- a card page that submits, a player who saves or loads, in the middle of a
  turn; the turn of an unbound session that goes on writing `runtime/`;
- rebinds around awaits: overlapping calls, failing creation, failing swap,
  failing rollback, death in between;
- retry assumes that the newest autosave belongs to the last reply;
- two queues, posts in memory and messages on disk, that are paired by position;
- markers removed before the step that may fail;
- positions in a ledger that move as earlier entries are taken out;
- answers that arrive after the page has moved on: a created writer session, a
  retained child, a frame of a stream that broke.

## 3. Modules and code

### TurnSettlement

One session. An action is what JavaScript runs between two awaits.

| variable | in the code |
|---|---|
| `log` | the session's events that matter: turn/start, turn/end with its reason, the done event of the signal |
| `bound` | the session is a key of `workspaces` |
| `main`, `awaiting`, `queued`, `cancelled` | the kernel's loop, and the gate promise its pre-step listener holds |
| `gate`, `run`, `aborted`, `barOpen` | the entries of `gates` and `tailRuns`, the AbortController, `mainAfterDone` |
| `chain`, `tail`, `hooks`, `hookRunning` | program counters of the chain, of `spawnTailPhase` and of `runHookPhase` |
| `child`, `childKnown`, `childCancelled` | the forked child, `run.childId`, its cancel |
| `stopped`, `pressed` | the `stopped` set; a history variable for the properties |
| `tailFile` | the turn in the head of `.chat.tail.jsonl` |
| `notifyDue` | the queued microtask of a turn/end without a chain |
| `rebind`, `fenced` | a `load` or `reset` under way, and the gate it awaits |

`Leaked` names the state a throw inside the turn/end dispatch leaves: a table
entry and no chain. Actions: `Submit`, `TurnStart`, `PreStep`, `EnterStep`, `NextStep`, `TurnEnd`
(external loop plus the engine's handlers), `NotifyTailSettled`, `ReadHooks`,
`StartHook`, `EndHook`, `MainAfterDone`, `TailJoined`, `ChildHatches`,
`StartResolved`, `StartRejected`, `ChildPreStep`, `ChildPassesBar`, `ChildEnds`,
`ResultSettled`, `WriteTailSnapshot`, `TailAfterDone`, `Cancel`, `Stop`,
`LoadFence`, `LoadCreates`, `ResetCreates`, `RebindLands`, `Crash`. A card page's
`submit`, which passes the composer's lock by, is `Submit`: it is enabled at any
time. The chain's `finally` is `SettleChain`, part of the action that ends the
chain. `DiskFaults` lets the reads and writes of card files throw.

**NarrativeTurns** is the abstract protocol: a world with one holder, stages of
bookkeeping in order, a debt of one signal per closed turn. **TurnSettlementImpl**
gives the refinement mapping and the property `ImplementsNarrativeTurns`.

### SavePoints

One workspace. `world` is `runtime/` as the sequence of effects in it: a text's
number for what its turn wrote, 0 for a write outside of turns (a card's page,
the editor, a refused message's render). `dirs` and `ledger` are `savings/` and
the boundary ledger; `at` is the write time; `logs` are the sessions'
conversations, reduced to the texts of their closed turns. Manual saves never
have names beginning with `autosave-` (the code does not forbid it: see the
hazards).

What is refused while a turn runs is what the code refuses. The client sends and
retries at rest only (`Send`, `Retry`). A card page's `submit` asks nobody
(`CardSubmit`): `prompt` waits for a tail, not for a turn, so its autosave may be
taken in the middle of one, and the text waits in `queue` behind it. `Save` and
`Reset` are enabled in every phase (but for the moment in which the client
re-sends a retried text), `Load` whenever no tail runs. A rebind leaves the
running turn and its queue behind in the unbound session (`Abandons`), where they
go on: `GhostWrites` is what their tools write into the `runtime/` that has changed
hands. Three history variables name what this does to a world. `Ahead` holds
while the open turn has written; `torn` collects the saves made then; `mixed` says
that the world was loaded from such a save or written by a ghost, until the next
load of a sound one or the next seeding.

`prompt`, the rebind and a save are one step each here. What lies between their
awaits (a load landing while a submission renders its post, two submissions under
way at once) is Rebinding's and PostRide's subject and not combined with saves.

### Rebinding

One workspace, its binding and its two trees. `bound` is the set of keys of
`workspaces` that name the directory, `marker` the content of `.tavern-session`,
`runtime` and `retired` the two trees: a number for a whole world, `Torn` for a
half-made tree, `Gone` for none. `save` is one save with its stamp; `tale` is the
world each session's conversation tells of; `known` the sessions the kernel
created; `call` where each remote call stands.

| actions | code |
|---|---|
| `CreateSession`, `CreateResolves`, `CreateRejects` | `createSession`, and the awaited `sessionController.create` of all three callers |
| `Reset`, `SeedClears`, `SeedCopies` | `reset`, `seedRuntime` |
| `Load`, `ForkResolves`, `ForkRejects`, `Sweep`, `Retire`, `CopyStarts`, `CopyEnds`, `Restore`, `Drop` | `load`, `loadSave`, `copyTree` |
| `Commit`, `RollBack` | the ends of `load` and `reset` |
| `Delete`, `RemoveTree` | `deleteSession`, `removeTree` with its retries |
| `Play`, `Save` | turns and saves of bound sessions meanwhile |
| `Crash`, `restoreBindings` | death and reboot |

A step with a `pc` in `Steps` is inside a synchronous section: `EventLoop` bars
every other caller, but not `Crash`. `Faults` names the operations that may
fail. The model's own restrictions: a deletion overlaps no other remote call;
in Rebinding.cfg calls come one at a time (`Callers` has one element) and saves
between calls (`SaveMeanwhile = FALSE`). What happens without them is said in
section 8.

### CardDesk

Several desks over one library. A desk is a session, its workspace directory and
the one tab that shows it. `preset` and `library` hold the version of a card's
text, or that it is blank, torn, gone; `copyOf` which library card a workspace
was copied from; `drafting` and `editing` are the marker files; `page` is the
page the tab shows and `Route` what a reload would open (`TavernView.tsx`).
`lame` says that the last call of a desk threw. Remote calls contain no `await`,
so each is one action; each that changes files has a disjunct in which one of its
file operations throws and leaves the rest undone (`DraftThrows` for the page that
stays mounted after a `draftCard` that threw, half-removed cards in `DeleteCard`). `EditDirty` and `CancelEdit` are separate
calls of the page, and the writer agent may write in between. `WipeFails` lets
`wipeWorkspaceDirs` throw between its two removals.

### PostRide and SeedRepair

**PostRide**: one session, a post named by its submission. `calls` are the
submissions behind their render, in the order they ask the controller; `stash`
and `shadows` are the entries of `postStash` and `pendingShadows`; `inbox`,
`step`, `batch` are the kernel's. `StartRender`, `RenderFails`, `Push`, `Admit`,
`Refuse` are `prompt`; `Claim`, `Inject`, `Decline`, `StepStart`, `Shadow`,
`EndTurn` the loop with the engine's pre-step listener and its microtask;
`RestartOrLoad` and `ResetRide` lose the tables, the first with the inbox kept.

**SeedRepair**: the source's and the fork's inbox ledgers as sequences of
splices. `SourceWrites` (`Deliver`, `ClaimFront`, `TakeBack`) is the kernel;
`Fork` cuts at any event; `repairSeedInbox` appends removals to the child, from
the back as the code does. `foldSplice` and `Replay` are the code's own fold, `Replay` as a recursive function
over the events.

### FileEvents

One page; a session is named by its directory. `raw` are events the operating
system owes `onRaw`; `pending`, `hintUnknown`, `armed` the batch; `wire` the
frames on one connection, in order; `degraded` the slow pull; `pulled` the
revision the subscriber read last. `Batch` and `Groups` are `flush` and
`wireFileEvents`. `excused` is a history variable, set at each known gap (see
section 8), so that what is claimed and what is not is visible in the actions.

### PathChain

`pathChain(c, d)` is the chain of tools.ts: `after` the promise a call chained
on, `tails` the map whose entry `drop` removes when its tail settles. A body is
two actions (`BodyStarts` reads, `BodyWrites` writes) or `BodyThrows`. A document is
the set of calls whose text it holds, which is all that lost or reordered edits
can change. `runtimeDelete` runs when the kernel's pool is empty;
`UserStrikes` is the editor, at any time.

### WriterTabs

One workspace and the columns mounted on it one after the other. `tabs` and
`tombs` are a column's refs, `creating` the creates on their way with the
registry each captured at its click, `sending` the reads and writes of the file
on their way, answered in order. Tabs and tombstones are sets: the code appends
and filters, and no property depends on the order of the strip. `SaveCopies`,
`Rebinds` and `Reseeds` move the registry with `runtime/`; `writerLogGC` is the
boot. The user may click, close, clear and leave while creates are under way. The
history variable `outrun` is set when a create is answered whose strip
(`Outruns`: the captured one of ＋, the refs of ↺) is no longer the latest
(`Covers`, `Latest`: what the file holds once the calls on their way are served).

### TailFollow

`follows` is one record per run of the React effect: its child and where it is
(opening, waiting for its timer, following, over). `Releases` is the cleanup,
`OpenAnswered` the two continuations of `ready`. `filed` is what of the child is on
the disk: retaining fails until its descriptor is. `broken` marks runs that met
an answer the code does not retry.

### SideBySide

These seven share no state with each other: the desk has the library and
`preset/`, the chain `runtime/` documents, the repair a fork before its first
claim. SideBySide is their disjoint sum: a behaviour picks a `scene` and runs
that component. No property relates two of them, so no interleaving is lost, and
the sum has the sum of their states and not the product. What does couple
components is inside the modules: the swap of `runtime/` in WriterTabs, the
restart and the load in PostRide, the two purposes of a fork in SeedRepair.

## 4. Runs

All specifications are checked with `CHECK_DEADLOCK FALSE`: a tavern whose
player does nothing stops, and so does a model at its bounds.

| run | shows |
|---|---|
| `settlement` | `NoDoubleSignal`, `OneWriter`, `TablesMatchChain`, `TailAfterFollowsTail`, `AbortReachesChild` (an aborted run's child is cancelled, also when the abort came before its id was known); the action properties `ArchivedUnlessStopped`, `NoHookAfterAbort`; the refinement of NarrativeTurns. All races of completion, stop, cancel, tail, hooks, with a crash |
| `settlement_live` | with failing card files, loads and resets: `NoDoubleSignal`, and under fairness `SignedUnlessLeaked`, `GateEventuallyOpens`, `FenceEventuallyPasses` |
| `settlement_leak` | violation: a throw in the turn/end dispatch loses the signal |
| `settlement_reset` | violation: reset replaces `runtime/` under a chain that has not settled |
| `save_points` | `WorldKnownToHistory`, `NothingSentTwice`, `StampsPaired`, `OneRowPerName`, `SendPrunesOldest`, `SendSetsRetryPoint`, with submissions, saves, loads and resets in the middle of turns |
| `retry_seed` | violation: the retry of a first message loses what a card page wrote before it |
| `retry_branch` | violation: the retry button re-sends a text of another branch |
| `rebinding` | `MapFollowsMarker`, `BoundSessionExists`, `NoForeignWorld`, `LoadKeepsWholeWorld`, with every failure and a death between any two steps |
| `rebinding_seed` | violation: a reset that fails is not all-or-nothing |
| `side_by_side` | `ReloadKeepsPage`, `SavesReachTheirCard`, `DraftSurvives` (desk); `OwnPostRides`, `OldPostsAreShadowed` (ride); `ForkOwesWhatIsPending` (repair); `ChangesArePulled` (events); `OneByOne`, `EveryCallSettles` (chain); `ClosedStaysClosed`, `OpenTabsStay` (writers); `OnlyMountedFollows`, `TailIsFollowed` (follow) |
| `writer_overlap` | violation: a writer tab closed while another is being created comes back (`ClosedForGood`) |
| `event_cap` | violation: a burst in one workspace keeps another session from being told (`EverySessionIsTold`) |

Each property of a passing run has a mutant: a plausible bug in one definition
(a dropped guard, a forgotten table, a rollback cut short) that makes TLC find
the property violated in the same configuration. The mutated forms stand in
front of the definitions they change, marked `Mutant`.

## 5. Bounds

- TurnSettlement.cfg: 3 turns, 2 queued, 2 stops, 1 crash, 1 hook per phase
  (761 thousand distinct states). Two turns make every race between a chain and
  the next turn, the third shows that tables and marks of the first two are
  gone; a second stop meets a run that is already aborted. One script per phase
  suffices because the loop treats all scripts alike and the abort can fall
  before, during and after it.
- TurnSettlementLive.cfg: 2 turns, 2 stops, loads, resets, file faults, no crash.
  Liveness is about a chain and what waits for it, so two turns suffice.
- SavePoints.cfg: ring of 2, one manual name, 2 texts, 1 stray write, 3 saves,
  3 sessions, 1 death, a card page that submits (3.78 million states). Three
  autosaves overflow the ring, the second save of the manual name overwrites the
  first; two texts give a queued one behind a running one, three sessions a load
  after a load. In SavePointsSeed.cfg and SavePointsBranch.cfg the page does not
  submit (`PageSubmits = FALSE`): the counterexamples need only the player.
- Rebinding.cfg: 4 sessions, 3 plays, 1 death, all ten faults (766 thousand
  states). A rebind after a failed rebind after a creation needs three
  sessions; three plays tell the world of the save from those before and after
  it.
- SideBySide.cfg (508 thousand states). Desk: 2 desks, 2 cards of which 1 is
  shipped, 4 texts, 1 failing file operation: enough for a stale marker of one
  card to meet the copy of another, for a card deleted under an edit, and for a
  call after the failed one. Ride: 3 submissions, 1 slip, 1 failed shadow: a
  refusal between two queued messages, and a turn before them whose post has to
  be shadowed. Repair: 3 messages, 4 ledger events: two pending messages of one
  list whose removals move each other. Events: one session and one directory
  without a session, one path per frame (so the cap cuts), 2 changes, 2 outages: a
  break on either side of a change.
  Chain: 2 documents, 3 calls, 1 strike: two calls behind a failing one. Writers:
  3 sessions, 2 mounts, 1 mishap: a ＋ and a ↺ under way at once over a tab that is
  closed, and a remount. `CONSTRAINT StillClaimed` bounds the writers' scene: a
  behaviour is not followed beyond the first lost write, swap of the registry or
  outrun create, after which neither writer property claims anything; the other
  scenes never make it false. Follow: 3 moves, 1 broken answer: a child
  listed, filed and left while an answer is on its way. In WriterOverlap.cfg one
  mount and two sessions suffice for the counterexample.
- FileEventsCap.cfg: two sessions, two paths each, a cap of 2, 3 changes: a burst
  that fills the cap, and one change behind it.

## 6. Fairness

`TurnSettlement!Fairness` is weak fairness of: the microtask and the
continuations of the chain, the tail phase and a load (the event loop runs what
is due); the hook phases (`prompting.ts` gives every script child a timeout and
kills it); the tail child (a one-shot play that ends or fails) and the kernel's
loop (it keeps stepping an open turn). The player's actions, crashes and the
disk have none. Liveness is claimed for a bound session and not across a crash:
after a reboot nobody re-sends a signal until stop repairs the log.

`EventsFairness`: the watcher delivers the events it has, the debounce and retry
timers fire, the page's stream reconnects and delivers, the slow pull ticks
(a running `setInterval`). Nothing makes a file change, a watcher fail or a page
subscribe. `ChainFairness`: the microtask of a settled call starts the next body,
and a running body returns or throws (file operations on one file).
`FollowFairness`: React runs an effect whose inputs changed, the kernel's client
answers `ready`, the retry timer fires. The child's directory and descriptor owe
nothing: until they are on file the page may retry for ever.

## 7. Proofs

TLAPS proves the following for every value of the constants that the modules'
assumptions admit.

**TurnSettlementProofs.** `TypeCorrect` (`TypeOK`, with `HooksLeft`: a running
script is one of those left). `SignalOnce` (`NoDoubleSignal`), unconditionally:
`SignalInv` adds that a running chain and a pending microtask each imply `Owed`,
an unsigned turn end, so that whoever signs pays a debt, and that the microtask
and a chain exclude one another. `WritersExclude` (`OneWriter`) and
`TablesFollowChain` (`TablesMatchChain`) under `Undisturbed` (files can be read
and written, nobody rebinds): `WriterInv` ties the main loop, the scripts and
the child to the chain's position and the bar. The assumption is needed: with
file faults a gate leaks, and an unbound parent's child passes the bar.
`StoppedAreNotArchived` (`ArchivedUnlessStopped`) under the same assumption:
while a turn is open, the engine's mark equals "stop was pressed in it".
Unconditionally: `HooksFollowTail` (`TailAfterFollowsTail`) from `TailStages`,
which says what the stages of the tail phase have done to child and file, and
`AbortStopsHooks` (`NoHookAfterAbort`), a property of single steps, and
`AbortCancelsChild` (`AbortReachesChild`) from `ChildOnRecord`: once
`start` has resolved the engine knows the child, and a known child of an aborted
run has been cancelled.

*The refinement* (same module). `SettlementImplements`: under `Undisturbed`, `Spec`
implies `ImplementsNarrativeTurns`. `HolderFacts` reads the abstract holder off
the program counters, which needs one writer; the simulation has one step per
action, from `TypeInv`, `SignalInv`, `WriterInv` and `OneWriter` before and after
the step. Every signal of the engine (chain, microtask, stop's repair) maps to
`Sign`, because `SignalInv` has the debt and an appended signal pays all of it.

**SavePointsProofs.** `TypeCorrect`; `RowsUnique` (`OneRowPerName`);
`StampsMatch` (`StampsPaired`) from `PairInv`, which adds that names in use are
older than the clock, so that an autosave's name is always new.
`HistoryExplainsWorld` (`WorldKnownToHistory`) and `SentOnce`
(`NothingSentTwice`), without an assumption: the two excuses, a death and a `mixed`
world, are in the formulas. They follow from `HistoryInv`. `WorldExplained`: the
world holds texts of the bound conversation and at most the one of the open turn,
and no waiting text. `QueueSound`: queued texts are newer than the running one, in order, and none is
in the input box, so the text that goes on next is not among those that still wait. `SavesExplained`: the world of every save that is not `torn` is explained
by the prefix of the conversation its stamp names, and no draft is in either; a
load then restores a pair that satisfies the same relation. A submission in the
middle of a turn that has not written yet is covered by it: its autosave pairs
the world of the last boundary with that boundary.
`PruningIsFair` (`SendPrunesOldest`) and `SendCanBeRetried` (`SendSetsRetryPoint`),
unconditionally, from `RingInv`: write times tell directories apart and never run
ahead of the clock. A dropped row has `Keep` newer ones, a kept row fewer, so no
kept row is older; and all kept autosaves but the oldest are newer than that one,
so there are at most `Keep`.

**RebindingProofs.** `TypeCorrect` for any number of overlapping calls.
`MapAndMarker`, `OwnWorldOrNone`, `BoundIsKnown`, `WholeWorldKept` under `Alone`
(one call at a time, saves in between). `BindInv` says for every position of a
call what map and marker hold (old and fresh bound, marker fresh; a fork's
marker still old) and that they agree at rest; `WorldInv` says, for a process
that never died, in which tree the old world is at each position, which is what
makes the rollbacks right; `SwapInv` says where a load's whole tree is, deaths
included. The claims at rest alone are not inductive: a rollback restores what
its call found, which has to be remembered through all its steps.

**EditingProofs**, the card desk. `DeskTypesHold`, unconditionally. `ReloadsKeepThePage`
(`ReloadKeepsPage`), `SavesReachTheirCardHolds`, `DraftsSurvive` under
`~WipeFails`, from `DeskInOrder`, which ties the markers, the copy and the page
of each desk: an edit marker names the card `preset/` was copied from, and only
the workspace page has one; only the draft page has a draft marker. The assumption is needed, see
section 8.

**PostRideProofs.** `RideTypesHold`; `PostsRideOwn` (`OwnPostRides`) from
`QueueInv`: as long as nothing slipped, the stash is the claimed batch, the inbox
and the calls still at the controller, in this order, and each submission is in
it at most once; `OldPostsStayShadowed`
(`OldPostsAreShadowed`) from `ShadowInv`, which says of every live post that it is
of the present batch, queued for shadowing, or being shadowed. Without assumptions: the
slips and failures are in the formulas.

**EditingProofs**, the path chain. `ChainTypesHold`; `CallsRunInOrder`: of two
calls on one path the later one starts when the earlier one is over, although a
settled call may have left the map; `EditsAreSerial` (`OneByOne`) from
`ContentInv`, which adds that what a running body read is what the document still
holds.

**SeedRepairProofs.** `RepairTypeCorrect`, and `ForkOwesItsMessages`
(`ForkOwesWhatIsPending`) from `RepairInv`. Its core is `Sound`: at every prefix of
a ledger the next splice is one the replay accepts, and the lists hold delivered
messages, each at one place. Until the repair the child's lists begin with the
lists of its seed, position by position (`Prefixed`), so the places found in the
seed are places in the child, whatever the child has received meanwhile. The
repair itself is `ClearedOne` and `ClearedAll`: taking place after place from the
back leaves everything in front of the last one taken where it was, so each
removal takes the message it was computed for. `TakenOut` and `PutLast` say what one
splice does to the lists, `ReplayAppend` what one event does to a replay.

**ClientProofs**, the file event channel. `EventsTypeCorrect`;
`FittingBatchIsTold`: a flush whose batch is within the cap sends the connected
page a frame for each session of the batch. Beyond the cap the paths sorted last
are cut off and a session may be told nothing (run `event_cap`). `SortedIs`
shows that the sorted sequence the groups are made from exists and has every
member of the set.

**ClientProofs**, the writer tabs. `WritersTypeCorrect`; `ClosedTabsStayClosed`
(`ClosedStaysClosed`) and `CreatedTabsStay` (`OpenTabsStay`), for any overlap of
clicks and answers, from `StripInv`: a column's read is served before its writes
(`ReadFirst`), and until a write is lost, the registry is swapped or a create is
outrun, what a loaded column holds is what the file will hold when the calls on
their way are served (`Synced`). What lies beyond is run `writer_overlap`.

**ClientProofs**, the live view. `FollowTypesHold`; `OnlyMountedFollowsHolds`
(`OnlyMountedFollows`), inductive together with `RunsWithinMoves`, which says that
every run of the effect, one still to come included, had a move of the page
before it.

**SideBySideProofs.** The theorems above are about the components' own
specifications (`DeskSpec`, `RideSpec`, `RepairSpec`, `EventsSpec`, `ChainSpec`,
`WritersSpec`, `FollowSpec`). `EachOnItsOwn`: the composition implements each of
them, fairness included; so `TypesHoldTogether` (`TypeOK`) and, under `~WipeFails`,
`SafeTogether`, the safety properties of all of them.

Replays and sorted enumerations are recursive functions and CHOOSE expressions;
what is claimed of them for every length is shown by the least counterexample
(`Smallest`: a nonempty set of naturals has a least member), since the induction
theorems of the library take an operator as a parameter, which the provers cannot
instantiate.

Every safety invariant and every action property of a passing run is a theorem.
Only model-checked: the liveness properties `SignedUnlessLeaked`,
`GateEventuallyOpens`, `FenceEventuallyPasses`, `ChangesArePulled`,
`EveryCallSettles`, `TailIsFollowed` (liveness under fairness is out of the
prover's reach). No module declares a RECURSIVE operator.

## 8. Disagreements between code and documents

Each is the counterexample of one run; PROJECT.json quotes the lines.

1. `settlement_leak`: the comment in `beginTurnSettlement` promises that the
   chain settles whatever fails. A throw of `writeToolsSnapshot` or
   `readMaintenancePrompt` happens inside the turn/end dispatch; the signal is
   lost and the gate or the run stays for ever.
2. `settlement_reset`: the devlog gives reset the fence of load; it has none, so
   `runtime/` is replaced while the chain of the last turn has not settled. With
   `Rebinds = {"load"}` the same property fails by a turn that ends between load's
   fence and its swap; no document promises that window away.
3. `retry_seed`: the retry of a message without a boundary re-seeds `runtime/`,
   on the assumption that nothing wrote it before the first message.
4. `retry_branch`: "retry the last reply" takes the newest autosave of the
   workspace, which may belong to a refused message or an abandoned branch.
5. `rebinding_seed`: a reset whose re-seeding throws rolls the binding back
   over a world that is already removed.
6. `writer_overlap`: ＋ captures the registry at the click and writes it back
   when the new session exists; a tab closed meanwhile returns, its tombstone is
   gone and its log is never collected. Two quick ＋ lose a tab by the same
   path: this is `outrun` in the model, after which `OpenTabsStay` claims nothing.
   The page's ↺ reads its refs anew and is right.
7. `event_cap`: `flush` cuts the sorted batch at its cap before it is grouped by
   session, although the design note caps within a group: a burst in one
   workspace hides the sessions sorted behind it. `ChangesArePulled` excuses
   directories so cut off.

Known from the same models without a run of their own: two overlapping resets
leave two sessions bound (Rebinding with two callers and no fault breaks
`MapFollowsMarker`); a save overwritten while a load of the same name awaits the
kernel pairs an old boundary with a new world (`SaveMeanwhile = TRUE` breaks
`NoForeignWorld`); after a death
between marker and create a workspace restarts bound to a session that does not
exist; after a death
between rename and copy the next load's sweep removes the only copy of the
world.

Saves in the middle of a turn. The comment at index.ts:854 says that when `prompt`
autosaves the tail gate has settled, so snapshot and boundary "re-derive exactly
the pre-send state". A card page's submit comes through while the main turn is
writing; its autosave, or the player's save, then pairs a half-told world with the
boundary of the turn before, and a load restores that pair. The turn of a session
that a load or reset unbound goes on writing the new conversation's world. Both
are excused in `WorldKnownToHistory` and `NothingSentTwice` by `mixed`; without it
the first fails after four steps (type, send, reset, a write of the left turn).

In the components of SideBySide:

- *File events.* A watcher that reopens stops the slow pull without a resync, so
  what changed while nobody watched waits for the next change; a page that
  connects during an outage gets no health frame; the first hello replays
  nothing. These are `excused` in `ChangesArePulled`.
- *Card desk.* A `cancelEdit` whose wipe throws leaves the edit marker, which
  `commitImport` does not clear: `WipeFails = TRUE` violates all three desk
  properties. `publishCard` drops both markers before a publish that may throw
  (`lame`). `publishIntoLibraryCard` removes the library's preset before it
  copies, so a failing copy leaves it torn. `editDirty` and `cancelEdit` are two
  calls: what the writer agent writes between them is discarded unseen. A name
  deleted and created anew counts as the same card.
- *Post ride.* A pre-step that another listener declines, and messages queued
  over a restart or a load, shift every later pair (`slipped`).
- *Inbox repair.* A message kept for a load fork is still in the source's inbox:
  a source that goes on running answers it too.
- *Path chain.* `runtimeEdit` checks that its file exists before it queues, so an
  edit right behind the write that creates the file is refused. A write by the
  user between an edit's read and write is lost (`crossed`). One registration is
  modelled; a tool listed on both faces has one chain per face. Deletes and card
  tools are exclusive in the kernel's pool, which the comment at tools.ts:17 and
  `tests/tools.spec.ts` rely on.
- *Writer tabs.* A load or reset replaces the registry with `runtime/` (`swapped`):
  closed tabs return, or open ones lose their tab. A registry that cannot be read
  passes for an empty one, and the next write replaces the real one; writes that
  fail are not reported (`unsent`). A log that `writerLogGC` cannot remove throws
  out of the constructor instead of keeping its tombstone.
- *Tail follow.* An answer of `ready` that comes after the cleanup releases the
  reference a second time; the model takes that to be harmless. A gate raised
  before the new child is catalogued follows the old child until it is.

## 9. Not modelled

The kernel (event logs, agent loops, forks, inbox) is not in the repository and
is modelled from how the engine uses it.

The models map the protocol code of the engine and the web client, a small share
of the repository's lines: over fifty thousand lines are generated rule tables
of the dnd5e card (monsters, spells, classes, equipment) and their copy in
dnd5e-lite, which are data and have no behaviour. Of the code that is left, most is
rendering, styles, translation tables, string conversion and pure file I/O.

- *Cards' content*: pages, combat tool and scripts of the presets. To the engine
  they are children that write `runtime/`, and that is how they are modelled.
- *Composer lock* (`pollTail`, the optimistic set at turn/end): whether a late
  answer of `state()` undoes a newer event depends on the order in which the host
  kernel's client delivers answers and events and replays them at a mount, which
  is outside the repository. The engine's side of it, exactly one signal per
  boundary, is proved.
- *Prompt composition, snapshots' projection, tail transcript, SillyTavern
  import*: functions from text to text without state.
- *Chat view, landing, panels, card page host*: rendering; what a card page can
  ask of the engine is in the engine's models: `submit` in `SavePoints.CardSubmit` and
  `TurnSettlement.Submit`, `stop` in `TurnSettlement.Stop`, writes in
  `SavePoints.CardWrites`.
- *Wire face, client runtime stores, mock provider, bundle and setup scripts,
  vendored packages*: no protocol of their own.
- *ensureWriter* and the legacy seed of the writer registry: superseded by the
  column's own creation, kept for old workspaces.
- *Time*: back-off delays, debounce windows and poll intervals are "some time
  later".

## 10. Plan

Done: TurnSettlement with NarrativeTurns, SavePoints, Rebinding, CardDesk,
PostRide, SeedRepair, FileEvents, PathChain, WriterTabs, TailFollow, their
composition SideBySide, and eight modules of proofs, in which every safety
property of a passing run is a theorem. What is left, in order:

1. Composition of Rebinding's steps with SavePoints' histories (the abstract
   rebind of SavePoints as the specification, Rebinding without faults as its
   implementation), of load's fence with both, and of what lies between the awaits of
   `prompt` with the rebinds.
2. PostRide's slips taken apart: a pairing by message id as the abstract
   specification, and how far the pairing by position refines it.
3. Overlapping rebinds with the client's guards, once `state()`'s delivery order
   is known; then the composer's lock with them.

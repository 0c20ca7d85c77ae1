# Formal models of PixelCore

PixelCore (this repository, `src/`) is a desktop program that plays console games: an Electron main
process that owns files and sessions, a renderer that shows them, and one worker thread per running
emulator core. This directory holds TLA+ models of the parts that decide whether a player keeps their
progress, the TLC configurations that check them on small instances, and TLAPS proofs of the
properties that matter most.

- `PROJECT.json` lists the components, the runs, the source lines behind every definition (`map`),
  the hazards the properties are about, the mutants that show each property can fail, the theorems
  and the findings.
- `tlc -workers 2 -config <run>.cfg <module>.tla` repeats a run, `tlapm <module>Proofs.tla` a proof.

Contents: [1 Inventory](#1-inventory) · [2 Modules](#2-modules) · [3 Runs](#3-runs) ·
[4 Fairness](#4-fairness) · [5 Proofs](#5-proofs) · [6 Findings](#6-findings) ·
[7 Not modelled](#7-not-modelled) · [8 Plan](#8-plan)

## 1 Inventory

```
 renderer.tsx --IPC--> main.ts --> session-host.ts --> session-lifecycle.ts (controller)
                          |              |                    |
                          |              |        sameboy-session.ts / mgba-session.ts
                          |              |                    | postMessage
                          |              |        sameboy-worker.ts / mgba-worker.ts --> WASM core
                          |              +--> cartridge-save-store.ts      (one .sav per ROM)
                          |              +--> save-state-repository.ts --> binary-file-storage.ts
                          +--> local-game-library.ts --> json-file-storage.ts   (library.json)
                          +--> global-preferences.ts, input-profiles.ts --> json-file-storage.ts
                          +--> update-service.ts
```

A plugin (console, controller, emulator core, game catalog) is a manifest with a definition; main reads
the ones that come with the program and shows them to the renderer through `preload.ts` and `ipc.ts`,
which check every answer.

Nothing here shares memory. Concurrency comes from the main process, where every `await` lets other
calls, interval ticks and thread messages in, and from the worker threads, which run beside it.

| Component | State | Operations | What is hard | What makes it correct |
|---|---|---|---|---|
| Cartridge save store | a promise per key, the files | `read`, `write` | calls queue behind calls that fail; a write is three file operations, each may fail; the process may end anywhere | a save is replaced whole and in the order of the calls; what was acknowledged stays |
| Session controller | `#session`, `#status`, subscriptions | `launch`, `stop`, `pause`, `resume`, capture, restore | each method awaits a thread and goes on with what it read before; calls overlap; a failed launch stops "the session there is" | no thread without an owner; the save comes before the release; calls return |
| Emulator sessions | `#status`, `#pending`, `#terminated` | a request each; `error` and `exit` events | the thread dies, or ends with requests still posted | each request is answered |
| Session host | active keys, the controller, two intervals, the playtime checkpoint | launch, stop, states, autosave | module state read again after awaits; a launch on another core ends a session first; interval ticks | a save and a state go to the game they are from; a stop that succeeds has saved |
| SameBoy worker | status, timer, ring of rewind states, speeds, audio, battery check | 10 requests and a tick | requests between ticks; ring at its limit; speeds held over a pause | one frame loop exactly while running; rewind goes back; a speed leaves no trace |
| mGBA worker | status, timer, next save | 9 requests and a tick | as above; exceptions are caught and answered | as above |
| Frame pacing (both workers) | `nextFrameAt`, the timer | `scheduleFrame`, `runFrame`, `stopClock` | late and early timers, blocked threads, pauses | neither ahead, nor drifting, nor bursting |
| JSON file storage | the chain of mutations, the file | `read`, `list`, `write`, `remove` | a shared temporary file; failures; the end of the process | the outcome of a mutation is true |
| Local game library | none of its own: one key of `library.json` | `add`, five updates, queries | each operation reads the list and later writes all of it | no ROM twice; no update without its game; calls in sequence lose nothing |
| Save-state repository, binary storage | files per key, a queue per key | `write`, `read`, `remove`, `list` | slots, overlap of writes, a failed write in the queue | what a slot shows never goes back |
| Main process: shell | windows, `stopActiveSession`, the quit flag | windows, `before-quit`, update handlers | a quit while a stop is under way; an update that quits | one request to end loses no progress; a quit ends the program |
| Main process: ROM folder | the folder, the library | `importGame`, `listLibrary` | a copy that is only half there is listed; failures between copy and registration | every game has its whole file |
| Main process: launches | autosave choices, ROM selections, `activeSessionExtension` | `startLibraryGame`, `selectRom`, `startSession`, `setSessionInput` | what was read is old when it is used; several launches | input is taken for the console of the session that is there |
| Update service | one state | updater events, `check`, `install` | events in any order | install only what was downloaded |
| Input (profiles, mapping, adapters) | profile, capture, pressed keys | rebind, reset, save, load | swaps of bindings; main's answers overtake the player's changes | main accepts every profile the screen makes; a change is not undone |
| Renderer session state | screen, running action, held commands | `launchGame`, `runAction`, overlay | answers that arrive after the screen changed | a session is shown as it is; held commands are released |
| Renderer navigation | console, category, cursor, dialogs | pad, keys, mouse; import, launch, favorite, refresh | lists that change under the cursor | what is confirmed is what is shown |
| Preferences | the document, the `localStorage` | menu, load, migrate, save | a window closed in between, a save that fails | the newest of the player's choices is kept |
| Plugins: manifests, registry, permissions, SDK validators, catalogs | manifests, definitions | validate, register, judge, resolve metadata | several validators for one definition | what the SDK accepts, the host and the window accept |
| IPC contract | none | answers of main, checks of `preload.ts` | `library.json` as anything has left it | what main answers passes the check |
| Plugin command line, UI rendering, localization, vendored cores | none or static | – | – | section 7 |

## 2 Modules

Definitions named `Mutant: ...` are plausible bugs of the code. No specification uses them; each is
put in the place of a definition to show that some property notices.

**Saving.** `AtomicSaves` is the promise: saves move forward, whole, in the order of the calls.
`CartridgeSaveStore` is `cartridge-save-store.ts`. Each awaited operation of `write` (`mkdir`,
`writeFile`, `rename`, `unlink`) is an action that may fail; `chain` is the map `#writes`, `previous`
the promise a call was chained to, `Cleanup` the microtask that removes it, `Crash` the end of the
process. A call's number stands for its bytes.
`JsonFileStorage` is `json-file-storage.ts`: `Mutate` joins the chain, `ReadData`, `WriteDocument` and
`RenameDocument` are the awaits of a mutation. `LocalGameLibrary` extends it with its clients: `add`
and the updates of `local-game-library.ts` on `library.json`, and single keys of `preferences.json`.
The value of a key is the set of calls whose change it contains, so a lost change is a call missing
from the set; `takenBack` remembers which ones ever went missing.
`SaveStates` is `save-state-repository.ts` over `binary-file-storage.ts`: `pending` is its map of
writes, `before` the promise a write was chained to, here without a `catch`, so that a write behind a
rejected one is rejected unbegun. `durable` is a history: the slot when a call was made.
`MCStorage` runs the three side by side; a behaviour is one of theirs.

**Sessions.** `EmulatorSessions` has the session objects of both cores and their threads: `Post`,
`Failed`, `WorkerCrash`, `WorkerExit`, and `Serve`, which handles one request as the workers do.
`SessionController` adds every method of `EmulatorSessionController`; `phase` is the await a call is
at, and `Continue` its continuations. `SessionControllerSystem` drives it with an unknown caller.
`SessionHost` drives it with `session-host.ts`: `at` is the await of a host call, and the save store
underneath is `AtomicSaves`, which `CartridgeSaveStore` is proved to implement. Who calls it is a
variable that does not move, `caller`: the games it launches and how, the operations it uses, and what
of its calls and of the ticks overlaps. So one specification covers all callers, and the theorems are
about classes of them: `Sequential` callers make one call after the other and launch no game over a
session of its core, while the intervals tick as they like; those `AloneOnCore` play games of SameBoy
alone, and overlap launches with each other and with a stop. mGBA's thread gives a save also when it is
stopped after it refused one, so that its stop may outlast a launch that failed. `MCSessionHost` gives
it games, cores and six callers: `Ticking` lets both intervals tick over a game of each core, `Hasty`
overlaps launches and a stop of one core, `Changing` goes from a game of one core to a game of the
other and back; `Patient` uses every operation; `Relaunching` and `Counting` are those of two findings.
Microtasks run before the event loop takes another event. So a step of a thread, of the disk or of a
new call needs `Quiet`: no continuation is due. That keeps out interleavings that Node cannot produce,
and keeps every one that it can, which are between awaits of a thread or of the disk.

**Cores.** `EmulatorThread` is what `EmulatorSessions` assumes of a thread. `SameBoyWorker` and
`MgbaWorker` are the two `*-worker.ts` files and each implements it (`ThreadsAreAsAssumed`). In
`SameBoyWorker` a tick is one action, as `runFrame` is one event: emulation (one frame, or two in
fast-forward) or rewind, then the audio, then the look at the battery. A state of the core is the
number of the frame it was captured at. `FramePacing` is the clock both workers run by; its variables
`credit` and `balance` are histories that turn "frames against time" into invariants.

**Renderer.** `RendererSession` is the part of `renderer.tsx` that plays a game. `KeyDown`, `KeyUp`,
`Escape`, `Blur`, `Hold`, `Click` and `ChangeDevice` are what the player does; `Poll` is an animation
frame; `launchGame` and `runAction` go on at `AnswerArrives`, `Listed`, `Refreshed` and `Configured`.
`ui` holds the states and refs of `ProductApp`, `calls` and `answers` are the IPC, `session` what is
behind it as far as the renderer can tell. A handler is an effect: the new `ui` and the calls made.
`MCParts` puts the cores and this module side by side; a behaviour is one of theirs.

**Desktop.** The parts around a session. They meet the session through answers, so each is a module of
its own, and `MCDesk` runs them side by side:

- `DesktopShell`: windows, `before-quit`, `window-all-closed`, `activate` and the updates, with every
  event of `autoUpdater` in any order. `stopActiveSession` and `quitAfterSaveFlush` are the variables
  of `main.ts`. Of the session host there is one session with its core, and `stop` for each of its
  callers (player, quit, install): asked of the thread, saving, refused, or unanswered for ever. The
  thread may die and the disk may refuse the save; `mishap` remembers that one of these happened, or
  that two stops met.
- `RomFolder`: an import chooses, copies and registers; a listing reads the folder, then the library,
  then adds what it found. `GamesAreWhole` is about the file behind a game.
- `GameLaunch`: `startLibraryGame` reads the autosave where it is enabled, lists the states, asks the
  player and launches;
  `startSession` reads the selected ROM again; `activeSessionExtension` is set before the launch.
- `InputSetup`: the stages of the mapping settings with the capture of a key or button and the swap of
  bindings, `persistProfile`, the device change, `loadSessionConfiguration`, and the repository of
  `input-profiles.ts` with its validation.
- `Preferences`: the settings menu, the effects that load, migrate and save, and
  `global-preferences.ts`. The window may be closed at any moment; main finishes what it was asked.
- `Navigation`: carousel, global menu, library with categories and detail, the autosave dialog, and
  the awaits of the import, the launch, the favorite, the refresh and the stop. Each answer may be a
  failure, those of the tail of a launch (`Configured`) and of a stop included.

**Plugins and IPC.** Pure rules as operators, exercised by a small machine in which an author edits a
draft one field at a time. `PluginManifests` has `manifest.ts`, `api-version.ts`, the registry and the
judgement of permissions; `GameMetadata` the catalogs and how the metadata of a ROM are resolved;
`ConsolePlugins` the definition of a console and what the session makes of it; `PluginContracts` the
controllers and cores, the contract runner and the scaffold. `IpcContract` relates the answers of
`main.ts` to the checks of `ipc.ts`: main parses a `library.json` in which any one field may have been
edited. `MCPlugins` holds the values these modules are checked with.

**Proofs.** `StorageProofs`, `ControllerLemmas`, `SessionControllerProofs`, `SessionHostProofs`,
`CoreProofs`, `RendererProofs`, `DeskProofs`, `PluginProofs`: section 5.

## 3 Runs

| Run | Module | What it shows |
|---|---|---|
| `storage` | MCStorage | the three stores under overlapping calls and every failure: `CartridgeSaveStore` implements `AtomicSaves`, outcomes are true and a failure is the call's own, the list is consistent, calls in sequence lose nothing, a slot never goes back, every call returns |
| `parts` | MCParts | both threads of the cores implement `EmulatorThread`, the ring and the speeds are right, the clock is fair, the renderer leaves no command on and no running game "paused" |
| `controller` | SessionControllerSystem | three calls on a controller that overlap in every way but two (below), both cores, threads that die: no orphan thread, save before release, answers and returns |
| `host` | MCSessionHost | three callers of the host: saves and states go to their game, a stop leaves its save, no time counts twice |
| `host_returns` | MCSessionHost | every operation of the host, with failures: every call returns |
| `desk` | MCDesk | the six parts of the desktop, the plugins and the IPC |
| `controller_sameboy_hang` | SessionControllerSystem | finding: a stop of SameBoy that never returns |
| `host_lost_save` | MCSessionHost | finding: a stop returns ok without its save |
| `host_time_twice` | MCSessionHost | finding: playtime is counted twice |
| `library_lost_update` | LocalGameLibrary | finding: an acknowledged change of the library is taken back |
| `renderer_held_command` | RendererSession | finding: a rewind held on the keyboard ends at the next frame |
| `shell_quit_twice` | DesktopShell | finding: a second quit does not wait for the save |

The comment in front of each property says what it means and which code it is about.

### Bounds and why they are enough

- **Three calls** (`Calls`, `Requests`, and `MaxWrites = 3` of two keys for the save store). Every
  property relates a call to at most one that overlaps it and one that came before or after. The third
  call of a key is the first that can queue behind one that queues; the third call of the controller is
  the first that finds what two overlapping ones left; a lost game and an update of it need three.
  Calls are made in the order of their numbers, which loses nothing: they have no other identity.
- **`MaxCrashes = 1`** of the library: calls before, during and after. The save store may crash any
  number of times. The save states have no crash: a write that a crash interrupts leaves what a failed
  one leaves.
- **Callers of the host.** `Ticking`: three calls, both intervals, playtime of at most 1, games
  restored from an autosave, no battery. `Hasty`: library games of one core, at most one version
  of the battery. `Changing`: games of both cores, `MaxBattery = 2` (none, an old and a new version, so
  that a periodic flush and a final save differ), `MaxWrites = 4` (a write for each call on top of a
  periodic flush). `MaxClock = 1` is a span of playtime that could be counted twice.
- **`host_returns`**: mGBA, both intervals, all eight operations one after the other.
- **Ring of 2 states of 3 frames, 11 frames, battery every 4 ticks** in `parts`: a third
  capture makes the ring drop its oldest, with a rewind before and after it, and with fast-forward
  stepping over the capture interval, for 11 is three captures and a double step. `SaveInterval = 4`
  is not a multiple of the capture interval, so the two counters meet in every phase.
- **`Frame = 2`, `CatchUp = 4`, `MaxTime = 20`, `MaxRuns = 2`**: room for two stalls of more than
  `CatchUp` frames, or one and a pause. The theorems hold for every value.
- **Renderer: 5 gestures, 2 runActions, 3 calls.** A launch, a command held and repeated, a pause and
  a resume are five; with two actions each meets the tail of another.
- **`desk`**: each part has two of what can overlap and one more of what can come between. Two quits,
  sessions and installs, with one release; an import and a listing over a folder with one found file,
  and a restart; two launches of games of two consoles with an autosave that may appear between; two
  profile changes on keyboard and pad and a library opened meanwhile; two changes of the preferences
  and a window opened anew; four steps over a library of two games, with two calls under way; two edits
  of a plugin draft, which is the least at which two fields contradict each other; one slip in
  `library.json` and two exchanges over it.
- **`Overlap` and `Callers`** say which callers a run is about. `controller` has `Overlap = "one stop"`:
  two stops do not overlap, and no launch comes while a stop still persists whose session a failed
  launch has let go of (`StopOfNothing`). A caller that does more breaks some
  properties: section 6 says which, and what happens.

Deadlock is not checked where calls are bounded: a behaviour ends when its calls are made.

## 4 Fairness

Weak fairness, of continuations, of threads and of file operations:

- a continuation whose promise has settled runs: the event loop of Node never skips one;
- a file operation finishes, with success or failure, by what the operating system promises for
  local files;
- a thread that is alive gets to the request in its port, and one that was told to terminate, or
  died, emits `exit`: the code has no timeout anywhere, so it depends on exactly this;
- in `desk`, only: the `stop` that a quit asked for goes on as long as something answers it
  (`DeskGoesOn`): its thread, its session's refusal, or the disk. A stop that SameBoy's session posted
  to a thread that is gone is answered by nothing (finding 2). It is the phase `unanswered`, no step
  leads out of it, and `QuitEndsTheProgram` excepts it.

No fairness is assumed of callers, of intervals, of crashes, of a thread's death, of success, of
windows and updates, or of the game writing to its battery. The violations of safety use a
specification without fairness; `EveryCallReturns` is violated under fairness.

## 5 Proofs

TLAPS proves, for every value of the constants that its assumption allows:

**`StorageProofs`**, in three parts. The save store (any set of keys, any number of calls). Assumption:
`StoreAssumption` (`MaxWrites` is a natural number, `NoKey` is no key). The properties are not
inductive: that one call of a key writes at a time says nothing of a call that is about to start.
`SavesInv` adds what the promise chain knows: the promise a call waits for is of an earlier call of its
key (`PreviousIsEarlier`); behind an unsettled call there are only queued ones, each waiting for it or
for a later one (`SavesInOrder`); the map holds a call at or behind every unsettled one, so the next
call joins at the right place (`ChainIsNewest`); and the file is older than every call that has yet to
rename (`SaveIsOlder`). There is one lemma for each action. From it: `TypeCorrect`, `OneWriter`,
`Durability`, `NeverGoesBack`, `FailuresAreOwn`, and `Implementation`: every behaviour is one of
`AtomicSaves`, where a rename is `Commit` and the steps that settle a call are `Acknowledge` or
`Refuse`.

The library (any calls, ROM files, preferences and crashes). Assumption:
`LibraryAssumption` (the keys of the file are the preferences and `local-games`; `NoCall` is no call).
It rests on the chain of mutations: one runs at a time and the others wait (`OneAtATime`), so what the
running one has read is still the file (`RunningKnowsTheFile`), and an outcome is told only after the
rename (`Outcomes`). A list in memory or on disk is closed under what it depends on (`Lists`,
`Documents`). For the loss of changes, a list that waits to be written holds all its call knew, but for
what was already taken back (`Kept`): without `takenBack` that is false, because an old list may bring
a lost change back. From it: `ListStaysConsistent`, `OutcomesAreTrue`, `SequencesLoseNothing`.

The save states (any calls and slots). Assumption: `RequestsAssumption` (calls are positive
numbers). The queue of a slot is described by its writes that are under way (`UnderWay`): one that has
begun is the oldest of them, and every other is chained to an older one that is under way or settled
(`Queue`, with `Place`). So the file is older than every write under way (`StateIsOlder`), and unless
the slot is removed it is not older than what a reader found when it began (`FileStays`). From it:
`ReadsNeverGoBack`.

**`ControllerLemmas`** and **`SessionControllerProofs`** (any number of calls, both cores).
Assumptions: `SystemAssumption`, and `Overlap # "always"`: no two stops of one session overlap, and no
launch comes while a stop persists whose session a failed launch let go of (`StopOfNothing`). Without
these the theorem is false: the `dispose()` of a stop that ends can drop the session of a launch made
meanwhile (`session-lifecycle.ts:162`). An orphan is made in steps that look innocent, so the invariant
(`ControllerInv`) says where every session is: a live thread is that of a session some controller holds
(`HeldOK`), and the session of a call under way is held, or the call is due and its thread gone
(`HeldOrOver`). `Starting` and `Ending` say how far a launch or a stop is, what its thread has been
asked and has answered: a thread serves load, stop and start in the order they were posted. A session
whose game was loaded does not end while a stop has its save under way (`SaveOK`); one whose game was
refused may, because mGBA's thread exports what its core has, game or no game. That save is of a game
that was never played, and `SavesAreHandedOverFirst` is about the games that were. A call may hear no
more of a session of SameBoy whose thread is gone (`Lost`): nobody will act on what it knew.
`RequestOK` ties the phase of a call to its request, `InboxesOK` keeps a call from having two in one
queue, `OneStop` is what the assumption gives. `ControllerLemmas` says of each thing that can be done
to a controller that it keeps the invariant - a post, a thread's answer, a thread's death, the
continuations of launch, stop and the others - whoever does it: a free call may begin another method.
`SessionControllerProofs` puts them together for the unknown caller. From it: `NoThreadIsOrphaned`,
`SessionsAreReleasedAfterEnd`, `SavesAreHandedOverFirst`.

**`SessionHostProofs`** (any calls, cores, games, writes and clock, and any callers of the classes
`Sequential` and `AloneOnCore`, which is of SameBoy). Assumptions: `SessionsAssumption`,
`HostAssumption`. The invariant joins that of the controller with the key a save is written under.
Whatever the host's controller holds is the session the keys name, or one that can write nothing any
more (`HostKeys`); what an earlier controller still holds is dead. One call after the other keeps it
so, because a call that is about to change the keys has let go of the session first: `MainCall` says
for each await of a launch and a stop what is held there, and needs `Position` (where in the host and
in the controller's method a call is), `Owner` and `Made` (a session and a controller are of the launch
that made them) and `InOrder` (calls that are no ticks do not overlap). On that one core a launch that
is refused does change the keys; but only in the moment it learns of the refusal are they not those of
the session, and in that moment nothing else is due (`Refusal`, `OneCore`). So a save that comes home
finds the key of its game (`FindsKey`), a state the id of its game, before and after the await of its
capture (`FindsGame`), and every write that was issued, settled or not, is for the game of its session
(`WritesOK`). For the final save, the writes are ordered by the sessions they are from and, within one,
by the versions of its battery RAM (`WritesInOrder`): what replaced it on disk is not older
(`FinalSave`, `Home`). From it: `HostTypesHold`, `NoSaveGoesAstray`, `FinalSavesComeHome`,
`ThePlayingSessionHasTheKeys`, `StatesFindTheirGame`. Each excepts callers for whom it is false, by a
run or an observation of section 6: a relaunch (`host_lost_save`), two stops, overlapping launches on
two cores. The playtime has an invariant of its own, for callers who let no call that counts overlap
with another, relaunches included (`TimeIsAlone`). That the sum over the games is no more than the
clock is stated without a sum: the time up to now can be shared out to the games (`SharedOut`). All
that was counted lies before the checkpoint, or there is none (`SoFar`); a call that has the library
add time knows the checkpoint, and only one call does (`Takes`, `OneCounts`); so what it adds is shared
out to nobody yet. From it: `PlaytimeIsTime`. The run `host_time_twice` shows what overlapping calls do
to it.

**`CoreProofs`** (any ring, intervals, buffers, frame duration, catch-up limit). Assumptions:
`SameBoyAssumption`, `PacingAssumption`. `CoreInv` is the state of the SameBoy thread between two
ticks: one timer while it runs, and a speed only then (`Clock`); a ring of states that are an interval
apart, in order and of the past of the game that is shown (`Ring`, `IsRing`); samples that have been
taken, all of normal speed (`Audio`); a battery dirty for no longer than since the last look (`Saves`).
What a rewind, a capture and a trim do to a ring is stated once as lemmas about `IsRing`. From it:
`RingIsInOrder`, `RewindOnlyGoesBack`, `SpeedsLeaveNoTrace`, and `ThreadsKeepTheirPromise`: each step
of either worker is a step of `EmulatorThread` or leaves it as it is. For the clock, a balance alone is
not inductive: it must be read together with the distance to the planned frame. `PacingInv` says that
what a balance lacks is being waited for (`CreditSuffices`, `BurstIsOwed`, `SteadyIsOnTime`), and that
the next frame is at most a frame away (`OneFrameAhead`). From it: `PacedByTime`, `CatchUpIsBounded`,
`TimersDoNotDrift`. `PartsStayTyped` joins the threads, the clock and the renderer.

**`RendererProofs`** (any number of devices, launches and running actions). Assumption:
`RendererAssumption`. A handler of the renderer is an effect that several helpers build: they set refs,
send calls and change the status one after the other. So the proof follows the construction. `Sound`
says of an effect that the renderer is in order should the handler end here; a lemma for each helper
(`Flagged`, `Toggles`, `Dialogs`, `Sends`, `Polls`, ...) says that it leads from sound to sound, one for
each handler chains them, and one for each answer says that the renderer may take it. What is in order
(`Good`): a call that is under way is awaited by the action that made it (`CallsAreAwaited`), and so is
an answer (`AnswersAreAwaited`); a running action has one place (`RunsAreActions`); a speed that the
session holds is held by the renderer too or by a call that will end it (`SpeedIsKnown`); a pause that
is shown is there, or asked for, or answered (`PauseIsShown`). From it: `RendererStaysTyped`,
`NoCommandIsStuck`, `WhatShowsPausedIsPaused`.

**`DeskProofs`**, in six parts. The shell (any bounds, no assumption): the counts of quits and installs
tie the flags of `main.ts` to what was asked of it (`Counted`, `Remembered`), progress is of a session
that is there (`Kept`), and as long as nothing went wrong one stop is at work and it is that of a thread
that answers or has answered (`OneStopAtATime`). So after one request the program has ended only with
the progress on disk. From it: `OneRequestIsSafe`. The run `shell_quit_twice` shows that two are too
many. The ROM folder (any imports, listings, found files and
restarts; `FolderAssumption`: a call is of one handler): part of a file is still being copied or known
to be disturbed (`PartsAreKnown`); so is whatever a listing has read (`BytesAreKnown`) and every list
that will be written back (`ListsAreKnown`). While no two adds overlap, the list an add writes back is
the library plus its game (`AddsAlone`). From it: `GamesHaveTheirFiles`. Launches (any launches, games
and consoles, no assumption): while launches do not overlap in the host, main's console is that of the
launch that is there (`AloneInHost`). From it: `InputFollowsTheSession`. Rebinding (any
pads, inputs, systems and actions; `SetupAssumption`): every profile that is shown, stored, sent or
read is valid (`ProfilesAreValid`), for which a swap has to keep the inputs of a profile apart; what is
captured on a gamepad is no reserved button (`CapturesAreFree`); and unless a save crossed a load, the
newest profile is shown (`NewestIsShown`). From it: `ProfileStaysValid`. Preferences (any locales and
volumes; `PreferencesAssumption`): the migration of the old storage comes last among what is sent
(`MigrationIsLast`), the newest thing sent is what is shown (`ShownIsNewest`). From it:
`PreferencesSurvive`. Navigation (any library and calls, no assumption): a detail was announced before
a launch takes it (`DetailIsAnnounced`), a call is of one of its kinds and the choice it waits for was
offered (`CallsAreKnown`, `ChoiceIsKnown`), and a session is shown exactly if the host holds one
(`ShownFollows`), while no two calls cross (`OneAtATime`) and none failed after main had done its part
(`faltered`). From it: `SessionShownIsHeld`,
`SecondConfirmationPlaysDetailed`.

**`PluginProofs`**. Most of it are lemmas about rules that two programs state each for themselves.
Plugins (any ids, words and edits; `DraftAssumption`: the words of the templates match the patterns of
the validators, which are regular expressions that the models do not spell out, and the host supports
the revision that the scaffold writes). What is resolved of a game is of a record of a valid catalog,
and the window takes it (`ResolvedIsARecord`, `ValidRecordIsTaken`); a controller that is valid is
unambiguous, a console that is valid yields a mapping and a snapshot that the window and main accept
(`ValidControllerIsUnambiguous`, `ValidConsoleIsPlayable`); a template is valid unless it is a
controller whose id only the manifest takes, and then it is not (`ScaffoldPasses`). `ContractInv` adds
what a behaviour keeps: a draft has one definition and its ports are a list (`IsWhole`), and a scaffold
that nobody edited is what the scaffold writes (`ScaffoldIsUntouched`). From it:
`WhatIsAcceptedStands`. IPC (any `library.json` of the choices, selections, locale and updates;
`IpcAssumption`: the buttons of the official consoles are of the normalized actions, and their number
is what the window asks of a mapping). A game that main lists has the form in which main writes it, so
it is read back as it was (`ParsedIsAGame`, `ReadBackAlike`), and the window takes it with whatever
metadata a catalog adds (`GameIsTaken`). `AnswerIsTaken` goes through the channels one at a time. What
is new in `IpcInv` is that `library.json` keeps its fields, and that what the window was told is what a
reload lists, for as long as nothing else has changed. From it: `EveryAnswerIsUnderstood`.

Only model-checked: the types of the parts in `desk`, beyond what the invariants above need of them:
those of `Navigation` are about lists that `SelectSeq` selects from, which is recursive, so that what
it returns for any list is an induction over data. And all liveness, because it is out of the prover's
reach, as are `ENABLED` and induction over data. No module has a RECURSIVE operator.

## 6 Findings

Six runs end in a violation, of a property that states what the documentation says:

1. **A refused launch loses the save of the game that plays** (`host_lost_save`,
   `session-host.ts:215`). It clears `activeSaveKey` although the session goes on; its flushes and its
   final save are then dropped, and the stop reports ok.
2. **A stop of SameBoy can wait for ever** (`controller_sameboy_hang`, `sameboy-session.ts:185`). After
   its thread died, `request` still posts to it; nobody answers. mGBA's session has the check
   (`#terminated`).
3. **The library takes acknowledged changes back** (`library_lost_update`,
   `local-game-library.ts:125`). Each operation reads the list and writes it back later; overlapping
   ones overwrite each other. The queue of `JsonFileStorage` keeps writes apart, not read and write.
4. **Playtime is counted twice** (`host_time_twice`, `session-host.ts:142`). A checkpoint of the
   interval is under way when a stop makes its own; both start from the same moment.
5. **A rewind or fast-forward held on the keyboard ends at once** (`renderer_held_command`,
   `renderer.tsx:666`). Each animation frame sets the command to what the gamepad's button says; with
   the keyboard as the device there is no gamepad, so the key counts for one frame, and for one more
   with every repeat of its keydown.
6. **A second quit does not wait for the save** (`shell_quit_twice`, `main.ts:627`). The first quit
   clears `stopActiveSession` and waits; the second finds nothing to stop and lets the program end.

What the models show besides, in configurations that are not kept as runs, or what was met while
reading. Sessions:

- With `Overlap = "always"`, two stops and a launch leave a launch that failed with a live thread: the
  second stop releases the session the launch has just made (`session-lifecycle.ts:162`). The run
  allows one stop at a time. A launch that a stop overlaps may never have its `start` answered.
- One stop is enough where mGBA refused the save of a launch: the thread stays up until `failLaunch`
  stops it, a stop of the player overlaps and gets the core's save, and while it persists `failLaunch`
  lets go of the session. A launch made then is released as that stop ends. `StopOfNothing` keeps it
  out of the run and of the theorems.
- The stop of a launch that mGBA refused brings a save, because `stop()` of the worker does not look at
  `hasRom` (`mgba-worker.ts:116`); `failLaunch` drops it. It is of a game that was never played.
- The same two stops in the host (`"stops"` in `overlapping`) can write the save of one game under the
  key of another: a launch, two stops, a launch of a second game, a stop of it, a launch of the first.
  The `dispose()` of the second stop drops the session of the second launch, so the third launch is not
  refused and sets its key before the final save of the second game arrives. It takes six calls; with
  one stop at a time TLC finds no foreign save in four calls on mGBA exhaustively, nor in seven in
  simulation. `Hasty` has three calls; `NoSaveGoesAstray` is for any number of them.
- With two cores and `relaunch`, overlapping launches can write the save of one game under the key of
  another: the key is read when a save arrives (`session-host.ts:80`). That is why `Hasty` has
  one core.
- A stop captures an autosave also where autosave is off (`session-host.ts:293`), and
  `captureAutosave` whose keys were cleared meanwhile stores for no game.
- After a save was rejected, the controller keeps the session; no call gets rid of it.
- A quit beside a stop of the player is refused at once by the controller or by mGBA's session, or,
  after the thread has ended, by nobody; where it is refused, `finally` ends the program before the
  save of the first stop is on disk (`main.ts:631`). So it is with a quit whose own stop fails: the
  program ends without the progress. With SameBoy's thread dead the stop of a quit is unanswered, and
  the program does not end.
- An install of an update that comes to nothing leaves the flush marked as done; a quit after it does
  not stop the session (`main.ts:627`).
- Restoring a state in SameBoy does not mark the battery RAM as dirty; until the game writes again, or
  stops, the `.sav` is that of before. Rewind after a restore goes back to before the restore: the
  ring is kept.
- `resume` of mGBA postpones the periodic save: pausing more often than every 30 s leaves only the
  save of the stop.

Renderer:

- The tail of `launchGame` sets the status to running once more (`renderer.tsx:930`), after three
  awaits. A pause in between is shown as running, and a stop in between leaves the product shown as
  running; the next action is refused. If one of the three is rejected, for example by an unreadable
  profile (`main.ts:401`), main holds a session that the renderer does not show, and launches of its
  core are refused from then on.
- A stop that fails is shown as an error also where main keeps the session.
- A game selected in the moment `refreshLibrary` shows "ready" changes the title of the session, and
  an import that finishes while a game runs makes the product "ready".
- `onConfirm` of the carousel leaves `globalSettingsOpenRef` set (`renderer.tsx:1236`). The dialog of
  the autosave choice is driven by the pad also where it is not visible.
- A failed read of the preferences leaves the metadata of games in en-US.

Files and library:

- A list of save states that cannot be read is taken for an empty one, and the choice of the autosave is
  skipped.
- An import whose `add` fails leaves the copied ROM in the folder, and the next listing registers it.
  Artwork copied before a `setArtwork` that fails stays.
- One malformed entry of `library.json` makes the whole library an error.
- Four overlapping calls can lose a change, bring it back and lose it again: `SequenceLosesNothing`
  excepts what was lost before.

Plugins and documents:

- The controller SDK takes fewer ids than the manifest (`controller.ts:5`): none with a part that
  begins with a digit (`org.8bitdo.pad`) and none with two hyphens in a row (`org.my--pad`). So the
  scaffold writes plugins that its own contract test refuses; `ScaffoldIsAccepted` says of which ids.
- `validateConsolePlugin` accepts definitions that the window refuses at launch; the reference handheld
  of the repository has a mapping of three entries.
- `official-plugins.ts` validates game catalogs only, although `docs/architecture/console-sdk.md:10`
  and `docs/design/console-home.md:12` speak of validated consoles. `docs/design/console-library.md:7`
  says the library wraps horizontally; the code stops at the ends.
- The title `PIXELCORE ADVANCE` of the GBA catalog has 17 characters and can match no header of 12.
- `PluginRegistry`, `assessPermissionRequest`, `validateEmulatorSessionCapabilities` and the event bus
  of the core are used by tests only.

## 7 Not modelled

- `read` of the cartridge save store is one load that may fail, in the host model; it does not wait
  for writes, in the code either.
- `setInput`, `setRewindActive` and `setFastForwardActive` change nothing in the controller and the
  host; the renderer makes these calls in `RendererSession`, and `SameBoyWorker` serves the two
  latter. Video frames carry no state that is kept.
- Data is abstract: ROMs, saves, states, samples and JSON values are numbers, sets or model values.
  The checks of the payloads of requests, and of audio and video events, are left out: the failure
  branch that follows from them is there.
- Of the renderer: the menu of save states and the selection of artwork, the axes of a gamepad, focus
  geometry, sounds, rendering. Two of its screens are never combined in one behaviour.
- Of main: the content security policy and the navigation policy (`electron-security.ts`), the
  geometry of the window, the protocol that serves assets.
- Arguments and files of the plugin command line, the texts of `localization.ts`, the assets of
  prompts, the event bus, which nothing uses.
- The cores are third-party code or generated; the models know of them what the workers see.

## 8 Plan

What is left, in the order of what a failure would cost the player.

Models:

1. The menu of save states of the renderer, over `SaveStates` and the host: a capture, a restore and
   a removal that overlap, and the list that is shown meanwhile.
2. `Navigation` and `RendererSession` in one behaviour: the observations about the tail of
   `launchGame` were found with one of them at a time.
3. Several games of a catalog in `IpcContract`, and the payloads of requests.

Theorems: every invariant and action property of a run has its theorem, but for `DeskTypeOK`
(section 5) and `SessionHost`'s `TypeOK` of callers outside the classes.

# StemDeck: specification, model checking and proofs

StemDeck takes a link or an uploaded file, separates it into stems with Demucs, and plays and
exports the result. The program is a Python server (`src/app`), a page it serves (`src/static`),
a phone's page beside it (`src/static/mobile`) and a desktop shell that starts it
(`src/desktop`). The signal processing is sequential code that tests reach well. What is hard is
around it. On the server: one serial queue shared by an event loop, a pipeline thread and
threadpool handlers; one JSON file and a tree of directories from which the library is rebuilt
after a crash; processes, streams and background runs that share flags and locks. On the page:
one thread, but every answer comes late, and by then the user has opened another track, moved the
fader, or thrown away what the answer is about.

This directory models those parts in TLA+, checks them with TLC on small instances, and proves
the central safety properties with TLAPS for every instance.

| module | what it is |
| --- | --- |
| `JobLifecycle` | the abstract specification: what an import is to the person who started it |
| `ImportQueue` | the queue, its consumer, the pipeline thread, the runner and the handlers |
| `LibraryRestart` | registry.json, the job directories, crashes and `restore()` |
| `JobStream` | a job's fields and version, the streams that read them, the connection slots |
| `DemucsWorker` | the kept demucs process, its reuse, the CPU retry, a cancel's signal |
| `LyricRuns` | lyric timing runs and the vocal split behind the pipeline lock |
| `GpuWork` | the two above next to each other, and what the GPU's users rely on |
| `PageLibrary` | the page's folders, tracks, Trash, tombstones, and the sync with the server |
| `PageStudio` | imports and the studio's owner on the page; extends `PageLibrary`; fairness |
| `StemEngine`, `StudioTransport` | the two engines; play, stop, seek, loop, count-in and click over them |
| `PitchRouting` | lanes, buses and wires into the pitch worklet |
| `PlayerSession` | bringing a track up: overlapping loads, engines, click, grid editor |
| `MixerDesk` | volumes, mutes, solos, keys, speed, and the mix kept per track |
| `BeatGrid`, `TimelineSections` | the editors of the beat grid and of the sections; `ArrayFilter` is the page's `Array.filter()` as a recursive function |
| `LyricsPanel`, `LyricsTiming` | which lyrics are shown, and the timing of their lines |
| `Studio` | the parts of the studio next to each other |
| `ArtistBox`, `Notices`, `ExtractForm`, `ExportDesk`, `SettingsDialog`, `QueueView`, `LibraryRepair` | the page's panels |
| `PhonePlayer` | the phone's page |
| `AppUpdate`, `SetupWizard` | the desktop shell's update and first-run setup, with their windows |
| `Panels`, `Shell` | the panels and the phone next to each other; the shell's two windows next to each other |
| `MCImportQueue`, `MCLibraryRestart`, `MCPage`, `MCStudio`, `MCParts` | instances for TLC |
| `DataLemmas` | what the proofs share: induction and recursion stated with sets, and what the queue's sequence operations keep |
| `ImportQueue_proofs`, `LibraryRestart_proofs` | theorems about the modules they are named after |
| `Server_proofs` | theorems about `JobStream` and `GpuWork` |
| `Page_proofs` | theorems about `PageLibrary` and `PageStudio` |
| `Editors_proofs` | theorems about `BeatGrid`, `TimelineSections` and `LyricsTiming` |
| `Studio_proofs` | theorems about `StudioTransport` with `StemEngine`, `PitchRouting`, `PlayerSession`, `MixerDesk`, `LyricsPanel`, and `Studio` as a whole |
| `Panels_proofs` | theorems about `Panels`, `Shell` and `LibraryRepair` |

`PROJECT.json` gives for every definition that models code the lines it translates, for every
property the run that checks it and a mutation of the model that it catches, and for every
known hazard the properties aimed at it.

## 1. Inventory

Modelled or partly modelled:

**Import queue** (`app/pipeline/jobqueue.py`). State: the deque `_queue`, the slot
`_running_id`, `_paused`, and the asyncio event `_wake`. Operations: `enqueue`, `discard`,
`reorder`, `resume`, `queued_ids`, and the single consumer `_worker_loop`. The consumer runs on
the event loop; everybody else may come from another thread, and wakes it through
`call_soon_threadsafe`. Hard: a job is for a moment in neither the queue nor the running slot;
the wake-up event is cleared outside the lock; a paused queue sleeps on the same event. Correct
if each waiting job has exactly one owner, no wake-up is lost, and the persisted order is the
live one.

**Job control handlers** (`app/api/jobs.py`, `app/api/queue.py`). No state of their own. Create
is a coroutine on the loop; cancel, trash, restore, extract, delete and reorder run in
threadpool threads and read and write jobs with no lock of the job's own. Hard: every
check-then-act in them. Correct if an answered request takes effect once and never undoes what
another one settled.

**Pipeline runner** (`app/pipeline/runner.py`, `cancel.py`). Holds `_pipeline_lock`, runs the
stages in a thread, and settles the job: done, failed, cancelled or stopped. Hard: a stage whose
child was killed by a cancel looks like a failure; a request that comes after the last check
has to be dropped. Correct if each run ends in the one status the requests and the stages allow.

**Registry in memory** (`app/core/registry.py`, `models.py`). State: the jobs with their status,
flags and `trashed_at`. Operations: `add_if_capacity`, `requeue_if_capacity`, `get`, `remove`,
`settle_cancelled`, `reset_for_rerun`.

**Registry file and restart** (`app/core/registry.py`, the lifespan in `app/main.py`). State:
`registry.json` with its records and its `deleted` list, and what each directory holds.
Operations: `persist`, `mark_deleted`, `_prune_deleted`, `restore` with `_resume_or_recover` and
`_recover_done_job`. Hard: a crash between any two steps, a removal that fails half-way, a save
that the disk refuses and nobody repeats.
Correct if nothing finished is lost, nothing deleted comes back, and a job that kills the
process is not run for ever.

**Stem collection and sweep** (`app/pipeline/collect.py`). Moves the stems into the job's
directory, removes the source of a link, and hourly removes what is too old.

**Demucs worker** (`app/pipeline/separate.py`). State: `_worker`, the process kept between jobs,
and the job-to-process map of `runner.py`. Operations: get or spawn, send, read until it answers,
kill after anything but a success, retry on the CPU. Hard: a cancel's handler terminates a process
it looked up earlier. Correct if no job gets a process on which another went wrong.

**Event streams** (`app/api/events.py`, `app/core/models.py`). State: a version per job and the
count of connections. Hard: `_set()` writes field by field and bumps the version last, and a
stream reads between the writes. Correct if a stream ends up with the job as it is, and each slot
is given back once.

**Lyric timing and vocal split** (`app/pipeline/lyrics_retime.py`, `app/api/jobs.py`). One slot per
finished job, a cancel flag per run, the pipeline lock. Hard: claim, cancel, delete and the start of
the run race, and a delete waits 15 seconds only. Correct if a run told to be over never writes and no
edit of the lyrics is undone.

**Page: library, sync and imports** (`static/js/catalog.js`, `job.js`, `queue.js`, `playlist.js`).
State: folders, tracks, Trash, tombstones, the local copy of all that; open streams and requests.
Hard: answers taken before a deletion and applied after it, requests that are lost, reloads, ids
that change when a song is imported again. Correct if each track is in one place, what was deleted
stays so, and page and server agree in the end.

**Page: studio** (`transport.js`, `chunkedAudioEngine.js`, `audioEngine.js`, `tickLoop.js`,
`metronome.js`, `pitchBus.js`, `player.js`, `mixer.js`, `beatgrid.js`, `sections.js`, `lyrics.js`,
`lyricsSync.js`, `lyricsLane.js`). State: the audio clock's queue of sounds, caches, timers and
flights; the track's mix, grid, sections and lyrics with their pending saves. Hard: a timer, a
fetch or a start that comes after the stop, the seek or the next track. Correct if what is heard
and shown belongs to the last thing the user did, on the track that is open.

**Page: panels** (`artistInfo.js`, `artistLookup.js`, `notifications.js`, the import form of
`job.js`, the export menu of `main.js`, the settings and queue views of `catalog.js`). The same
question: late answers against what is on screen now.

**Phone** (`static/mobile/app.js`): one engine loaded in four awaited steps, one followed job.

**Desktop shell** (`desktop/ui/setup.js`, `desktop/src-tauri`): the update that is downloaded,
verified and applied; the setup that installs the runtime and opens the backend.

How the parts interact:

```
 page <---- frames of job streams, queue stream, polls ----+
   |  POST /api/jobs, cancel, trash, restore, edits        | JobStream
   v                                                       |
 handlers (threads) --flags, status--> registry <--status, flags-- runner (loop)
     |  enqueue/discard/reorder          |                            ^      | pipeline lock
     v                                   | persist()                  |      +-- LyricRuns
 deque + _paused + _wake --pop--> consumer (loop) --run_in_executor--> pipeline thread
                                         v                            |   -- DemucsWorker
                                   registry.json     job directories <+
                                        \____ restore() at the next start ____/
```

The server is the environment of the page's modules: `PageLibrary` keeps of it the jobs' status,
Trash and favourite, and lets them change as `JobLifecycle` allows. The page is the environment of
the server's: its requests are the `Callers` of `ImportQueue`, whenever they like.

## 2. ImportQueue

**Grain of the steps.** Who runs where decides it. The consumer, the runner's settling code and
`POST /api/jobs` run on the event loop: what they do between two awaits is not interleaved with
one another (`LoopFree`), but it is with handler threads, so the consumer is cut at every access
to shared state (`worker`: top, clear, wait, popped, checked, claimed, running, finishing,
release). Each other handler is a `Caller` with a program counter `at`; what it does under the
registry's or the queue's lock is one step, the rest is one step for each read or write.

**Correspondence.** `queue`, `runningId`, `paused` are the module globals of `jobqueue.py`;
`wake` is the event and `wakeCall` a scheduled callback that will set it; `held` is
`_worker_loop`'s local `job_id`; `registry`, `status`, `cancelReq`, `stopReq`, `trashed`,
`position` are the fields of `Job` by id; `files` says which uploads still have a source. The
actions carry the names of what they translate: `PopNext`, `SetRunning`, `FinaliseDropped`,
`SettleCancelled`, `Discard`, `Requeue`, `ResetForRerun`, and so on. "downloading", "analyzing"
and "separating" are one status, "processing": no guard tells them apart. A run is `Stages`
cancellable child processes with `check_cancel` between them, then an uncancellable tail.

**Properties.** Those about one job speak of `Steady`, the jobs that no client extracts again;
an Extract puts a job back into the queue behind the consumer's back, and section 9 lists what
that does.

- `OneOwner`: a waiting job is in exactly one of: a slot of the queue, the consumer's hands, one
  handler that took it out and will settle it; any other job is in none.
- `SettledForGood`: a finished status is never overwritten.
- `StopKeepsFiles`: a stopped upload has its source, whoever settled it.
- `TrashStops`: a song in the Trash that has not finished has been asked to stop.
- `NoLostWakeup`: the consumer does not sleep on work it could take with no wake-up under way.
- `PositionsFollowQueue`: `queue_position` rises along the queue, so that a restart, which
  sorts by it, finds the same order.
- `CancelTakesEffect`, `QueueMoves`: liveness, see below.
- `ImplementsLifecycle`: with `phase <- status` and `asked <- cancelReq` on `Steady`, every
  behaviour of the queue is one of `JobLifecycle`: jobs run one at a time, end once, and are
  cancelled or stopped only if asked.

**Runs.**

| run | instance | states | shows |
| --- | --- | --- | --- |
| `queue_safety` | an upload, a link, two callers, cancel and trash of either | 2.2 M | the safety properties and the refinement |
| `queue_extract` | the same jobs, two callers; trash, delete, extract and every reorder | 0.7 M | an extracted job never costs the other its place, and `PositionsFollowQueue` |
| `queue_liveness` | two jobs, one caller, one stage, fair | 0.5 M | the liveness properties |

Bounds and why they are enough: two callers are the fewest that race each other, and more only
race in pairs, for a handler touches one job; two jobs are one that is asked about and one
that it could harm, and enough for an order to be wrong. `Stages` is
0 where only who settles the job matters (a run then still has its last check and its tail)
and 1 in the liveness run, where a killed child has to lead to the end. The limits are 1 per kind, so that `HasRoom` refuses. Every start is a start with any subset of
the jobs already waiting, in any order, and paused if there are any, as `lifespan` leaves it.
The two callers are symmetric in the safety runs; the liveness run has no symmetry.

**Fairness.** The consumer, the pipeline thread, the scheduled wake-up and each handler are weakly
fair: the loop and the operating system keep running them, a child process ends, and no
handler waits for another. Clients and users are not fair: nobody has to press Start or to
cancel. `QueueMoves` therefore speaks of an unpaused queue, and assumes that the users stop
rearranging it at some time: whoever moves a job to the front for ever does keep the others
waiting. Deadlock is checked in every run.

## 3. LibraryRestart

**State.** Memory (`status`, `trashed`, `attempts`, `deleted`, and the pipeline's `running`,
`stage`, `asked`), disk (`saved`, `savedDel` for registry.json; `files` for the directories) and
history variables that properties refer to: `kills` counts how often the process died while
a job ran, `fate` is what the pipeline or the user last made of a job, `unsaved` are the jobs whose
save the disk refused with none gone through since.

**Duties.** Every handler and every end of a run changes the job and then does things that a
crash may cut off: `persist`, remove the directory, remove the record. What is still to be
done is the job's `duty`, a sequence in the order of the code (a delete owes `erase`, `forget`,
`save`; a cancelled run owes `save`, `erase`; an expiry owes `erase`, `drop`, `save`). `persist`
writes all jobs, so a save for one job catches every other one in the middle of its own duties:
that is why the runs have two jobs. A removal may leave any part of the directory.

**Refused saves.** `persist` is best effort: when the directory or the file cannot be written it logs
and returns, and the handler answers all the same (`PersistFails`, also after `restore()`). The
file then keeps what it had until some later `persist` goes through. What that may cost is what the
properties leave open, and no more: the job itself until its next save, the deletion that was not
written (`Lost`), one resume that was not counted, and the finish of a job that the file still has as
stopped. Every other job keeps all that was promised of it.

**Crash and restart.** `Crash` may happen at every step, also between `restore()` and its own
`persist`, and any number of times. `Restore` is `restore()`: what becomes of a record, or of a
directory without one, is `RestoredStatus`, `RestoredAttempts` and `RestoredTrash`.

**Properties.**

- `DeletedStaysDeleted`: once a deletion is on disk the job never comes back, although its
  directory may still hold stems, the deletion records are pruned at every save, and
  `restore()` adopts directories it has no record of.
- `FinishedIsKept`: a job the pipeline finished is done after every restart, also if the process
  died before "done" was saved, or the disk refused it.
- `CrashLoopEnds`: a job that kills the process is run once and resumed once; the deaths that count
  are those that found the file up to date about it.
- `SourceIsKept`: an upload that has come to no end has its source, which is the only copy.
- `TrashSurvives`: what the file has in the Trash comes back in the Trash and is not run.
- `AnsweredIsSaved`: when a job's duties are done, the file says what the registry says, unless the
  disk refused this very job's save and none went through since.

**Runs.** `restart_safety` has two uploads with one stem name and 6.7 million states; the state
space is finite without any bound on crashes. `MaxRefusals` bounds the refused saves: one, at any
moment, in `restart_safety`, which is enough for one job to be unsaved while the other is not, or for
both by `restore()`; none in the small runs of section 9, which are about other things. Two jobs are
the job in question and the one whose save catches it; uploads do everything a link does but lose
their source in `CollectEnds`, and the link is the instance of the small runs of section 9. One stem
name is enough for "has stems or not", on which `restore()` decides; `done_whole` has two, for "some
of them".

## 4. The server's small machines

**`JobStream`.** The thread's `_set()` is a list of writes, the fields one by one and the version
last; a stream in the event loop reads the version, the fields and the version again, and sends or
starts over. Both are cut at each access, because they run in two threads; `ClaimSlot` and the
`finally` that gives the slot back run on the loop, in one step each. The job's calls come from
`JobRuns`: one job that ends well and one that fails. `StreamsAreTrue` says that the slots taken
are those of the open streams and never more than `MaxSse`, and that a stream which has sent
the job's version shows the job's fields whenever no `_set()` is half-way. The stronger claim of
the code's comments, that no frame is ever mixed, fails: `torn_frame` in section 9.

**`DemucsWorker`.** `pass` is one run of `_run_demucs()` with its place, device, process and
outcome; `processes` is every process ever spawned, with `soiled` for one on which something went
wrong; `keptProc` is `_worker`; `procOf` is the registry's map; `stopper` is a cancel's handler,
which sets the flag, looks the process up and sends the signal in three steps.
`WorkersAreClean`: no job reads from a soiled process, no process lives on that `_worker` has
forgotten, and a look-up finds a process only for the job that runs.

**`LyricRuns`.** A request looks the job up (`AskRetime`), reads its lyrics in a thread, and claims a
slot or is refused, whatever became of the job meanwhile; the run waits for the lock, looks at its
flag, hears, hears the missed lines again, looks at its flag under `_OFFSET_LOCK` and writes. Each of
these ends in its own ways: a flag seen, a timing that is unsure, a failure. A cancel and a delete are
handlers that flag, settle, signal the process, wait and remove; an import and a vocal split hold the
same lock. A process that was ended fails the first hearing, and the second takes it for nothing
heard. A delete waits 15 seconds and then goes on, and it neither signals nor waits beside a vocal
split of the job: `spared` records either. `RunsKeepTheirWord` has four parts: a run the user was told
is over before it started never gets to hear or write; a job that is kept has one run at a time that
nobody stopped; the file holds the last edit that was answered; and a delete that was not spared
removes files only when the run it stopped has let go.

## 5. The library of the page

**Time.** The page is one thread, so one step is what it does between two awaits. A request that
it does not wait for is a member of `calls` until the server handles it or it is lost. A request that
it waits for is answered at one moment, with a snapshot of the server, and applied at a later one.
`saved` and `savedDeleted` are the store: `ReloadPage` drops everything else at any step.

`PageLibrary` has the library's own operations (`AddTrackToLibrary` with its replacement of a
track of the same source, moves, folders, Trash, purge, `Adopt`, `ReconcileTrash`,
`HandUpHearts`) and the server's side of them. `PageStudio` adds who owns the studio: loads
with their token, imports from the form, a playlist or "sync again", job streams, the queue's
stream and its refresh, the settling of jobs that left the queue, and what opens by itself.

**Properties** (`page_library`):

- `LibraryIsWellFormed`: types, and no folder is its own ancestor; `renderFolder()` would not return.
- `TracksKeepAPlace`: no step leaves a known track in no folder and not in the Trash, except the
  answer of a load whose track was dropped meanwhile.
- `TombstonesHold`: a track deleted for good comes back by no sync, reload or other import.
- `ServerAgrees` (liveness): Trash and favourites are in the end the same on both sides, whatever
  was lost or overtaken on the way.
- `RowsSettle` (liveness): no row says "processing" for ever of a job that has ended.

**Fairness** (`PageFairness`). The server answers, the event loop runs handlers, and a job that runs
ends; nothing takes these away for ever. The user comes back to the window (`LookAgain`), which is
what makes the page sync. Every other gesture is free to never happen. Losses are not fair and
are bounded by the scene: an environment that loses every request for ever refutes both
properties, and rightly.

**Scenes and bounds.** All operations at once are out of TLC's reach, so a behaviour plays one
scene of `MCPage`: a set of operations, the jobs there are at the start, and bounds on gestures
(up to 4), lost requests and reloads (up to 1). `BinScenes` are about the Trash, `FolderScenes`
about folders and playlists, `HeartScenes` about favourites, `CopyScenes` about one song twice,
`ImportScenes` about imports, their streams and clicks on other tracks, `RestoreScenes` about
"sync again". Three jobs, of which two share a source, and two folders: a replacement needs two
jobs of a source and a third that it must not touch, a cycle needs two folders. 229,000 states.

## 6. The studio, the panels, the phone and the shell

These modules share no state, and each meets the others only through what it calls `open` or
`track`: which track is open now. One run therefore checks many of them side by side: `MCStudio`
and `MCParts` have a variable `part` that says which one moves in a behaviour, while the others
stand still in one of their initial states. The states are the sum of the parts' states and not the
product, and each part is checked in all its behaviours.

As in section 5, a behaviour plays one scene: what the user does, how often, and what there is to
find. Every action is in some scene, and the scenes pair the operations that meet: those which share
a timer, a flight or a pending save. Gestures are bounded by 1 to 7 in a scene; answers, timers
and ticks are not bounded, for they run out.

**`StemEngine` and `StudioTransport`.** Time is counted in half chunks, `engine` holds the mapping
from media time to clock time, the nodes on the clock, the cache of chunks and the fetches under
way. `Tick` is the scheduling loop, which a hidden page runs on another timer. `Chunk = 2`,
`Length = 6` and `Lookahead = 3` give a track of three chunks, so that one is played, one is cached
and one is to come; `Plays` has seven scenes, chunked and buffered, with and without a loop;
one of them seeks to the end of the track during a count-in.
`SoundFollowsTransport`: a track that sounds has a tick coming; a count-in was asked for by the last
start and by no stop, and counts to where that start begins unless its chunk is still fetched; a
destroyed engine is silent; clicks are where the clock says. `LoopStaysWarm`: the chunk in
which a loop begins stays cached.

**`PitchRouting`.** Three lanes, one of them drums, one semitone either way, two changes of bus
on their way at once: enough for a change to land after the next one and after the engine went.
`LanesAreRouted`: a connected lane's bus is wired, an idle bus is not, drums keep their key.

**`PlayerSession`.** Two tracks, two loads, every setup. A handler is a composition of
functions of the page's state (`TeardownMetronome`, `Retire`, `StartEngine`), as the code's is of calls.
`PlayersAreWhole`: one engine lives at a time, and click and grid editor are of that one.

**`MixerDesk`.** Two tracks with different lanes; the store answers in order, before or after the
engine. `HeardIsShown`: the gains heard are those of the faders, mutes and solos on screen.

**`BeatGrid`, `TimelineSections`, `LyricsTiming`.** Three editors with undo, timers, pending saves
and switches of track. `EditorsHold`: beats in order and apart with marks on beats; added
sections do not overlap; lines never cross, what is shown is what is kept unless its own save
failed last (`lostTiming`), and a fit is of its track. `OnlyStaleListsGoBack`: edits of sections are
numbered as they are made, a list goes with the number of its last edit, and a track is opened with the
list the server had when it was asked (`coming`). What the server has of a track goes back to an earlier
edit only when a list is saved that had been overtaken when it was opened; section 9 tells how that
happens.
Tracks of 4 to 6 units with two to three beats, sections or lines: an edit between two neighbours.
The depths of undo (`UNDO_DEPTH`, `HISTORY_MAX`) are the code's and no scene reaches them; the
theorems of section 7 do not depend on their values. `EarliestFirst` stands for the page's
sort: it chooses an order of the lines by time, and a line is no more than its time here.

**`LyricsPanel`.** The store, the server, the file's tags and a lookup answer in any order; a lookup has
its look at the server, its response and its body as three steps; every save may fail.
`LyricsStayWithTheirTrack`: lyrics on screen are of the track the tab shows, or of the one just opened,
or are the file's lyrics of a track that another was opened over (`strayed`, section 9); a timing given
to the server's lyrics gets there whichever way the lines are left, unless its own save failed (`lost`).

`MCParts` (`small_parts`):

| part | property | says |
| --- | --- | --- |
| `PhonePlayer` | `PhoneIsTrue` | the phone plays the track on screen; what it follows is the job on the card, and not over |
| `ArtistBox` | `BandsAreTheirTracks` | the box shows the answer to what was asked last, or waits for one that will come; a band nobody chose is the file's |
| `Notices`, `ExtractForm`, `ExportDesk`, `SettingsDialog`, `QueueView` | `ShownIsTrue` | one card for a failure; the form's buttons are the selection; the menu is busy while a file is written, and a dragged file is of the loop dragged; a window in step with the server says what it keeps; the rows are the queue |
| `AppUpdate`, `SetupWizard` | `ShellIsSound` | only verified bytes are installed, a dismissed release stays so, the window turns only to a complete backend, a setup that stopped offers Retry |
| `LibraryRepair` | `EachWindowSyncsOnce` | a window has one sync at a time, and its button waits exactly as long, whichever windows are opened and closed over it |
| `JobStream` | `StreamsAreTrue` | section 4 |
| `DemucsWorker`, `LyricRuns` | `GpuWorkIsSound` (in `GpuWork`) | section 4 |

Its bounds: two tracks or jobs, three where an order matters (the queue and the repair); two
streams and one slot, so that one is refused; both devices and four processes, which is one for each
of two jobs, its retry and a spare; one job with one request under way at a time, three lyric runs, two stops and one edit; three
failures, of a job or of none, and room for two cards, so that one falls out; three downloads; four setups. The
remaining bounds are in `Parts.cfg` and in the scenes.

`StudioTypesOK` and `PanelTypesOK` are the types of the parts of a run (those of `LyricsTiming` are a
part of its invariant in section 7 alone).

**Runs and their sizes.** `page_library` 0.2 M states, `studio_parts` 1.7 M, `small_parts` 2.4 M.
Deadlock is not checked in these three: a scene is over when its gestures are spent and every
answer has come.

## 7. What is proved

All theorems are of the form `Spec => []Property` (or `SafeSpec => ...`, or `Spec => [][A]_vars`) for
every value the assumptions of the modules allow. TLC evaluates these assumptions in every run. They
say no more than what the configurations and the code share: sets of jobs, tracks or lanes are finite
where something is counted, `None` and its like are no member of them, scenes are made of the
operations that exist, numbers are naturals, a chunk is at least one and divides the length, and
`MCParts` assumes that its library of tracks is the one the panels look at. Bounds on gestures are
part of the scenes and may be any number.

`ImportQueue_proofs` (from `QueueAssumption`: a finite set of jobs,
uploads among them, limits of at least one, `None` no job and no caller): `TypeCorrect`,
`WakeupsKept`, `OrderKept`, `OneOwnerAlways`, `LifecycleImplemented`, `SettledStays`,
`StoppedKeepsFiles`, `TrashAlwaysStops`. None of the properties is inductive. The invariant adds:

- `CallInv` (in `TypeInv`): a busy handler has a request that is among `Asks`, and stands where
  that request can stand.
- `ConsumerInv`: what the consumer's place says of `held`, `runningId` and the pipeline's place.
  Without it the runner could settle a job that the consumer does not hold.
- `OwnerInv`, for each `Steady` job: it is queued exactly if it has an owner, its owners exclude one
  another, it is processing exactly if the consumer runs it, whoever settles or stops it was asked
  to, and a job on its way is in the registry and about to be deleted by nobody. The last two are
  what a step of another actor needs.
- `OrderInv`: no job is twice in the queue, a job that does not exist yet is mentioned nowhere, and
  positions rise along the queue.
- `WakeInv`: `NoLostWakeup`, and that a consumer about to clear the event beside work it could
  take has a wake-up call scheduled, which comes after the clear.
- `FileInv`: `StopKeepsFiles` for waiting and running jobs too.

`LifecycleImplemented` follows from `OwnerInv` and `ConsumerInv`: each action either leaves
`phase` and `asked` as they are or is a named action of `JobLifecycle`; that only one job is
"processing" is `ConsumerInv`. `DataLemmas` has what `RemoveAt`, `InsertAt`, `Append`, `Tail` and
renumbering do to membership, uniqueness and order.

**Data.** The library's induction theorems take a predicate, which the provers cannot instantiate.
`DataLemmas` states them with a set instead (`Induction`: a set with 0 and every successor holds the
naturals; `SetInduction` for subsets of a finite set; `SetRecursion` and `Iteration` for functions
defined by recursion, or by repeating a step): a use defines the set of those that have the
property. That is how the sync's fold over jobs and the way up from a folder are reasoned about.

`LibraryRestart_proofs` (from `RestartAssumption` and `NoneAssumption`: at least one stem name,
"source" not among them, `None` no job and no record): `RestartTypeCorrect`, `DeletedStays`,
`FinishedStays`, `CrashLoopsEnd`, `SourceStays`, `TrashStays`, `AnsweredStays`. `RestartInv` has one
part for each question, and each of them is about one job (`JobOf`), which is why one lemma with one
step per action proves them all:

- `DutyOf`: a job with a removal among its duties is not waiting, running or finished-and-wanted,
  and whatever takes it out of the registry has a save after it.
- `NewOf`: nothing is known of a job before its import.
- `CapOf`: a job that may run has resumed as often as it has killed the process, and after
  `RestoreEnds` its record says so too; in between, the record may lag by one.
- `SourceOf`, `FinishedOf`, `TrashOf`: the properties, without the conditions that make them
  depend on a step before (`FinishedOf` adds that the directory has a stem and that the record is
  missing, in flight or done; it is what makes `restore()` recognise the job).
- `DeletedOf`: a deleted job has no record and either no files or an entry in the file's
  `deleted`, which memory still has unless the process is down. Pruning keeps it because it
  only drops entries whose directory is gone.
- `SavedOf`: a running job is not "stopped" in the file: the save of an extract comes before it
  can start. Without it a finished job could come back as a stopped one.
- `SyncOf`: the file agrees with memory, or a save is among the duties, or the job is `unsaved`;
  between `Restore` and `RestoreEnds` it agrees for every job that was not in flight.

`Server_proofs`, about `JobStream` (any finite set of streams, any limit, any lists of `_set()` calls):
`StreamTypeCorrect`, `StreamsTellTheTruth`. A stream is right because each `_set()` ends with the
version (`WritesEndInVersion`) and a stream's versions were the job's (`VersionsAreOld`): a field
read before the write of it is found out when the version is read again. `ReadsAreTrue` says it
of the fields read so far, `CaughtUpIsTrue` of what was sent.

`Server_proofs`, about `DemucsWorker` (any jobs, devices and number of processes): `SepTypeCorrect`,
`EveryWorkerIsClean`. The invariant ties the separation to the kept process from the moment it got
it to the `finally` (`WorksOnKept`), lets that process be soiled only in between (`KeptIsClean`),
and says that no other process lives (`OneLives`).

`Server_proofs`, about `LyricRuns` (any jobs, requests, runs, stops and edits): `LyricTypeCorrect`,
`RunsAlwaysKeepTheirWord`, and with the one before `GpuWorkStaysSound`. The slot of a job is the
invariant's centre: a run that nobody stopped is in the slot of its job for as long as that is
registered, so there is one (`UnstoppedHoldSlots`); the run that a cancel flagged keeps the slot or is
no longer running (`StopKnowsItsRun`), so that what the deletion waits for is the run it
stopped. `TasksAreRuns` ties where a task stands to what the user is told of it. `RunGoesOn` and
`FlaggedKeeps` carry the steps of the task and of the handlers.

`Page_proofs` (any jobs, any folders): `PageIsSound`, `LibraryStaysWellFormed`,
`TracksAlwaysKeepAPlace`, `TombstonesAlwaysHold`. `PageInv` says that every answer, frame and question
under way is of a job and was taken from the registry, that a token is one that was given out, and
that the saved library is the shown one. Two parts carry the rest:

- `Forest`: of every set of folders there is one whose parent is outside of it. This is what a drop
  of one folder on another can be shown to keep, for the guard speaks of ancestors and the drop moves a
  whole branch; and it leaves no folder among its own ancestors, which `Ancestors` finds by going up
  again and again (`Iteration`).
- What a step may do to the library is said by two relations between the library before and after:
  `Shows` (nothing that was in a folder or in the Trash is lost from both) and `Brings` (nothing
  becomes known but the ids listed). Each operation has a lemma for both, and they compose, so
  that a sync, which is some of them in a row, follows from its parts. `TracksKeepAPlace` is the
  first, `TombstonesHold` the second.

`Panels_proofs` has one part for each panel. Their invariants relate what is shown to what is under
way:

- `UpdatesStaySafe`, `SetupStaysSound`, together `ShellStaysSound` (any number of checks, downloads,
  phases, retries and failures): what is offered, fetched or installed fits the installation
  (`Fitting`); the setup's invariant says of each phase which parts are installed by then.
- `WindowsSyncOnce` (any number of missing tracks, of windows and of presses of Resync): windows are
  numbered as they are opened, and no run is of a window yet to come (`RepairInv`), so a new window
  starts with no run; a press needs a button that does not wait, which says that its window has none.
- `PhoneStaysTrue` (any tracks, opens, deletions and extractions): the engine that lives is the page's
  and of its track (`PhoneOK`), the load of the newest number is the only one of that number and of
  the page's track (`LoadsFit`), and what polls or streams is the job of the card (`FollowOK`).
- `BandsStayTheirTracks`: a search of the box's number is what the box asked; a track whose band is
  looked for has a lookup nobody aborted (`LookupLives`).
- `FormStaysTrue`, `ExportStaysTrue`: what is read at startup comes in an order (`StartsInOrder`); an
  export of the menu's number is the only one (`MenuFits`), and a file is named after what it holds.
- `SettingsStayTrue`: every answer carries the change of the server it is of, and the window was told
  of no later one. A part that was told of the latest says what is kept, or has a call of its own on
  its way; for the network switch that call is the only one, and would turn it (`NetworkFits`).
- `QueueRowsStayTheQueue` (any number of jobs): the rows are the last snapshot's entries, whether
  drawn anew or patched in place, unless a frame was let go for a drag.
- `FailuresStayOne` (any number of reports, reloads and cards): every list of failures (the cards, the
  store, the one read at startup) is newest first, and two records of one failure have one id across
  all three lists (`OneId`), so that merging them in any order gives one card.
- `PanelTypesCorrect` and `ShownStaysTrue` put these side by side.

`Studio_proofs` has one part for each of the modules it extends:

- `PitchRouting` (any lanes, any reach, any number of changes on their way): `RoutingTypeCorrect`,
  `BusCountsAreTrue`, `EveryLaneIsRouted`. `_laneArriving` and `_laneLeft` only count; that the count of
  a bus is the number of its lanes is what makes it safe to unwire a bus at zero. All that moves a
  lane is `Swap`, so one lemma, `SwapKeeps`, carries the proof; `SwapsSpareDrums` says that no
  change on its way is a drum's.
- `PlayerSession` (any tracks, any number of loads): `EveryPlayerIsWhole`. The invariant is a predicate
  of the page's state as one value (`SessionInv`), so that each function a handler is composed of
  has its own lemma. Its heart is `OnlyPlayingIsExpected`: an answer of the newest load can only come
  from the engine that plays. Without it a dropped engine could answer "ready" and come up beside
  the one that replaced it.
- `MixerDesk` (any lanes, tracks and keys): `DeskStaysHeard`. The mix asked for last is the open
  track's; the store answers in order, so that no earlier answer is taken for it.
- `LyricsPanel` (any tracks, any number of edits): `LyricsStayTheirs`. The last timing given is lost,
  waiting, or the last of the chain's, or what the server has (`OnItsWay`); nothing is timed, sent or
  shown as the server's that the server has no lyrics of, which only grow (`HasLyrics`); a lookup that
  is wanted is of the tab's track; and an entry of the store holds its own track's lyrics or is among
  those that strayed (`StoreInv`).
- `StudioTransport` over `StemEngine` (any length, chunk, lookahead and lead-in, both engines):
  `SoundStaysWithTransport` and `LoopsStayWarm`. `TransportInv` says that the engine's values are of
  their types and an engine that was destroyed holds nothing (`Whole`), that it has a tick coming
  while it plays (`Ticks`), that of the starts only the last can be the current generation's
  (`StartsAreNumbered`), that what counts in is of that one or waits to be replaced
  (`CountsForTheLast`), and `ClicksKeepTheClock`. `StoreOK` is what keeps the loop's chunk: a chunk
  that is waited for has a flight of its own that brings it, so that no answer of an earlier flight
  can undo it, and none is kept past the end of the track.
- `Studio` (all of the above and the editors below): `StudioTypesCorrect`, `EditorsStaySound`. The
  parts share no state, so what holds of each holds of all.

`Editors_proofs` is about the editors, each of which keeps copies of what it edits: snapshots for
undo and redo, saves on their way, and what the server has. A restored copy has to be as good as the
edit it replaces, so each invariant speaks of all copies at once:

- `BeatGrid` (any length, any pulse found by the analysis, any pointer): `GridStaysInOrder`. `GridInv`
  says of the editor, its undo and redo stacks, the saves, the resets that wait for an answer and
  the server's contents that their beats rise strictly within the track and their marks rise and
  are on beats. Each edit has a lemma that it maps such a grid to such a grid; the one
  that needs the most is a drag in ripple mode (`Ripple`), which spreads the beats between two anchors
  evenly again and has to leave a place for each of them on both sides.
- `TimelineSections` (any analysed sections, any edits and answers): `SectionsStayApart`,
  `OnlyStaleSavesGoBack`. `SectionsInv` says that every id in the
  ribbon, in the chain, on the server and in the answer under way is below the next one, so that an
  id is never given twice. While nothing is dragged whole, the ribbon, the chain of saves and the
  server's lists are in order and apart, and the section in hand can always go back to where it was
  taken up. `SavesInv` carries `OnlyStaleListsGoBack`: a save of a list that was not stale when it was
  opened has a later edit than what the server has of its track and than each save of that track
  before it in the chain, and the ribbon than all of them.
- `LyricsTiming` (any lines, any detected shift, any answers): `LyricsStayInTime`. `TimingInv` has the lines, the
  lane and every snapshot in order (`TimedLines`); the page's copy is of the track shown and of
  the timing shown (`SlateFits`); tab, session and lane show one thing unless a marker is held
  (`SessionFits`); and the timing given last is waiting, the last of the chain's, or the one `Meant` to
  be kept: what the server keeps, or what was lost (`UserFits`), where only the first save of the chain
  can be another track's. That a sort of lines
  already in order changes nothing (`EarliestIs`) is a pigeonhole argument; that pushing later
  lines on, or earlier ones back, keeps the order is an induction along them.

**What the properties leave open.** Some turned out to say more than the code keeps. A seek to the
end of the track does not drop a count-in, whose clicks are heard out while the next start is being
fetched; `CountInIsCurrent` now allows that, and a scene of `Plays` does it. Lyrics left in a panel
that is not visible may be another track's; `LyricsAreTheTracks` is about those on screen. Saves that
fail are dropped, by the registry and by the page, so each property about what is kept names the save
whose failure excuses it, and nothing else does: `unsaved` and `Lost`, `lost`, `lostTiming`. A list of
sections may be stale, a file's lyrics may stray, and a deletion may run out of time; section 9 says how.

Two operators are written so that they can be reasoned about: `Filter` is a recursive function where
the library has `SelectSeq`, and `EarliestFirst` chooses a permutation where it has `SortSeq`, of
which the prover knows nothing.

**Only model-checked.** `CancelTakesEffect`, `QueueMoves`, `ServerAgrees` and `RowsSettle`: liveness
under fairness is out of the prover's reach. What the queue does to jobs that are extracted again
(`queue_extract`, where the theorems speak of the other jobs). The violations of section 9. Every
other property of a passing run is a theorem. That TLC and TLAPS see the same formulas
follows from the configurations replacing no definition.

## 8. Not modelled

Left out of the modules above:

- `ImportQueue`: shutdown (`request_stop`) and `clear()` of a reset; progress texts; the endpoints
  that edit a finished job. The metadata stages are part of a run's stages.
- `ImportQueue`, coarser than the code where no property tells: a trash, and the tail of an extract,
  set or clear their two flags in one step (`SetFlags`; jobs.py:410 and :523), and a dispatch that fails
  takes a queued job to "error" at once, while jobqueue.py:257 has it "processing" in between
  (`DispatchFail`).
- `LibraryRestart`: how handlers of one job race (that is `ImportQueue`; here they come one after
  the other), the order of the restored queue (`PositionsFollowQueue` gives it), a damaged file,
  `metadata.json` and titles, Demucs' own output directory, which every rerun clears, and the
  factory reset.
- `JobStream`: all fields but three, keep-alives, the queue's own stream (it shares the slots).
- `DemucsWorker`: the stall watchdog's clock, which ends a process as a crash does.
- `LyricRuns`: what is heard and how well it fits; the outcome is chosen. Cancels and deletions come
  one at a time, lyrics that the browser keeps are not timed, and in the run of `small_parts` a job has
  one request past its look-up at a time (`MaxAsks`; the theorems allow any number).
- `TimelineSections`: a fetch of a track at its opening that fails, which opens the page's own copy;
  a track opened while a section is held.
- `LyricsPanel`: a keep or a removal waits until the whole chain of saves has gone, where the code waits
  for what was in it.
- `AppUpdate`: pressing Apply installs verified bytes in one step that succeeds (`PressApply`). The
  directories it swaps (main.rs:1479, 1493-1520) can be left half-way by a failure or a crash, as the
  comment at main.rs:1511 says, and that is not covered.
- `SettingsDialog`: typing a number of days ends with its commit (`CommitDays`); in the code Enter
  commits and keeps the focus, and `apply()` leaves a focused field alone (catalog.js:4328).
- The page: drawing, texts, colours, search, sorting, drag images, zoom, waveforms, meters; tags
  other than those the artist box reads; thumbnails.

Whole components without a module, and why:

- **Settings store** (`core/settings.py`): a write-through JSON file with a mirror and a
  quarantine, called by one request at a time. Its faults are single file operations that fail,
  and the repository's tests drive them one by one. What the page sees of it is in `SettingsDialog`.
- **Stems relocation and reset** (`core/stems_location.py`, `main.py`): long sequences of file
  operations behind one latch. The one race, that the latch is read before an await, is a hazard of
  PROJECT.json without a property.
- **Background lookups** (`identify.py`, `lyrics_lookup.py`, ...): one thread per lookup whose
  answer the pipeline thread waits for and writes itself; what they decide is string matching.
- **Stage algorithms, metadata clients, stem serving and export**: numerical, string or streaming
  code whose control flow is one call after the other.
- **Network gate and TLS listener**: request filtering with no state beyond the settings.
- **Model cache and warm-up**: a retry after removing files.
- **The page's texts** (`i18n.js`): tables.
- **The rest of the desktop shell**: windows, menu, and the swap of the GPU runtime's directories.

## 9. Where the code does not do what it says

Each of these runs has one property, a sentence of the code about itself, violated by what the
code does.

| run | the code says | what happens |
| --- | --- | --- |
| `stranded` | jobqueue.py:245, a job must not sit at "queued" in no queue | an Extract between the runner's "stopped" and the consumer's `finally` is ignored by `enqueue`, for the id is still the running one |
| `resume_cap` | registry.py:28 and :37, a waiting queue survives a restart and the cap is for jobs that kill the process | each start counts as a resume for jobs that only waited: opening the app twice without Start fails them |
| `done_whole` | registry.py:304, a recovered job has all its stems | one stem is enough, and `collect()` moves them one by one |
| `dropped_after` | queue.js:144, a job dropped below a row runs directly after it | below the running row it is sent to the end: `reorder()` knows only waiting jobs |
| `torn_frame` | events.py:102, a client never sees an inconsistent pair | a stream whose reads all fall between two writes of one `_set()` sees one version twice, and closes on the torn frame if its status is final |

The models show more of the kind. They are recorded here for whoever works on these files;
no run is kept for them, and the models behave as the code does.

Server:

- `runner.py:484` clears the flags of a finished job, but `cancel_job` and `trash_job` read the
  status first and set the flag afterwards: a done job can keep `cancel_requested`, and then every
  later split or timing of it cancels itself.
- `jobs.py:434`: a song in the Trash is not to be extracted; a trash between the check and the
  requeue leaves it running from the Trash.
- `runner.py:473` saves a cancelled job away before its directory is removed; a crash in between
  leaves stems that the next start adopts (`tests/test_registry_persistence.py:157`).
- `jobs.py:539`: the process is looked up and terminated in two steps. The demucs process outlives
  its job, so the signal may end the next job's separation.
- `registry.py:190` and `:217`: a save that the disk refuses is logged, and the request that caused it
  is answered 200. Nothing repeats it; the next start may undo what was answered, among it a deletion.
- `jobs.py:1850`: a deletion does not stop the lyric run it has flagged while a vocal split of the job
  waits, and goes on after 15 seconds in any case; the run may then hear from files being removed.
- `lyrics_retime.py` and `jobs.py`: a cancel of a vocal split that waits behind a lyric run of the same
  job ends the run, as "failed", and not the split.

Page:

- `catalog.js:2538`: only waiting rows are to drag. A row patched in place (2706) from waiting to
  running keeps its grip.
- `catalog.js:5168`: restores are to run one at a time; pressing Resync in a second window, while the
  first one's run is restoring, runs two.
- `player.js:2009`: a dragged file is named by the loop, not by the mix; after a fader was moved
  the shell hands over the earlier file (`main.rs:3638`).
- `job.js:869`: the vocal mode recorded for an import is the one selected when the server answers,
  not the one submitted.
- `chunkedAudioEngine.js:324` and `:664`: after play, pause and play again within one fetch, or
  after a failed fetch in the middle of a chunk, stems sound where the clock does not say.
- `chunkedAudioEngine.js:392`: a key changed and changed back within the duck leaves the lane on the
  first one's bus.
- `player.js:1486`: the late "ready" of an engine that was dropped takes the next track's click.
- `transport.js:1080`: keys of lanes are to keep their distance; the clamp at the end of the range
  loses it.
- `transport.js:1000`: the button pressed is to be the one lit; the delayed apply of the slow speed
  is not cancelled by pressing another.
- `beatgrid.js:281`: edits are not to be dropped at teardown; one made while a save is in flight, or
  while a beat is held, is.
- `sections.js:404`: sections are not to overlap; a dragged one does.
- `sections.js:78`: a switch of track is to flush the pending save; the library opens the next
  track's sections without it.
- `catalog.js:1106` and `sections.js:78`: a track is opened with the sections that the server had
  when it was asked. If a save of them was on its way, or waiting in the timer that the switch does not
  flush, they are stale, and the same timer, or the next edit, sends them over the save.
- `lyrics.js:1256`: `keep()` looks again at which track is open. If one was opened within the frame
  before, the lyrics of the earlier track's file are stored for it.
- `lyrics.js:1314`: a connection that fails is not to be remembered. One that fails in the body of the
  answer is, as "nothing found" (1333), also if it was cut short because another track was opened, whose
  panel then says so.
- `lyrics.js:623` and `:1069`: an offset, or a timing of lines, whose save fails is not sent again.
- `lyricsSync.js:22`: two lines are never closer than the gap; carrying later lines along and the end
  of the track can bring them closer.
- `catalog.js:2443` and `:3808`: an import armed to open by itself is forgotten when a refresh asks
  about it before it has ended.
- `catalog.js:2452`: "sync again" is to hold the studio; a load under way before it takes it.
- `mobile/app.js:741`: two polls that overlap handle "done" twice.

## 10. What is left

The plan of modules is done but for the settings store, the relocation and the swap of the GPU
runtime, which need a model of files that fail one by one rather than of actors that race. Worth
proving next: `OneOwner` for jobs that are extracted again, once it is stated with the extra owner
an Extract adds.

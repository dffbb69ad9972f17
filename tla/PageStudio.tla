----------------------------- MODULE PageStudio -----------------------------
(***************************************************************************)
(* Who owns the studio of the desktop page, and what an import does to it: *)
(* the library's loader (catalog.js), the form, the streams and the        *)
(* foreground import of job.js, the shared queue stream (queue.js) and the *)
(* bookkeeping that opens a finished import in a studio nobody uses.       *)
(*                                                                         *)
(* Composes with PageLibrary: the same tracks, folders, Trash and server.  *)
(* Every answer the page awaits is taken on the server at one moment and   *)
(* applied at a later one, in any order among requests.                    *)
(*                                                                         *)
(* Left out: peaks, sections and the tags backfill that a load starts (the *)
(* panels have modules of their own), progress texts, the stem choice.     *)
(* A job stream's reconnects and its REST fallback deliver what the stream *)
(* would: a later snapshot of the same job.                                *)
(***************************************************************************)
EXTENDS PageLibrary

CONSTANTS
    Scenes,  \* instances: what happens in one, with which jobs
    Down     \* an answer that never came: the network is down

ASSUME SceneAssumption ==
    /\ \A s \in Scenes : s.kept \subseteq Ids
    /\ Asked # None /\ Down \notin {None, Asked}

VARIABLES
    studio,     \* engine: the track whose audio is loaded; token: _loadTrackToken;
                \* foreground: foregroundJobId
    loads,      \* loadTrackIntoStudio() calls that await /api/jobs/<id>
    posts,      \* accepted imports whose answer the page has not applied
    armed,      \* _autoOpenTokens
    settles,    \* completeSettledJob() calls that await /api/jobs/<id>
    seen,       \* lastSeenIds of queue.js
    stream,     \* a frame of the queue stream under way
    refresh,    \* where refreshQueue() stands
    watched,    \* jobs with a stream of their own
    frame,      \* a frame of a job's stream under way
    rowKey,     \* libraryRowKeys
    rendered,   \* renderedJobs
    scene       \* the one of Scenes that is played

queueVars == <<seen, stream, refresh>>
jobVars == <<watched, frame, rowKey, rendered>>
studioVars == <<studio, loads, posts, armed, settles, queueVars, jobVars, scene>>
pageVars == <<vars, studioVars>>

-----------------------------------------------------------------------------
HasAudio(job) == job.status \in {"done", "lost"}

Queued == {id \in Ids : server[id].status \in Active}

(* A scene names what the user and the network do ("does"), how often      *)
(* ("bounds"), the jobs that may be imported ("ids"), and the done jobs    *)
(* the server holds: in the library already ("kept"), of those without     *)
(* files any more ("lost"), and unknown to this page ("fresh").            *)
StudioInit ==
    /\ scene \in Scenes
    /\ LibraryInit(scene.kept,
          [id \in Ids |-> [NoJob EXCEPT !.status =
              IF id \in scene.lost THEN "lost"
              ELSE IF id \in scene.kept \cup scene.fresh THEN "done" ELSE @]],
          scene.bounds)
    /\ studio = [engine |-> None, token |-> 0, foreground |-> None]
    /\ loads = {} /\ posts = {}
    /\ armed = [id \in Ids |-> None]
    /\ settles = [id \in Ids |-> None]
    /\ seen = {} /\ stream = None /\ refresh = None
    /\ watched = {} /\ frame = [id \in Ids |-> None]
    /\ rowKey = [id \in Ids |-> None] /\ rendered = {}

-----------------------------------------------------------------------------
(* importFromUrl(): the studio is cleared and the source asked for again.  *)
(* The server makes a new job of it, or refuses.                           *)
ImportFromUrl(source) ==
    /\ studio' = [studio EXCEPT !.engine = None, !.foreground = None]
    /\ \/ UNCHANGED <<posts, server>>
       \/ \E id \in Ids :
             /\ server[id].status = "absent" /\ id \in scene.ids /\ SourceOf[id] = source
             /\ server' = [server EXCEPT ![id].status = "waiting"]
             /\ posts' = posts \cup {[kind |-> "restore", id |-> id, folder |-> None]}

(* A track whose files are gone is imported again when its source is a     *)
(* link.  L is the library as the caller leaves it.                        *)
ReimportUnavailableTrack(L, id) ==
    /\ Keep(UpdateTrackStatus(L, id, "unavailable"))
    /\ IF id \in Uploads THEN UNCHANGED <<studio, posts, server>>
       ELSE ImportFromUrl(SourceOf[id])

(* loadTrackIntoStudio(), up to the request it waits for.                  *)
StartLoad(L, id) ==
    IF L.tracks[id].status = "unavailable"
    THEN ReimportUnavailableTrack(L, id) /\ UNCHANGED loads
    ELSE /\ Keep(L)
         /\ studio' = [studio EXCEPT !.token = @ + 1,
                                     !.foreground = IF @ = id THEN @ ELSE None]
         /\ loads' = loads \cup {[id |-> id, token |-> studio.token + 1,
                                  before |-> L.tracks[id], answer |-> Asked]}
         /\ UNCHANGED <<posts, server>>

ClickTrack(id) ==
    /\ Gesture
    /\ id \in Known(lib) \ InTrash(lib)
    /\ StartLoad(lib, id)
    /\ UNCHANGED <<deleted, savedDeleted, calls, sync, clearing, armed, settles,
                   queueVars, jobVars, scene>>

AnswerLoad(l) ==
    /\ l \in loads /\ l.answer = Asked
    /\ \/ loads' = (loads \ {l}) \cup {[l EXCEPT !.answer = server[l.id]]} /\ UNCHANGED budget
       \/ loads' = (loads \ {l}) \cup {[l EXCEPT !.answer = Down]} /\ Lose
    /\ UNCHANGED <<libVars, server, calls, sync, clearing, studio, posts, armed, settles,
                   queueVars, jobVars, scene>>

(* The stored track in the loader's hand: the object the library holds, if *)
(* it still does.                                                          *)
InHand(l) == IF lib.tracks[l.id] = None THEN l.before ELSE lib.tracks[l.id]

(* The track takes the studio if it can be played.                         *)
Open(L, l, track) ==
    IF \/ track.status = "processing" \/ ~track.audio
       \/ track.status # "done" /\ ~l.before.audio
    THEN Keep(L) /\ UNCHANGED studio
    ELSE /\ Keep([L EXCEPT !.current = l.id])
         /\ studio' = [studio EXCEPT !.engine = l.id]

(* The loader after its answer: nothing if another load began meanwhile.   *)
FinishLoad(l) ==
    LET track == [InHand(l) EXCEPT !.status = StatusOf(l.answer), !.audio = HasAudio(l.answer)]
        with(t) == [lib EXCEPT !.tracks[l.id] = t]
    IN  /\ l \in loads /\ l.answer # Asked
        /\ loads' = loads \ {l}
        /\ \/ /\ l.token # studio.token
              /\ UNCHANGED <<lib, saved, studio, posts, server>>
           \/ /\ l.token = studio.token /\ l.answer = Down
              /\ Open(lib, l, InHand(l)) /\ UNCHANGED <<posts, server>>
           \/ /\ l.token = studio.token /\ l.answer # Down
              /\ \/ /\ l.answer.status \in {"absent", "gone"}
                    /\ Keep(with([InHand(l) EXCEPT !.status = "unavailable"]))
                    /\ UNCHANGED <<studio, posts, server>>
                 \/ /\ l.answer.status = "lost"
                    /\ ReimportUnavailableTrack(with(track), l.id)
                 \/ /\ l.answer.status \notin {"absent", "gone", "lost"}
                    /\ Open(with(track), l, track) /\ UNCHANGED <<posts, server>>
    /\ UNCHANGED <<deleted, savedDeleted, calls, sync, clearing, budget, armed, settles,
                   queueVars, jobVars, scene>>

-----------------------------------------------------------------------------
(* Imports.  The form never takes the studio; a playlist claims a place in *)
(* its own folder first; "Extract" runs a stopped job again.               *)

SubmitForm(id) ==
    /\ Gesture
    /\ server[id].status = "absent" /\ id \in scene.ids
    /\ server' = [server EXCEPT ![id].status = "waiting"]
    /\ posts' = posts \cup {[kind |-> "form", id |-> id, folder |-> None]}
    /\ UNCHANGED <<libVars, calls, sync, clearing, studio, loads, armed, settles,
                   queueVars, jobVars, scene>>

ImportPlaylist(id, f) ==
    /\ Gesture
    /\ server[id].status = "absent" /\ id \in scene.ids
    /\ f \in UserFolders /\ (f \in lib.folders => lib.parent[f] = None)
    /\ server' = [server EXCEPT ![id].status = "waiting"]
    /\ posts' = posts \cup {[kind |-> "playlist", id |-> id, folder |-> f]}
    /\ UNCHANGED <<libVars, calls, sync, clearing, studio, loads, armed, settles,
                   queueVars, jobVars, scene>>

ExtractStoppedTrack(id) ==
    /\ Gesture
    /\ id \in Known(lib) \ InTrash(lib) /\ lib.tracks[id].status = "stopped"
    /\ server[id].status = "stopped" /\ ~server[id].trashed
    /\ server' = [server EXCEPT ![id].status = "waiting"]
    /\ posts' = posts \cup {[kind |-> "extract", id |-> id, folder |-> None]}
    /\ UNCHANGED <<libVars, calls, sync, clearing, studio, loads, armed, settles,
                   queueVars, jobVars, scene>>

SyncAgain(id) ==
    /\ Gesture
    /\ id \in (Known(lib) \ InTrash(lib)) \ Uploads /\ lib.tracks[id].status = "unavailable"
    /\ ImportFromUrl(SourceOf[id])
    /\ UNCHANGED <<libVars, calls, sync, clearing, loads, armed, settles, queueVars, jobVars, scene>>

ApplyPost(p) ==
    /\ p \in posts
    /\ posts' = posts \ {p}
    /\ \/ /\ p.kind = "form"
          /\ \E L \in AddTrackToLibrary(lib, p.id, "processing", FALSE) : Keep(L)
          /\ armed' = [armed EXCEPT ![p.id] = studio.token]
          /\ UNCHANGED <<studio, watched>>
       \/ /\ p.kind = "playlist"
          /\ \E L \in AddTrackToLibrary(PutIn(lib, p.folder, {p.id}), p.id, "processing", FALSE) :
                Keep(L)
          /\ UNCHANGED <<studio, armed, watched>>
       \/ /\ p.kind = "extract"
          /\ Keep(UpdateTrackStatus(lib, p.id, "processing"))
          /\ armed' = [armed EXCEPT ![p.id] = studio.token]
          /\ UNCHANGED <<studio, watched>>
       \/ /\ p.kind = "restore"
          /\ \E L \in AddTrackToLibrary(lib, p.id, "processing", FALSE) :
                Keep([L EXCEPT !.current = p.id])
          /\ studio' = [studio EXCEPT !.foreground = p.id]
          /\ watched' = watched \cup {p.id}
          /\ UNCHANGED armed
    /\ UNCHANGED <<deleted, savedDeleted, server, calls, sync, clearing, budget, loads,
                   settles, queueVars, frame, rowKey, rendered, scene>>

(* The queue row's cancel.                                                 *)
CancelQueued(id) ==
    /\ Gesture
    /\ id \in seen /\ server[id].status \in Active
    /\ server' = [server EXCEPT ![id].status = "cancelled"]
    /\ UNCHANGED <<libVars, calls, sync, clearing, studioVars>>

-----------------------------------------------------------------------------
(* A job's own stream: only a foreground import has one.                   *)

(* A stream that is open has the job in hand, and still tells how it ended *)
(* when the registry has dropped it; a stream opened anew finds no such    *)
(* job, and is given up.                                                   *)
SendFrame(id) ==
    /\ id \in watched /\ frame[id] = None
    /\ \/ /\ server[id].status \notin {"absent", "gone"}
          /\ frame' = [frame EXCEPT ![id] = server[id]]
          /\ UNCHANGED watched
       \/ /\ server[id].status = "gone"
          /\ \E how \in Settled : frame' = [frame EXCEPT ![id] = [NoJob EXCEPT !.status = how]]
          /\ UNCHANGED watched
       \/ /\ server[id].status = "gone"
          /\ watched' = watched \ {id} /\ UNCHANGED frame
    /\ UNCHANGED <<vars, studio, loads, posts, armed, settles, queueVars, rowKey, rendered, scene>>

(* applyState(): the row first, then the studio if this import owns it.    *)
ApplyState(id) ==
    LET job == frame[id]
        status == StatusOf(job)
        own == studio.foreground = id
        over == job.status \in Settled
        audio == own /\ job.status = "done" /\ id \notin rendered
        rows == IF rowKey[id] = status THEN {lib}
                ELSE AddTrackToLibrary(lib, id, status, HasAudio(job))
    IN  /\ job # None
        /\ frame' = [frame EXCEPT ![id] = None]
        /\ rowKey' = [rowKey EXCEPT ![id] = IF over THEN None ELSE status]
        /\ \E L \in rows :
              Keep(IF own THEN [UpdateTrackStatus(L, id, status) EXCEPT !.current = id] ELSE L)
        /\ studio' = [studio EXCEPT !.foreground = IF own /\ over THEN None ELSE @,
                                    !.engine = IF audio THEN id ELSE @]
        /\ rendered' = IF audio THEN rendered \cup {id} ELSE rendered
        /\ watched' = IF over THEN watched \ {id} ELSE watched
        /\ UNCHANGED <<deleted, savedDeleted, server, calls, sync, clearing, budget, loads, posts,
                       armed, settles, queueVars, scene>>

-----------------------------------------------------------------------------
(* The queue's snapshots: the stream's frames and the answers of           *)
(* refreshQueue() are published as they come.                              *)

StreamFrame ==
    /\ stream = None
    /\ stream' = Queued
    /\ UNCHANGED <<vars, studio, loads, posts, armed, settles, seen, refresh, jobVars, scene>>

AskQueue ==
    /\ refresh = None
    /\ refresh' = Queued
    /\ UNCHANGED <<vars, studio, loads, posts, armed, settles, seen, stream, jobVars, scene>>

(* The jobs a settled subscriber asks the server about.                    *)
CompleteSettled(L, ids) ==
    [id \in Ids |-> IF id \in ids /\ L.tracks[id] # None /\ settles[id] = None
                    THEN [before |-> L.tracks[id], answer |-> Asked] ELSE settles[id]]

Publish(snapshot) ==
    /\ seen' = snapshot
    /\ settles' = CompleteSettled(lib, seen \ snapshot)
    /\ UNCHANGED <<vars, studio, loads, posts, armed, jobVars, scene>>

PublishStream == stream # None /\ Publish(stream) /\ stream' = None /\ UNCHANGED refresh
PublishRefresh == refresh # None /\ Publish(refresh) /\ refresh' = None /\ UNCHANGED stream

AnswerSettle(id) ==
    /\ settles[id] # None /\ settles[id].answer = Asked
    /\ \/ settles' = [settles EXCEPT ![id].answer = server[id]] /\ UNCHANGED budget
       \/ settles' = [settles EXCEPT ![id] = None] /\ Lose
    /\ UNCHANGED <<libVars, server, calls, sync, clearing, studio, loads, posts, armed,
                   queueVars, jobVars, scene>>

(* The studio is empty, no import holds it, and nothing was opened since   *)
(* this import was started.                                                *)
ShouldAutoOpen(id) ==
    /\ armed[id] = studio.token
    /\ studio.engine = None /\ studio.foreground = None

FinishSettle(id) ==
    LET job == settles[id].answer
        rest == <<posts, studio, loads, server>>
    IN  /\ settles[id] # None /\ job # Asked
        /\ settles' = [settles EXCEPT ![id] = None]
        /\ \/ /\ job.status \in {"absent", "gone"}
              /\ Keep(UpdateTrackStatus(lib, id, "unavailable"))
              /\ UNCHANGED <<armed, rest>>
           \/ /\ job.status = "cancelled"
              /\ Keep(RemoveTrackFromFolders([lib EXCEPT !.tracks[id] = None], id))
              /\ armed' = [armed EXCEPT ![id] = None]
              /\ UNCHANGED rest
           \/ /\ job.status \notin {"absent", "gone", "cancelled"}
              /\ \E L \in AddTrackToLibrary(lib, id, StatusOf(job), HasAudio(job)) :
                    IF job.status = "done" /\ ShouldAutoOpen(id) THEN StartLoad(L, id)
                    ELSE Keep(L) /\ UNCHANGED rest
              /\ armed' = [armed EXCEPT ![id] = None]
        /\ UNCHANGED <<deleted, savedDeleted, calls, sync, clearing, budget, queueVars, jobVars, scene>>

(* A bug to catch: the sync no longer asks after the rows that say "processing".           *)
SyncWithoutSettling ==
    ApplySync /\ UNCHANGED <<settles, studio, loads, posts, armed, queueVars, jobVars, scene>>

(* A sync ends by asking after every row that still says "processing".     *)
Sync ==
    /\ ApplySync
    /\ settles' = CompleteSettled(lib', {id \in Known(lib') : lib'.tracks[id].status = "processing"})
    /\ UNCHANGED <<studio, loads, posts, armed, queueVars, jobVars, scene>>

ReloadPage ==
    /\ Reload
    /\ studio' = [engine |-> None, token |-> 0, foreground |-> None]
    /\ loads' = {} /\ posts' = {}
    /\ armed' = [id \in Ids |-> None] /\ settles' = [id \in Ids |-> None]
    /\ seen' = {} /\ stream' = None /\ refresh' = None
    /\ watched' = {} /\ frame' = [id \in Ids |-> None]
    /\ rowKey' = [id \in Ids |-> None] /\ rendered' = {}
    /\ UNCHANGED scene

-----------------------------------------------------------------------------
Rows ==
    /\ \/ /\ "trash" \in scene.does
          /\ \/ \E id \in Ids : MoveTrackToTrash(id)
             \/ \E ids \in SUBSET Ids : RestoreTracksFromTrash(ids)
       \/ "clear" \in scene.does /\ MarkJobsDeleted
       \/ PurgeMarked
       \/ \E id \in Ids : DeleteCleared(id)
       \/ "heart" \in scene.does /\ \E id \in Ids :
             ToggleFavorite(id) \/ \E on \in BOOLEAN : PhoneHeart(id, on)
       \/ "folders" \in scene.does /\ \E f \in UserFolders :
             \/ \E g \in UserFolders \cup {None} : CreateFolder(f, g)
             \/ DeleteFolder(f)
             \/ \E g \in UserFolders : ReparentFolder(f, g)
       \/ "folders" \in scene.does /\ \E f \in FolderIds, id \in Ids : DropOnFolder(f, id)
    /\ UNCHANGED studioVars

(* The window is looked at again.                                          *)
LookAgain == "sync" \in scene.does /\ AskSync

Server ==
    /\ \/ \E call \in calls : HandleCall(call)
       \/ \E id \in Ids : \/ JobStarts(id)
                          \/ \E how \in Settled : JobEnds(id, how)
                          \/ FilesVanish(id)
       \/ LookAgain
       \/ AnswerSync
    /\ UNCHANGED studioVars

Studio ==
    \/ \E id \in Ids :
          \/ "click" \in scene.does /\ ClickTrack(id)
          \/ "form" \in scene.does /\ SubmitForm(id)
          \/ "playlist" \in scene.does /\ \E f \in UserFolders : ImportPlaylist(id, f)
          \/ "extract" \in scene.does /\ ExtractStoppedTrack(id)
          \/ "again" \in scene.does /\ SyncAgain(id)
          \/ "cancel" \in scene.does /\ CancelQueued(id)
          \/ SendFrame(id) \/ ApplyState(id)
          \/ AnswerSettle(id) \/ FinishSettle(id)
    \/ \E l \in loads : AnswerLoad(l) \/ FinishLoad(l)
    \/ \E p \in posts : ApplyPost(p)
    \/ "stream" \in scene.does /\ StreamFrame
    \/ "refresh" \in scene.does /\ AskQueue
    \/ PublishStream \/ PublishRefresh

PageNext == Rows \/ Server \/ Studio \/ Sync \/ ReloadPage

(* The page's own handlers and the server are fair: nothing takes an       *)
(* answer or a frame away for ever.  The user looks at the window again    *)
(* and again, so that it syncs; every other gesture is the user's to make. *)
PageFairness ==
    /\ WF_pageVars(Sync)
    /\ \A id \in Ids : WF_pageVars(AnswerSettle(id)) /\ WF_pageVars(FinishSettle(id))
    /\ \A id \in Ids, op \in {"trash", "restore", "heart"}, on \in BOOLEAN :
          WF_pageVars(HandleCall(Tell(op, id, on)) /\ UNCHANGED studioVars)
    /\ WF_pageVars(LookAgain /\ UNCHANGED studioVars)
    /\ WF_pageVars(AnswerSync /\ UNCHANGED studioVars)
    /\ \A id \in Ids : WF_pageVars((\E how \in Settled : JobEnds(id, how)) /\ UNCHANGED studioVars)

PageSpec == StudioInit /\ [][PageNext]_pageVars /\ PageFairness
-----------------------------------------------------------------------------
(* Types.                                                                  *)
Answer == Job \cup {None, Asked, Down}

PageTypeOK ==
    /\ lib \in Lib /\ saved \in Lib
    /\ deleted \subseteq Ids /\ savedDeleted \subseteq Ids
    /\ server \in [Ids -> Job]
    /\ \A call \in calls : call.op \in {"trash", "restore", "heart"} /\ call.id \in Ids
    /\ clearing.ids \subseteq Ids /\ clearing.at \in {"idle", "marking", "deleting"}
    /\ studio.engine \in Ids \cup {None} /\ studio.foreground \in Ids \cup {None}
    /\ \A l \in loads : l.id \in Ids /\ l.token \in 1..studio.token /\ l.answer \in Answer
    /\ \A id \in Ids : armed[id] # None => armed[id] \in 0..studio.token
    /\ \A id \in Ids : settles[id] # None => settles[id].answer \in Answer
    /\ seen \subseteq Ids /\ watched \subseteq Ids /\ rendered \subseteq Ids
    /\ frame \in [Ids -> Answer]

(* Answers about a job that the page has asked for and not yet applied.    *)
Awaited(id) ==
    \/ settles[id] # None \/ frame[id] # None
    \/ \E l \in loads : l.id = id
    \/ \E p \in posts : p.id = id

OutOfSight(L, id) == L.tracks[id] # None /\ Holding(L, id) = {}

(* A track that is in no folder and not in the Trash is shown nowhere.     *)
(* Imports, replacements, deletions, drags and syncs never leave one so;   *)
(* only the answer of a load that was under way when its track was dropped *)
(* may (loadTrackIntoStudio writes the track back).                        *)
TracksKeepAPlace ==
    [][\A id \in Ids : OutOfSight(lib', id)
          => OutOfSight(lib, id) \/ \E l \in loads : l.id = id]_pageVars

(* A track deleted for good does not come back with a sync, a reload or an *)
(* import of another one (#521): only an answer about that very job, asked *)
(* for before the bin was emptied, can still bring it.                     *)
TombstonesHold ==
    [][\A id \in deleted \cap deleted' :
          lib.tracks[id] = None /\ lib'.tracks[id] # None => Awaited(id)]_pageVars

(* The folders are a forest: isFolderDescendant() and renderFolder() walk  *)
(* it without a bound of their own and would not return from a cycle.      *)
NoFolderCycle == \A f \in lib.folders : ~IsFolderDescendant(lib, f, f)

(* The library is one that can be walked and drawn.                       *)
LibraryIsWellFormed == PageTypeOK /\ NoFolderCycle

(* Once the user stops and looks at the window again, the server's Trash   *)
(* and favourites are the page's for every finished song of the library,   *)
(* whatever order the requests arrived in and whichever of them were lost. *)
ServerAgrees ==
    "sync" \in scene.does => <>[](\A id \in Known(lib) : Listed(server[id]) =>
        /\ server[id].trashed = (id \in InTrash(lib))
        /\ server[id].favorite # None => server[id].favorite = lib.tracks[id].favorite)

(* No row says "processing" for ever of a job that has ended, even if the  *)
(* page never saw the job in the queue or the question after it was lost.  *)
RowsSettle ==
    "sync" \in scene.does => <>[](\A id \in Known(lib) :
        lib.tracks[id].status = "processing" => server[id].status \in Active)
=============================================================================

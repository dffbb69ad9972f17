---------------------------- MODULE PageLibrary ----------------------------
(***************************************************************************)
(* The desktop page's library (static/js/catalog.js): its folders, its     *)
(* tracks, its Trash, the tombstones of what was deleted for good, and how *)
(* all of it is kept in step with the server's registry.                   *)
(*                                                                         *)
(* The page is single threaded; what makes it hard is that the server      *)
(* answers late.  A request the page does not wait for (a trash, a restore,*)
(* a heart) is a member of "calls" until the server handles it or it is    *)
(* lost; a request it waits for holds the server's answer, a snapshot of   *)
(* the moment it was handled, until the page gets to apply it.             *)
(*                                                                         *)
(* Left out: what rows look like, the order of folders and of the items in *)
(* one (so "the first folder" is any folder), colours, search, tags, and   *)
(* the page's texts.  saveState() follows every change of the library and  *)
(* is part of it: a reload finds what was last saved.                      *)
(***************************************************************************)
EXTENDS Naturals, FiniteSets, FiniteSetsExt

CONSTANTS
    Ids,           \* job ids; a track and its job share one
    UserFolders,   \* folders the user may make
    SourceOf,      \* [Ids -> sources]: the normalised source of each job
    Uploads,       \* ids whose source is a file of the user's ("local:")
    Asked,         \* an answer not given yet
    None

Unsorted == "f-unsorted"
Trash == "trash"
FolderIds == UserFolders \cup {Unsorted, Trash}

ASSUME LibraryAssumption ==
    /\ IsFiniteSet(Ids) /\ IsFiniteSet(UserFolders)
    /\ Uploads \subseteq Ids
    /\ UserFolders \cap {Unsorted, Trash} = {}
    /\ None \notin Ids \cup FolderIds

VARIABLES
    lib,        \* folders, tracks and _currentTrackId, as one record
    saved,      \* what the store holds of it
    deleted,    \* _deletedJobIds
    savedDeleted, \* DELETED_JOBS_KEY in the store
    server,     \* the registry: [Ids -> job]
    calls,      \* trash, restore and heart requests under way
    sync,       \* where syncWithServer() stands: None, Asked, or the answer
    clearing,   \* where the "empty the bin" handler stands, and its ids
    budget      \* gestures, losses and reloads left

libVars == <<lib, saved, deleted, savedDeleted>>
vars == <<libVars, server, calls, sync, clearing, budget>>

-----------------------------------------------------------------------------
Settled == {"done", "error", "cancelled", "stopped"}
Active == {"waiting", "running"}

(* A job as the registry holds it.  "absent" is an id not yet submitted,   *)
(* "gone" a deleted one, "lost" a done job whose stems left the disk.      *)
Job == [status : Active \cup Settled \cup {"absent", "gone", "lost"},
        trashed : BOOLEAN, favorite : BOOLEAN \cup {None}]

(* A track as the library holds it: "audio" says it has stems to play.     *)
TrackStatus == {"processing", "done", "error", "cancelled", "stopped", "unavailable"}
Track == [status : TrackStatus, audio : BOOLEAN, favorite : BOOLEAN]

ASSUME EntryAssumption == None \notin Track

Lib == [folders : SUBSET FolderIds,
        parent : [FolderIds -> FolderIds \cup {None}],
        items : [FolderIds -> SUBSET Ids],
        tracks : [Ids -> Track \cup {None}],
        current : Ids \cup {None}]

Listed(job) == job.status \in {"done", "lost"}

(* What a job's status is to the page (stateMetadataToTrack, _job_state).  *)
StatusOf(job) ==
    CASE job.status \in Active -> "processing"
      [] job.status = "lost" -> "unavailable"
      [] OTHER -> job.status

-----------------------------------------------------------------------------
(* The library's own operations, as functions of the library.              *)

Known(L) == {id \in Ids : L.tracks[id] # None}
InTrash(L) == L.items[Trash]
Holding(L, id) == {f \in FolderIds : id \in L.items[f]}

RemoveTrackFromFolders(L, id) ==
    [L EXCEPT !.items = [f \in FolderIds |-> @[f] \ {id}]]

FindTracksBySource(L, id) ==
    {o \in Known(L) \ {id} : SourceOf[o] = SourceOf[id]}

(* The newer job takes the older one's entry, its places and, if it is     *)
(* open, the studio's title.                                               *)
ReplaceTrackId(L, old, new) ==
    [L EXCEPT
        !.tracks[new] = IF L.tracks[new] = None THEN L.tracks[old] ELSE @,
        !.tracks[old] = None,
        !.items = [f \in FolderIds |->
                     IF old \in @[f] THEN (@[f] \ {old}) \cup {new} ELSE @[f]],
        !.current = IF @ = old THEN new ELSE @]

(* Where a track of no folder goes: the first folder that is not the Trash.*)
Landing(L) ==
    IF L.folders \ {Trash} = {} THEN {Unsorted} ELSE L.folders \ {Trash}

PutIn(L, f, ids) ==
    [L EXCEPT !.folders = @ \cup {f}, !.items[f] = @ \cup ids]

(* A bug to catch: a track that took over an older one is never placed.    *)
AddTrackUnplaced(L, id, status, audio) ==
    LET older == FindTracksBySource(L, id)
        Claim(o) == IF o \in InTrash(L) THEN L ELSE ReplaceTrackId(L, o, id)
        Write(K) == [K EXCEPT !.tracks[id] =
                        [status |-> status, audio |-> audio, favorite |-> FALSE]]
    IN  IF older = {} THEN {PutIn(Write(L), f, {id}) : f \in Landing(L)}
        ELSE {Write(Claim(o)) : o \in older}

(* Every library addTrackToLibrary() may leave: the track takes over an    *)
(* older one of its source unless that one is in the Trash, keeps the      *)
(* favourite it had, and is put in a folder if it is in none.              *)
AddTrackToLibrary(L, id, status, audio) ==
    LET older == FindTracksBySource(L, id)
        Claim(o) == IF o \in InTrash(L) THEN L ELSE ReplaceTrackId(L, o, id)
        Write(K) == [K EXCEPT !.tracks[id] =
                        [status |-> status, audio |-> audio,
                         favorite |-> K.tracks[id] # None /\ K.tracks[id].favorite]]
        Place(K) == IF Holding(K, id) # {} THEN {K}
                    ELSE {PutIn(K, f, {id}) : f \in Landing(K)}
        claims == IF older = {} THEN {L} ELSE {Claim(o) : o \in older}
    IN  UNION {Place(Write(K)) : K \in claims}

UpdateTrackStatus(L, id, status) ==
    IF L.tracks[id] = None THEN L ELSE [L EXCEPT !.tracks[id].status = status]

PurgeTrash(L) ==
    [L EXCEPT !.tracks = [id \in Ids |-> IF id \in InTrash(L) THEN None ELSE @[id]],
              !.items = [f \in FolderIds |-> @[f] \ InTrash(L)]]

(* The folders met on the way up from "folder" (None at the top); a way    *)
(* longer than there are folders has met them all.                         *)
Ancestors(L, folder) ==
    LET step(S) == S \cup {L.parent[f] : f \in S \ {None}}
        up[n \in 0..Cardinality(FolderIds)] ==
            IF n = 0 THEN {L.parent[folder]} ELSE step(up[n - 1])
    IN  up[Cardinality(FolderIds)]

(* Whether "folder" lies under "ancestor".                                 *)
IsFolderDescendant(L, ancestor, folder) == ancestor \in Ancestors(L, folder)

(* What loadState() drops from a saved library: the Trash's ids that name  *)
(* no track.                                                               *)
Loaded(L) == [L EXCEPT !.items[Trash] = @ \cap Known(L), !.current = None]

-----------------------------------------------------------------------------
NoJob == [status |-> "absent", trashed |-> FALSE, favorite |-> None]

(* A library that holds some finished tracks, all in Unsorted.             *)
LibraryOf(ids) ==
    [folders |-> {Trash, Unsorted}, parent |-> [f \in FolderIds |-> None],
     items |-> [f \in FolderIds |-> IF f = Unsorted THEN ids ELSE {}],
     tracks |-> [id \in Ids |-> IF id \in ids
                   THEN [status |-> "done", audio |-> TRUE, favorite |-> FALSE] ELSE None],
     current |-> None]

NotClearing == [at |-> "idle", ids |-> {}]

(* A library kept from before, what the registry holds, and how many       *)
(* gestures, lost or failed requests and reloads there may be.             *)
LibraryInit(kept, jobs, bounds) ==
    /\ lib = LibraryOf(kept) /\ saved = LibraryOf(kept)
    /\ deleted = {} /\ savedDeleted = {}
    /\ server = jobs
    /\ calls = {} /\ sync = None /\ clearing = NotClearing
    /\ budget = bounds

(* A change of the library, saved as every handler saves it.               *)
Keep(L) == lib' = L /\ saved' = L

Tell(op, id, on) == [op |-> op, id |-> id, on |-> on]

Gesture == budget.gestures > 0 /\ budget' = [budget EXCEPT !.gestures = @ - 1]
Lose == budget.losses > 0 /\ budget' = [budget EXCEPT !.losses = @ - 1]

-----------------------------------------------------------------------------
(* The user's gestures on rows and folders.                                *)

MoveTrackToTrash(id) ==
    /\ Gesture
    /\ lib.tracks[id] # None
    /\ Keep([PutIn(RemoveTrackFromFolders(lib, id), Trash, {id})
                EXCEPT !.current = IF @ = id THEN None ELSE @])
    /\ calls' = calls \cup {Tell("trash", id, TRUE)}
    /\ UNCHANGED <<deleted, savedDeleted, server, sync, clearing>>

(* The ids are those a hold or a drag picked up when it began.             *)
RestoreTracksFromTrash(ids) ==
    LET back == {id \in ids : lib.tracks[id] # None} \cap InTrash(lib)
    IN  /\ Gesture
        /\ back # {}
        /\ \E f \in Landing(lib) :
              Keep(PutIn([lib EXCEPT !.items[Trash] = @ \ back], f, back))
        /\ calls' = calls \cup {Tell("restore", id, FALSE) : id \in back}
        /\ UNCHANGED <<deleted, savedDeleted, server, sync, clearing>>

ToggleFavorite(id) ==
    /\ Gesture
    /\ lib.tracks[id] # None
    /\ Keep([lib EXCEPT !.tracks[id].favorite = ~@])
    /\ calls' = calls \cup {Tell("heart", id, ~lib.tracks[id].favorite)}
    /\ UNCHANGED <<deleted, savedDeleted, server, sync, clearing>>

(* "New folder" and a folder's own "New subfolder".                        *)
CreateFolder(f, under) ==
    /\ Gesture
    /\ f \in UserFolders \ lib.folders
    /\ under \in (lib.folders \cap UserFolders) \cup {None}
    /\ Keep([PutIn(lib, f, {}) EXCEPT !.parent[f] = under])
    /\ UNCHANGED <<deleted, savedDeleted, server, calls, sync, clearing>>

(* A folder takes its subfolders with it; their songs go to the Trash of   *)
(* this page, and the server is not told.                                  *)
WithoutFolders(L, under) ==
    LET songs == Known(L) \cap UNION {L.items[g] : g \in under}
    IN  [L EXCEPT
           !.folders = @ \ under,
           !.parent = [g \in FolderIds |-> IF g \in under THEN None ELSE @[g]],
           !.items = [g \in FolderIds |->
                        IF g = Trash THEN @[g] \cup songs
                        ELSE IF g \in under THEN {} ELSE @[g]]]

DeleteFolder(f) ==
    /\ Gesture
    /\ f \in lib.folders \cap UserFolders
    /\ Keep(WithoutFolders(lib, {g \in lib.folders : g = f \/ IsFolderDescendant(lib, f, g)}))
    /\ UNCHANGED <<deleted, savedDeleted, server, calls, sync, clearing>>

(* A bug to catch: a folder may be dropped on one of its own subfolders.   *)
ReparentAnywhere(f, under) ==
    /\ Gesture
    /\ f \in lib.folders \cap UserFolders
    /\ under \in (lib.folders \cap UserFolders) \ {f}
    /\ Keep([lib EXCEPT !.parent[f] = under])
    /\ UNCHANGED <<deleted, savedDeleted, server, calls, sync, clearing>>

(* Dropping a folder on another: never under itself, and Unsorted takes no *)
(* subfolder and cannot be dragged.                                        *)
ReparentFolder(f, under) ==
    /\ Gesture
    /\ f \in lib.folders \cap UserFolders
    /\ under \in (lib.folders \cap UserFolders) \ {f}
    /\ ~IsFolderDescendant(lib, f, under)
    /\ Keep([lib EXCEPT !.parent[f] = under])
    /\ UNCHANGED <<deleted, savedDeleted, server, calls, sync, clearing>>

(* A row dropped on a folder leaves the folder it was in (the first that   *)
(* holds it).                                                              *)
DropOnFolder(f, id) ==
    /\ Gesture
    /\ f \in lib.folders \ {Trash}
    /\ id \in Known(lib) \ InTrash(lib)
    /\ \E g \in IF Holding(lib, id) = {} THEN {f} ELSE Holding(lib, id) :
          Keep(PutIn([lib EXCEPT !.items[g] = @ \ {id}], f, {id}))
    /\ UNCHANGED <<deleted, savedDeleted, server, calls, sync, clearing>>

(* "Empty the bin" writes the tombstones and waits for the store to have   *)
(* them, or to fail; then it drops what the Trash holds by now, and asks   *)
(* for one deletion at a time.                                             *)
MarkJobsDeleted ==
    /\ Gesture
    /\ clearing.at = "idle" /\ InTrash(lib) # {}
    /\ clearing' = [at |-> "marking", ids |-> InTrash(lib)]
    /\ deleted' = deleted \cup InTrash(lib)
    /\ UNCHANGED <<lib, saved, savedDeleted, server, calls, sync>>

PurgeMarked ==
    /\ clearing.at = "marking"
    /\ clearing' = [clearing EXCEPT !.at = "deleting"]
    /\ \/ savedDeleted' = savedDeleted \cup clearing.ids /\ UNCHANGED budget
       \/ Lose /\ UNCHANGED savedDeleted
    /\ Keep(PurgeTrash(lib))
    /\ UNCHANGED <<deleted, server, calls, sync>>

(* delete_job: refused while the job runs; the record goes even when the   *)
(* files stay.                                                             *)
DeleteCleared(id) ==
    /\ clearing.at = "deleting" /\ id \in clearing.ids
    /\ clearing' = IF clearing.ids = {id} THEN NotClearing
                   ELSE [clearing EXCEPT !.ids = @ \ {id}]
    /\ \/ /\ server' = [server EXCEPT ![id] =
                          IF @.status \in Active \cup {"absent", "gone"} THEN @
                          ELSE [NoJob EXCEPT !.status = "gone"]]
          /\ UNCHANGED budget
       \/ Lose /\ UNCHANGED server
    /\ UNCHANGED <<libVars, calls, sync>>

-----------------------------------------------------------------------------
(* The server, and the requests that reach it in any order or not at all.  *)

AsTold(job, call) ==
    IF job.status \in {"absent", "gone"} THEN job
    ELSE CASE call.op = "heart" -> [job EXCEPT !.favorite = call.on]
           [] call.op = "restore" -> [job EXCEPT !.trashed = FALSE]
           [] call.op = "trash" ->
                [job EXCEPT !.trashed = TRUE,
                            !.status = IF job.status = "waiting" THEN "stopped" ELSE job.status]

HandleCall(call) ==
    /\ call \in calls
    /\ calls' = calls \ {call}
    /\ \/ server' = [server EXCEPT ![call.id] = AsTold(@, call)] /\ UNCHANGED budget
       \/ Lose /\ UNCHANGED server
    /\ UNCHANGED <<libVars, sync, clearing>>

(* A running job ends; one that was told to stop may still finish first.   *)
JobEnds(id, how) ==
    /\ how \in {"done", "error", "stopped"}
    /\ \/ server[id].status = "running"
       \/ server[id].status = "waiting" /\ how # "stopped"
    /\ how = "stopped" => server[id].trashed
    /\ server' = [server EXCEPT ![id].status = how]
    /\ UNCHANGED <<libVars, calls, sync, clearing, budget>>

(* The queue takes a job up; its stems may leave the disk behind the       *)
(* server's back, and come back; the phone sets a heart.                   *)
JobStarts(id) ==
    /\ server[id].status = "waiting"
    /\ server' = [server EXCEPT ![id].status = "running"]
    /\ UNCHANGED <<libVars, calls, sync, clearing, budget>>

FilesVanish(id) ==
    /\ Lose
    /\ server[id].status = "done"
    /\ server' = [server EXCEPT ![id].status = "lost"]
    /\ UNCHANGED <<libVars, calls, sync, clearing>>

PhoneHeart(id, on) ==
    /\ Gesture
    /\ server[id].status \in {"done", "lost"}
    /\ server' = [server EXCEPT ![id].favorite = on]
    /\ UNCHANGED <<libVars, calls, sync, clearing>>

-----------------------------------------------------------------------------
(* syncWithServer(): on load, when the window is looked at again, and from *)
(* "Sync again".                                                           *)

AskSync ==
    /\ sync = None
    /\ sync' = Asked
    /\ UNCHANGED <<libVars, server, calls, clearing, budget>>

AnswerSync ==
    /\ sync = Asked
    /\ \/ sync' = server /\ UNCHANGED budget
       \/ sync' = None /\ Lose
    /\ UNCHANGED <<libVars, server, calls, clearing>>

(* A bug to catch: a request for the Trash that was lost is not made again.*)
ReconcileNothing(L, jobs) == {}

(* What the answer makes the page tell the server: its own Trash, which    *)
(* wins, and a heart the server knows nothing of.                          *)
ReconcileTrash(L, jobs) ==
    {Tell(IF id \in InTrash(L) THEN "trash" ELSE "restore", id, id \in InTrash(L)) :
        id \in {i \in Ids : Listed(jobs[i]) /\ (i \in InTrash(L)) # jobs[i].trashed}}

HandUpHearts(L, jobs) ==
    {Tell("heart", id, TRUE) :
        id \in {i \in Known(L) : /\ Listed(jobs[i]) /\ jobs[i].favorite = None
                                 /\ L.tracks[i].favorite}}

ApplyServerFavorite(L, jobs) ==
    [L EXCEPT !.tracks = [id \in Ids |->
        IF L.tracks[id] # None /\ Listed(jobs[id]) /\ jobs[id].favorite # None
        THEN [@[id] EXCEPT !.favorite = jobs[id].favorite] ELSE @[id]]]

(* A bug to catch: the tombstones are not asked.                           *)
AdoptDeleted(L, jobs) == {id \in Ids \ Known(L) : Listed(jobs[id])} \ InTrash(L)

(* The listed jobs the page does not know, less those it threw away.       *)
Adoptable(L, jobs) ==
    {id \in Ids \ Known(L) : Listed(jobs[id])} \ (InTrash(L) \cup deleted)

Adopt(L, jobs) ==
    FoldSet(LAMBDA id, Ls : UNION {AddTrackToLibrary(K, id, StatusOf(jobs[id]), TRUE) : K \in Ls},
            {L}, Adoptable(L, jobs))

(* done <-> unavailable is the server's word; the Trash is left alone.     *)
ReconcileAvailability(L, jobs) ==
    [L EXCEPT !.tracks = [id \in Ids |->
        IF \/ L.tracks[id] = None \/ id \in InTrash(L)
           \/ L.tracks[id].status \notin {"done", "unavailable"} THEN @[id]
        ELSE IF Listed(jobs[id]) THEN [@[id] EXCEPT !.status = StatusOf(jobs[id])]
        ELSE [@[id] EXCEPT !.status = "unavailable"]]]

SyncedLibs(jobs) ==
    {ReconcileAvailability(K, jobs) : K \in Adopt(ApplyServerFavorite(lib, jobs), jobs)}

ApplySync ==
    /\ sync \notin {None, Asked}
    /\ \E L \in SyncedLibs(sync) : Keep(L)
    /\ calls' = calls \cup ReconcileTrash(lib, sync) \cup HandUpHearts(lib, sync)
    /\ sync' = None
    /\ UNCHANGED <<deleted, savedDeleted, server, clearing, budget>>

(* The page is closed or reloaded: what it had in memory is what it saved. *)
Reload ==
    /\ budget.reloads > 0
    /\ budget' = [budget EXCEPT !.reloads = @ - 1]
    /\ lib' = Loaded(saved) /\ deleted' = savedDeleted
    /\ saved' = Loaded(saved)
    /\ sync' = Asked /\ clearing' = NotClearing
    /\ UNCHANGED <<savedDeleted, server, calls>>
=============================================================================

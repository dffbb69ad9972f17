---------------------------- MODULE LibraryRestart ----------------------------
(***************************************************************************)
(* What of StemDeck's library and import queue survives the process: the   *)
(* registry in memory, registry.json, the job directories, and restore(),  *)
(* which rebuilds the first from the other two (app/core/registry.py).     *)
(* The process may die between any two steps; a clean shutdown is no       *)
(* different, for nothing is saved on the way out (app/main.py, lifespan). *)
(*                                                                         *)
(* Every change of a job is followed by a persist(), and some by a removal *)
(* of its directory that may fail half-way.  What the code working on a    *)
(* job has still to do is its duty; a crash drops all duties.  persist()   *)
(* holds the registry's lock and replaces the file, so it is one step, and *)
(* whichever job it is called for it saves them all.  It is best effort:   *)
(* when the disk refuses, the file stays as it was, nobody is told and     *)
(* nobody tries again, until somebody's next persist() succeeds.           *)
(*                                                                         *)
(* Handlers of one job come one after the other here: how they race is     *)
(* ImportQueue's subject.  Also left out: the order of the queue, a reset  *)
(* of all data, metadata.json, titles, and Demucs' own output, which every *)
(* rerun clears.                                                           *)
(***************************************************************************)
EXTENDS Naturals, Sequences, FiniteSets

CONSTANTS
    Jobs,        \* job ids; an id is never reused
    Uploads,     \* the jobs whose source is kept when they are done
    Stems,       \* STEM_NAMES
    MaxRefusals, \* bound: the saves the disk refuses, in all
    None

ASSUME RestartAssumption ==
    /\ IsFiniteSet(Jobs)
    /\ Uploads \subseteq Jobs
    /\ Stems # {}
    /\ "source" \notin Stems
    /\ None \notin Jobs
    /\ MaxRefusals \in Nat

VARIABLES
    process,    \* "down", "restored" (restore() before its persist) or "up"
    status,     \* Job.status; "new" before the import, "absent" when not registered
    trashed,    \* the jobs with a trashed_at
    attempts,   \* Job.resume_attempts
    deleted,    \* registry._deleted
    asked,      \* the request a running job has not noticed yet
    running,    \* the job in the pipeline
    stage,      \* how far it is
    duty,       \* what the code working on each job has still to do
    saved,      \* registry.json: each job's record
    savedDel,   \* registry.json: "deleted"
    files,      \* what each job's directory holds
    kills,      \* history: how often it died while this job ran, since it was asked for
    fate,       \* history: what the pipeline or the user last made of each job
    unsaved,    \* history: the jobs whose save was refused, and no save since went through
    refusals    \* history: how many saves were refused

memory == <<status, trashed, attempts, deleted, asked, running, stage, duty>>
disk == <<saved, savedDel, files>>
history == <<kills, fate, unsaved, refusals>>
vars == <<process, memory, disk, history>>

-----------------------------------------------------------------------------
MaxResumeAttempts == 1

Finished == {"done", "error", "interrupted", "cancelled", "stopped"}

Resumable == {"queued", "processing"}

Persisted == {"done", "stopped"} \cup Resumable

Status == {"new", "absent"} \cup Finished \cup Resumable

Stages == {"none", "separate", "collect", "post"}

Duties == {"save", "enqueue", "erase", "forget", "drop"}

Fates == {"open", "done", "unwanted", "deleted", "over"}

Registered == {j \in Jobs : status[j] \notin {"new", "absent"}}

Record == [status : Persisted, trashed : BOOLEAN, attempts : Nat]

ASSUME NoneAssumption == None \notin Record

RecordOf(j) == [status |-> status[j], trashed |-> j \in trashed, attempts |-> attempts[j]]

Directories == {j \in Jobs : files[j] # {}}

(* Mutant: a deletion is forgotten as soon as it has been written once.    *)
PrunedOnceSaved == deleted \ savedDel

(* _prune_deleted(): a record only has to outlive the directory.           *)
Pruned == deleted \cap Directories

(* persist(), with the pruning it begins with.                             *)
Persist ==
    /\ deleted' = Pruned
    /\ savedDel' = Pruned
    /\ saved' = [j \in Jobs |-> IF status[j] \in Persisted THEN RecordOf(j) ELSE None]
    /\ unsaved' = {}
    /\ UNCHANGED refusals

(* persist() that cannot make the directory, or cannot write the file: the *)
(* jobs it was called for are not saved.                                   *)
PersistFails(js) ==
    /\ deleted' \in {deleted, Pruned}
    /\ UNCHANGED <<saved, savedDel>>
    /\ unsaved' = unsaved \cup js
    /\ refusals < MaxRefusals
    /\ refusals' = refusals + 1

Up == process = "up"

AtRest(j) == duty[j] = <<>>

Owe(j, steps) == duty' = [duty EXCEPT ![j] = @ \o steps]

-----------------------------------------------------------------------------
Init ==
    /\ process = "up"
    /\ status = [j \in Jobs |-> "new"]
    /\ trashed = {}
    /\ attempts = [j \in Jobs |-> 0]
    /\ deleted = {}
    /\ asked = "nothing"
    /\ running = None
    /\ stage = "none"
    /\ duty = [j \in Jobs |-> <<>>]
    /\ saved = [j \in Jobs |-> None]
    /\ savedDel = {}
    /\ files = [j \in Jobs |-> {}]
    /\ kills = [j \in Jobs |-> 0]
    /\ fate = [j \in Jobs |-> "open"]
    /\ unsaved = {}
    /\ refusals = 0

-----------------------------------------------------------------------------
(* Duties.                                                                 *)

(* An import is in the queue before it is saved, an extracted job after.   *)
(* Whoever called goes on, refused or not; a deletion is on disk with the  *)
(* next save that goes through.                                            *)
Save(j) ==
    /\ Up
    /\ duty[j] # <<>> /\ Head(duty[j]) \in {"save", "enqueue"}
    /\ \/ /\ Persist
          /\ fate' = [k \in Jobs |-> IF fate[k] = "unwanted" /\ status[k] = "absent"
                                     THEN "deleted" ELSE fate[k]]
       \/ /\ PersistFails({j})
          /\ UNCHANGED fate
    /\ duty' = [duty EXCEPT ![j] = Tail(@)]
    /\ UNCHANGED <<process, status, trashed, attempts, asked, running, stage, files, kills>>

(* A removal or a quarantine of the directory; a file held open by another *)
(* process, and what is beside it, may stay.                               *)
Erase(j) ==
    /\ Up
    /\ duty[j] # <<>> /\ Head(duty[j]) = "erase"
    /\ \E left \in SUBSET files[j] : files' = [files EXCEPT ![j] = left]
    /\ duty' = [duty EXCEPT ![j] = Tail(@)]
    /\ UNCHANGED <<process, status, trashed, attempts, deleted, asked, running, stage,
                   saved, savedDel, history>>

(* delete_job: mark_deleted() and remove().                                *)
Forget(j) ==
    /\ Up
    /\ duty[j] # <<>> /\ Head(duty[j]) = "forget"
    /\ deleted' = deleted \cup {j}
    /\ status' = [status EXCEPT ![j] = "absent"]
    /\ trashed' = trashed \ {j}
    /\ duty' = [duty EXCEPT ![j] = Tail(@)]
    /\ kills' = [kills EXCEPT ![j] = 0]
    /\ UNCHANGED <<process, attempts, asked, running, stage, disk, fate, unsaved, refusals>>

(* sweep_old_jobs: remove() alone.                                         *)
Drop(j) ==
    /\ Up
    /\ duty[j] # <<>> /\ Head(duty[j]) = "drop"
    /\ status' = [status EXCEPT ![j] = "absent"]
    /\ trashed' = trashed \ {j}
    /\ duty' = [duty EXCEPT ![j] = Tail(@)]
    /\ kills' = [kills EXCEPT ![j] = 0]
    /\ UNCHANGED <<process, attempts, deleted, asked, running, stage, disk, fate, unsaved, refusals>>

-----------------------------------------------------------------------------
(* Requests.                                                               *)

Import(j) ==
    /\ Up
    /\ status[j] = "new"
    /\ status' = [status EXCEPT ![j] = "queued"]
    /\ files' = [files EXCEPT ![j] = IF j \in Uploads THEN {"source"} ELSE {}]
    /\ Owe(j, <<"save">>)
    /\ UNCHANGED <<process, trashed, attempts, deleted, asked, running, stage, saved,
                   savedDel, history>>

Cancel(j) ==
    /\ Up /\ AtRest(j)
    /\ \/ /\ status[j] = "queued"
          /\ status' = [status EXCEPT ![j] = "cancelled"]
          /\ Owe(j, <<"erase", "save">>)
          /\ fate' = [fate EXCEPT ![j] = "over"]
          /\ UNCHANGED asked
       \/ /\ running = j
          /\ asked' = IF asked = "stop" THEN "stop" ELSE "cancel"
          /\ UNCHANGED <<status, duty, fate>>
    /\ UNCHANGED <<process, trashed, attempts, deleted, running, stage, disk, kills, unsaved, refusals>>

(* Mutant: the Trash is kept in memory only.                               *)
TrashUnsaved(j) ==
    /\ Up /\ AtRest(j)
    /\ j \in Registered
    /\ trashed' = trashed \cup {j}
    /\ status' = IF status[j] = "queued" THEN [status EXCEPT ![j] = "stopped"] ELSE status
    /\ asked' = IF running = j THEN "stop" ELSE asked
    /\ UNCHANGED <<process, attempts, deleted, running, stage, duty, disk, history>>

Trash(j) ==
    /\ Up /\ AtRest(j)
    /\ j \in Registered
    /\ trashed' = trashed \cup {j}
    /\ status' = IF status[j] = "queued" THEN [status EXCEPT ![j] = "stopped"] ELSE status
    /\ asked' = IF running = j THEN "stop" ELSE asked
    /\ Owe(j, <<"save">>)
    /\ UNCHANGED <<process, attempts, deleted, running, stage, disk, history>>

RestoreJob(j) ==
    /\ Up /\ AtRest(j)
    /\ j \in Registered \cap trashed
    /\ trashed' = trashed \ {j}
    /\ Owe(j, <<"save">>)
    /\ UNCHANGED <<process, status, attempts, deleted, asked, running, stage, disk, history>>

Extract(j) ==
    /\ Up /\ AtRest(j)
    /\ status[j] = "stopped"
    /\ j \notin trashed
    /\ status' = [status EXCEPT ![j] = "queued"]
    /\ Owe(j, <<"enqueue">>)
    /\ kills' = [kills EXCEPT ![j] = 0]
    /\ UNCHANGED <<process, trashed, attempts, deleted, asked, running, stage, disk,
                   fate, unsaved, refusals>>

Delete(j) ==
    /\ Up /\ AtRest(j)
    /\ status[j] \in Finished
    /\ fate' = [fate EXCEPT ![j] = "unwanted"]
    /\ Owe(j, <<"erase", "forget", "save">>)
    /\ UNCHANGED <<process, status, trashed, attempts, deleted, asked, running, stage,
                   disk, kills, unsaved, refusals>>

(* The hourly sweep finds a finished job, or a directory nobody knows, too old. *)
Expire(j) ==
    /\ Up /\ AtRest(j)
    /\ status[j] \in Finished \cup {"absent"}
    /\ j \in Directories
    /\ fate' = [fate EXCEPT ![j] = IF status[j] = "absent" /\ @ \in {"unwanted", "deleted"}
                                  THEN @ ELSE "over"]
    /\ Owe(j, <<"erase", "drop", "save">>)
    /\ UNCHANGED <<process, status, trashed, attempts, deleted, asked, running, stage,
                   disk, kills, unsaved, refusals>>

-----------------------------------------------------------------------------
(* The pipeline, by what it leaves on disk.                                *)

Start(j) ==
    /\ Up
    /\ running = None
    /\ status[j] = "queued"
    /\ duty[j] # <<"enqueue">>
    /\ status' = [status EXCEPT ![j] = "processing"]
    /\ running' = j
    /\ stage' = "separate"
    /\ asked' = "nothing"
    /\ UNCHANGED <<process, trashed, attempts, deleted, duty, disk, history>>

Write(next, content) ==
    /\ stage' = next
    /\ files' = [files EXCEPT ![running] = content]
    /\ UNCHANGED <<process, status, trashed, attempts, deleted, asked, running, duty,
                   saved, savedDel, history>>

Separate == stage = "separate" /\ Write("collect", files[running] \cup {"source"})

(* collect() moves the stems one by one; then a link's source is removed.  *)
CollectStem ==
    /\ stage = "collect"
    /\ \E s \in Stems \ files[running] : Write("collect", files[running] \cup {s})

(* Mutant: the source of an upload goes as well.                           *)
CollectAllEnds ==
    /\ stage = "collect"
    /\ Stems \subseteq files[running]
    /\ Write("post", files[running] \ {"source"})

CollectEnds ==
    /\ stage = "collect"
    /\ Stems \subseteq files[running]
    /\ Write("post", IF running \in Uploads THEN files[running] ELSE files[running] \ {"source"})

Leave(end, steps) ==
    /\ status' = [status EXCEPT ![running] = end]
    /\ Owe(running, steps)
    /\ running' = None
    /\ stage' = "none"
    /\ asked' = "nothing"
    /\ kills' = [kills EXCEPT ![running] = 0]
    /\ UNCHANGED <<process, trashed, attempts, deleted, disk, unsaved, refusals>>

(* A request that came after the last check loses the race.                *)
Finish ==
    /\ stage = "post"
    /\ Leave("done", <<"save">>)
    /\ fate' = [fate EXCEPT ![running] = "done"]

Fail ==
    /\ running # None
    /\ asked = "nothing"
    /\ Leave("error", <<"erase", "save">>)
    /\ fate' = [fate EXCEPT ![running] = "over"]

Halt ==
    /\ running # None
    /\ \/ /\ asked = "cancel"
          /\ Leave("cancelled", <<"save", "erase">>)
          /\ fate' = [fate EXCEPT ![running] = "over"]
       \/ /\ asked = "stop"
          /\ Leave("stopped", <<"save">>)
          /\ UNCHANGED fate

-----------------------------------------------------------------------------
(* Death and restart.                                                      *)

(* What nothing is promised of after a death: a deletion that is not on    *)
(* disk, and the finish of a job that the file, for want of a save, still  *)
(* has as stopped.                                                         *)
Lost(j) ==
    \/ fate[j] = "unwanted"
    \/ /\ fate[j] = "done"
       /\ j \in unsaved
       /\ saved[j] # None /\ saved[j].status = "stopped"

Crash ==
    /\ process # "down"
    /\ kills' = [j \in Jobs |-> kills[j] + IF j = running /\ j \notin unsaved THEN 1 ELSE 0]
    /\ fate' = [j \in Jobs |-> IF Lost(j) THEN "over" ELSE fate[j]]
    /\ unsaved' = {}
    /\ process' = "down"
    /\ status' = [j \in Jobs |-> IF status[j] = "new" THEN "new" ELSE "absent"]
    /\ trashed' = {}
    /\ attempts' = [j \in Jobs |-> 0]
    /\ deleted' = {}
    /\ asked' = "nothing"
    /\ running' = None
    /\ stage' = "none"
    /\ duty' = [j \in Jobs |-> <<>>]
    /\ UNCHANGED <<disk, refusals>>

(* _recover_done_job(): one stem on disk is enough.                        *)
Recoverable(j) == files[j] \cap Stems # {}

(* _resume_or_recover() has resumed this job once more.                    *)
Resumed(j) ==
    /\ saved[j] # None
    /\ saved[j].status \in Resumable
    /\ ~Recoverable(j)
    /\ ~saved[j].trashed

(* Mutant: the resume attempts are counted and never looked at.            *)
RestoredUncapped(j) ==
    IF saved[j] = None
    THEN IF Recoverable(j) /\ j \notin savedDel THEN "done" ELSE status[j]
    ELSE CASE saved[j].status \in {"done", "stopped"} -> saved[j].status
           [] saved[j].status \in Resumable /\ Recoverable(j) -> "done"
           [] Resumed(j) -> "queued"
           [] OTHER -> "stopped"

(* Mutant: whatever was in flight is run again.                            *)
RestoredByRerun(j) ==
    IF saved[j] = None
    THEN IF Recoverable(j) /\ j \notin savedDel THEN "done" ELSE status[j]
    ELSE CASE saved[j].status \in {"done", "stopped"} -> saved[j].status
           [] saved[j].attempts >= MaxResumeAttempts -> "interrupted"
           [] saved[j].trashed -> "stopped"
           [] OTHER -> "queued"

(* What restore() makes of a record, or of a directory without one.        *)
RestoredStatus(j) ==
    IF saved[j] = None
    THEN IF Recoverable(j) /\ j \notin savedDel THEN "done" ELSE status[j]
    ELSE CASE saved[j].status \in {"done", "stopped"} -> saved[j].status
           [] saved[j].status \in Resumable /\ Recoverable(j) -> "done"
           [] Resumed(j) /\ saved[j].attempts >= MaxResumeAttempts -> "interrupted"
           [] Resumed(j) /\ saved[j].attempts < MaxResumeAttempts -> "queued"
           [] OTHER -> "stopped"

RestoredAttempts(j) ==
    CASE saved[j] = None \/ (saved[j].status \in Resumable /\ Recoverable(j)) -> 0
      [] Resumed(j) -> saved[j].attempts + 1
      [] OTHER -> saved[j].attempts

(* Mutant: a job that finished after all comes back outside the Trash.     *)
RestoredTrashOfRecords ==
    {j \in Jobs : /\ saved[j] # None
                  /\ saved[j].trashed
                  /\ ~(saved[j].status \in Resumable /\ Recoverable(j))}

RestoredTrash == {j \in Jobs : saved[j] # None /\ saved[j].trashed}

Restore ==
    /\ process = "down"
    /\ process' = "restored"
    /\ status' = [j \in Jobs |-> RestoredStatus(j)]
    /\ attempts' = [j \in Jobs |-> RestoredAttempts(j)]
    /\ trashed' = RestoredTrash
    /\ deleted' = savedDel
    /\ UNCHANGED <<asked, running, stage, duty, disk, history>>

(* The jobs restore() made something new of: it met them in flight, or     *)
(* adopted their directory.                                                *)
Changed ==
    {j \in Jobs : IF saved[j] = None THEN status[j] = "done" ELSE saved[j].status \in Resumable}

(* Mutant: what restore() decided is left to the next persist().           *)
RestoreEndsUnsaved ==
    /\ process = "restored"
    /\ process' = "up"
    /\ UNCHANGED <<memory, disk, history>>

RestoreEnds ==
    /\ process = "restored"
    /\ process' = "up"
    /\ IF Changed # {} THEN Persist \/ PersistFails(Changed)
                       ELSE UNCHANGED <<deleted, saved, savedDel, unsaved, refusals>>
    /\ UNCHANGED <<status, trashed, attempts, asked, running, stage, duty, files, kills, fate>>

-----------------------------------------------------------------------------
Duty(j) == Save(j) \/ Erase(j) \/ Forget(j) \/ Drop(j)

Request(j) ==
    Import(j) \/ Cancel(j) \/ Trash(j) \/ RestoreJob(j) \/ Extract(j) \/ Delete(j) \/ Expire(j)

Pipeline ==
    \/ \E j \in Jobs : Start(j)
    \/ Separate \/ CollectStem \/ CollectEnds
    \/ Finish \/ Fail \/ Halt

Next ==
    \/ \E j \in Jobs : Duty(j) \/ Request(j)
    \/ Pipeline
    \/ Crash \/ Restore \/ RestoreEnds

Spec == Init /\ [][Next]_vars

-----------------------------------------------------------------------------
(* Properties.                                                             *)

TypeOK ==
    /\ process \in {"down", "restored", "up"}
    /\ status \in [Jobs -> Status]
    /\ trashed \in SUBSET Jobs
    /\ attempts \in [Jobs -> 0 .. MaxResumeAttempts + 1]
    /\ deleted \in SUBSET Jobs
    /\ asked \in {"nothing", "cancel", "stop"}
    /\ running \in Jobs \cup {None}
    /\ stage \in Stages
    /\ duty \in [Jobs -> Seq(Duties)]
    /\ saved \in [Jobs -> Record \cup {None}]
    /\ savedDel \in SUBSET Jobs
    /\ files \in [Jobs -> SUBSET ({"source"} \cup Stems)]
    /\ kills \in [Jobs -> Nat]
    /\ fate \in [Jobs -> Fates]
    /\ unsaved \in SUBSET Jobs
    /\ refusals \in 0 .. MaxRefusals

(* A job whose deletion is on disk never comes back, whatever of its       *)
(* directory was left, however often the deletion records were pruned,     *)
(* saves were refused and the process restarted (#521).                    *)
DeletedStaysDeleted ==
    \A j \in Jobs : fate[j] = "deleted" => status[j] = "absent"

(* What the pipeline finished is in the library for as long as nobody asks *)
(* for its removal, even if the process dies before "done" is saved, or    *)
(* the disk refuses to save it, or nothing of the job was ever saved.      *)
FinishedIsKept ==
    process # "down" =>
        \A j \in Jobs : fate[j] = "done" => status[j] = "done"

(* A job that kills the process is run once, resumed once, and not again:  *)
(* of the deaths while it ran, those count that found the file up to date  *)
(* about it, so that restore() could count them too.                       *)
CrashLoopEnds == \A j \in Jobs : kills[j] <= 1 + MaxResumeAttempts

(* An upload that has not come to an end can be separated once more,       *)
(* whenever it was stopped or interrupted: its source is StemDeck's only   *)
(* copy of it (runner.py:190).                                             *)
SourceIsKept ==
    \A j \in Uploads :
        status[j] \in {"queued", "processing", "stopped"} /\ fate[j] = "open"
            => "source" \in files[j]

(* A song that is in the Trash in the file is in the Trash after a restart *)
(* too, and is neither waiting nor running (#748).                         *)
TrashSurvives ==
    process = "restored" =>
        \A j \in Jobs : saved[j] # None /\ saved[j].trashed
            => j \in trashed /\ status[j] \in {"done", "stopped"}

(* Once the code working on a job has done its duty, a crash would lose    *)
(* nothing of what was decided: the file says what the registry says,      *)
(* unless the disk refused a save of this very job and none since went     *)
(* through.  A save another job was refused costs this one nothing.        *)
AnsweredIsSaved ==
    Up => \A j \in Jobs \ unsaved : AtRest(j) =>
        IF status[j] \notin Persisted THEN saved[j] = None
        ELSE /\ saved[j] # None
             /\ saved[j].trashed = (j \in trashed)
             /\ saved[j].attempts = attempts[j]
             /\ \/ saved[j].status = status[j]
                \/ {saved[j].status, status[j]} \subseteq Resumable

-----------------------------------------------------------------------------
(* What the code says of itself and does not keep.                         *)

(* Jobs in flight are "persisted too (so a queue left running survives a   *)
(* restart)" (registry.py:27), and the cap on resumes is there for "a job  *)
(* that reliably kills the process" (registry.py:37): a job that has not   *)
(* killed the process as often as that is not failed for it.               *)
OnlyKillersFail ==
    \A j \in Jobs : status[j] = "interrupted" => kills[j] > MaxResumeAttempts

(* "If the stems are all there, the crash landed between the last stem      *)
(* being written and the "done" persist" (registry.py:304): a job the      *)
(* library calls done has all its stems.                                   *)
DoneIsWhole ==
    \A j \in Jobs : status[j] = "done" /\ fate[j] \in {"open", "done"} => Stems \subseteq files[j]
=============================================================================

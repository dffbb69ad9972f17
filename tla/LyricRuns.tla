------------------------------- MODULE LyricRuns -------------------------------
(***************************************************************************)
(* The line-by-line timings of a track's lyrics asked for by a user        *)
(* (app/pipeline/lyrics_retime.py, app/api/jobs.py): one slot a job, each  *)
(* run a task behind the pipeline lock that a cancel or the deletion of    *)
(* the job stops, and the vocal split that waits for the same lock.        *)
(*                                                                         *)
(* Left out: what is heard and how well it fits (the outcome is chosen)    *)
(* and the lyrics the browser keeps.                                       *)
(***************************************************************************)
EXTENDS Naturals, FiniteSets

CONSTANTS
    LyricJobs, NoLyricJob,
    MaxAsks,     \* bound on the requests for a run of a job that are let in at once
    MaxRuns,     \* bound on the runs started
    MaxStops,    \* bound on the cancels and deletions asked
    MaxEdits     \* bound on the edits of a job's lyrics

VARIABLES
    lookedUp,   \* how many requests for a run of each job are past its look-up
    lyricRuns,  \* every RetimeRun there was: its job, state, flags and where its task stands
    runOf,      \* _RUNS: each job's run, 0 for none
    lockedBy,   \* _pipeline_lock: a run, "import" or "split" ("free"), and whether its process was ended
    registered, \* the jobs of the registry
    splitState, \* each job's vocal_split
    stop,       \* the cancel or deletion under way ("spared": it did not see its run off)
    stops,      \* how many there were
    lyricsOf    \* each job's lyrics.json: the user's edits answered and kept, and whether it is timed

lyricVars == <<lookedUp, lyricRuns, runOf, lockedBy, registered, splitState, stop, stops, lyricsOf>>

ASSUME LyricAssumption == /\ MaxAsks \in Nat /\ MaxRuns \in Nat \ {0} /\ MaxStops \in Nat /\ MaxEdits \in Nat
                         /\ NoLyricJob \notin LyricJobs

NoRun == [job |-> NoLyricJob, state |-> "none", cancel |-> FALSE, started |-> FALSE, at |-> "none", of |-> 0]
NoStop == [job |-> NoLyricJob, kind |-> "none", at |-> "none", run |-> 0, spared |-> FALSE]
RunIds == 1..MaxRuns
Locked(kind, of) == [kind |-> kind, of |-> of, killed |-> FALSE]
Unlocked == Locked("free", 0)

LyricInit ==
    /\ lyricRuns = [r \in RunIds |-> NoRun] /\ runOf = [j \in LyricJobs |-> 0]
    /\ lookedUp = [j \in LyricJobs |-> 0]
    /\ lockedBy = Unlocked
    /\ registered = LyricJobs /\ splitState = [j \in LyricJobs |-> "none"]
    /\ stop = NoStop /\ stops = 0
    /\ lyricsOf = [j \in LyricJobs |-> [answered |-> 0, kept |-> 0, timed |-> FALSE]]

IsRunning(r) == r # 0 /\ lyricRuns[r].state = "running"
(* cancelled() of _retime_task: its own flag, and whether the job is kept. *)
RunIsCancelled(r) == lyricRuns[r].cancel \/ lyricRuns[r].job \notin registered
Free == lockedBy.kind = "free"
SetRun(r, rec) == lyricRuns' = [lyricRuns EXCEPT ![r] = rec]

(* _RUNS_LOCK is held by a cancel from its flag to its answer, and         *)
(* _OFFSET_LOCK by a run from its last look to what it writes.             *)
RunsLockFree == stop.at # "settle"
OffsetLockFree == \A r \in RunIds : lyricRuns[r].at # "writing"

----------------------------------------------------------------------------
(* A bug to catch: a slot given whoever holds it.                          *)
ClaimOver(j) == RunsLockFree
ClaimRun(j) == RunsLockFree /\ ~IsRunning(runOf[j])

(* start_lyrics_retime(): the job is looked up, its lyrics and vocals are  *)
(* looked at in a thread, and a slot is claimed, whatever became of the    *)
(* job meanwhile; the task of the run waits for the lock.                  *)
AskRetime(j) ==
    /\ j \in registered /\ lookedUp[j] < MaxAsks
    /\ lookedUp' = [lookedUp EXCEPT ![j] = @ + 1]
    /\ UNCHANGED <<lyricRuns, runOf, lockedBy, registered, splitState, stop, stops, lyricsOf>>

RefuseRetime(j) ==
    /\ lookedUp[j] > 0 /\ lookedUp' = [lookedUp EXCEPT ![j] = @ - 1]
    /\ UNCHANGED <<lyricRuns, runOf, lockedBy, registered, splitState, stop, stops, lyricsOf>>

StartRetime(j) ==
    /\ lookedUp[j] > 0 /\ lookedUp' = [lookedUp EXCEPT ![j] = @ - 1] /\ ClaimRun(j)
    /\ \E r \in RunIds :
          /\ lyricRuns[r].state = "none" /\ \A q \in 1..(r - 1) : lyricRuns[q].state # "none"
          /\ SetRun(r, [NoRun EXCEPT !.job = j, !.state = "running", !.at = "waiting"])
          /\ runOf' = [runOf EXCEPT ![j] = r]
    /\ UNCHANGED <<lockedBy, registered, splitState, stop, stops, lyricsOf>>

(* The task holds the lock: it has started, from here on.                  *)
RunStarts(r) ==
    /\ lyricRuns[r].at = "waiting" /\ Free
    /\ lockedBy' = Locked("run", r)
    /\ SetRun(r, [lyricRuns[r] EXCEPT !.started = TRUE, !.at = "check"])
    /\ UNCHANGED <<lookedUp, runOf, registered, splitState, stop, stops, lyricsOf>>

RunEnds(r, state) ==
    /\ SetRun(r, [lyricRuns[r] EXCEPT !.at = "over", !.state = state])
    /\ lockedBy' = Unlocked

(* Its flag.                                                               *)
RunChecks(r) ==
    /\ lyricRuns[r].at = "check"
    /\ IF RunIsCancelled(r) THEN RunEnds(r, "idle")
       ELSE SetRun(r, [lyricRuns[r] EXCEPT !.at = "hear"]) /\ UNCHANGED lockedBy
    /\ UNCHANGED <<lookedUp, runOf, registered, splitState, stop, stops, lyricsOf>>

(* The words heard, or kept from before, and the lines missed heard again: *)
(* a process each.  A flag is looked at now and then, last before a timing *)
(* that is unsure is answered; a process that was ended fails the first    *)
(* time, and the second time goes for nothing heard.                       *)
HearsOn(r, to) == SetRun(r, [lyricRuns[r] EXCEPT !.at = to]) /\ lockedBy' = Locked("run", r)
RunHears(r) ==
    /\ lyricRuns[r].at \in {"hear", "again"}
    /\ \/ RunIsCancelled(r) /\ RunEnds(r, "idle")
       \/ RunEnds(r, "failed")
       \/ /\ lyricRuns[r].at = "again" \/ ~lockedBy.killed
          /\ \/ RunEnds(r, "unsure") \/ HearsOn(r, "write")
             \/ lyricRuns[r].at = "hear" /\ HearsOn(r, "again")
    /\ UNCHANGED <<lookedUp, runOf, registered, splitState, stop, stops, lyricsOf>>

(* Under _OFFSET_LOCK: the flag once more, and the lyrics read again, ...  *)
RunLooks(r) ==
    /\ lyricRuns[r].at = "write" /\ OffsetLockFree
    /\ IF RunIsCancelled(r) THEN RunEnds(r, "idle")
       ELSE /\ SetRun(r, [lyricRuns[r] EXCEPT !.at = "writing", !.of = lyricsOf[lyricRuns[r].job].kept])
            /\ UNCHANGED lockedBy
    /\ UNCHANGED <<lookedUp, runOf, registered, splitState, stop, stops, lyricsOf>>

(* ... which are written with the timing, or cannot be, or are other       *)
(* lyrics by now.                                                          *)
RunWrites(r) ==
    /\ lyricRuns[r].at = "writing"
    /\ \/ RunEnds(r, "failed") /\ UNCHANGED lyricsOf
       \/ /\ RunEnds(r, "done")
          /\ lyricsOf' = [lyricsOf EXCEPT ![lyricRuns[r].job].kept = lyricRuns[r].of,
                                          ![lyricRuns[r].job].timed = TRUE]
    /\ UNCHANGED <<lookedUp, runOf, registered, splitState, stop, stops>>

(* The user moves the lyrics, or times a line: under the same lock.        *)
EditLyrics(j) ==
    /\ j \in registered /\ lyricsOf[j].answered < MaxEdits /\ OffsetLockFree
    /\ lyricsOf' = [lyricsOf EXCEPT ![j].answered = @ + 1, ![j].kept = @ + 1]
    /\ UNCHANGED <<lookedUp, lyricRuns, runOf, lockedBy, registered, splitState, stop, stops>>

----------------------------------------------------------------------------
(* The others behind the lock.                                             *)
ImportLocks ==
    /\ Free /\ lockedBy' = Locked("import", 0)
    /\ UNCHANGED <<lookedUp, lyricRuns, runOf, registered, splitState, stop, stops, lyricsOf>>

StartSplit(j) ==
    /\ j \in registered /\ splitState[j] \in {"none", "error"}
    /\ splitState' = [splitState EXCEPT ![j] = "running"]
    /\ UNCHANGED <<lookedUp, lyricRuns, runOf, lockedBy, registered, stop, stops, lyricsOf>>

SplitLocks(j) ==
    /\ splitState[j] = "running" /\ Free /\ lockedBy' = Locked("split", j)
    /\ UNCHANGED <<lookedUp, lyricRuns, runOf, registered, splitState, stop, stops, lyricsOf>>

OtherUnlocks ==
    /\ lockedBy.kind \in {"import", "split"} /\ lockedBy' = Unlocked
    /\ IF lockedBy.kind = "split"
       THEN \E state \in {"error"} \cup (IF lockedBy.killed THEN {} ELSE {"done"}) : splitState' = [splitState EXCEPT ![lockedBy.of] = state]
       ELSE UNCHANGED splitState
    /\ UNCHANGED <<lookedUp, lyricRuns, runOf, registered, stop, stops, lyricsOf>>

----------------------------------------------------------------------------
(* cancel_job() and delete_job(), one at a time.                           *)
StopBegins(j, kind) ==
    /\ stop.at = "none" /\ j \in registered /\ stops < MaxStops /\ stops' = stops + 1
    /\ stop' = [NoStop EXCEPT !.job = j, !.kind = kind,
                !.at = IF kind = "cancel" /\ splitState[j] = "running" THEN "signal" ELSE "flag"]
    /\ UNCHANGED <<lookedUp, lyricRuns, runOf, lockedBy, registered, splitState, lyricsOf>>

(* cancel_run(): the flag first, ...                                       *)
StopFlags ==
    /\ stop.at = "flag"
    /\ LET r == runOf[stop.job]
       IN IF IsRunning(r)
          THEN /\ SetRun(r, [lyricRuns[r] EXCEPT !.cancel = TRUE])
               /\ stop' = [stop EXCEPT !.at = "settle", !.run = r]
          ELSE /\ stop' = IF stop.kind = "cancel" THEN NoStop ELSE [stop EXCEPT !.at = "forget"]
               /\ UNCHANGED lyricRuns
    /\ UNCHANGED <<lookedUp, runOf, lockedBy, registered, splitState, stops, lyricsOf>>

(* ... then whether it has started: one that waits is over at once.        *)
StopSettles ==
    /\ stop.at = "settle"
    /\ LET r == runOf[stop.job]
       IN IF lyricRuns[r].started THEN UNCHANGED lyricRuns
          ELSE SetRun(r, [lyricRuns[r] EXCEPT !.state = "idle"])
    /\ stop' = IF stop.kind = "delete" /\ splitState[stop.job] = "running"
               THEN [stop EXCEPT !.at = "forget", !.spared = TRUE] ELSE [stop EXCEPT !.at = "signal"]
    /\ UNCHANGED <<lookedUp, runOf, lockedBy, registered, splitState, stops, lyricsOf>>

(* The process registered for the job is ended, whatever of the job runs   *)
(* it now: who waits for it finds out by itself.                           *)
HoldsProc(j) ==
    \/ lockedBy.kind = "run" /\ lyricRuns[lockedBy.of].job = j /\ lyricRuns[lockedBy.of].at \in {"hear", "again"}
    \/ lockedBy.kind = "split" /\ lockedBy.of = j
StopSignalled ==
    /\ stop.at = "signal"
    /\ \/ HoldsProc(stop.job) /\ lockedBy' = [lockedBy EXCEPT !.killed = TRUE]
       \/ UNCHANGED lockedBy
    /\ stop' = IF stop.kind = "cancel" THEN NoStop ELSE [stop EXCEPT !.at = "wait"]
    /\ UNCHANGED <<lookedUp, lyricRuns, runOf, registered, splitState, stops, lyricsOf>>

(* A bug to catch: the files removed under a run that still has them open. *)
RunIsOffAnyway(r) == r = 0 \/ lyricRuns[r].started
RunIsOff(r) == r = 0 \/ ~lyricRuns[r].started \/ lyricRuns[r].at = "over"

(* wait_run_ended(): 15 s for the run of the slot, and the files are       *)
(* removed anyway.                                                         *)
StopWaits ==
    /\ stop.at = "wait"
    /\ \/ RunIsOff(runOf[stop.job]) /\ stop' = [stop EXCEPT !.at = "forget"]
       \/ ~RunIsOff(runOf[stop.job]) /\ stop' = [stop EXCEPT !.at = "forget", !.spared = TRUE]
    /\ UNCHANGED <<lookedUp, lyricRuns, runOf, lockedBy, registered, splitState, stops, lyricsOf>>

(* forget_run(), ...                                                       *)
StopForgets ==
    /\ stop.at = "forget" /\ stop' = [stop EXCEPT !.at = "remove"]
    /\ runOf' = [runOf EXCEPT ![stop.job] = 0]
    /\ UNCHANGED <<lookedUp, lyricRuns, lockedBy, registered, splitState, stops, lyricsOf>>

(* ... and, past the directory, the registry.                              *)
StopRemoves ==
    /\ stop.at = "remove" /\ stop' = NoStop
    /\ registered' = registered \ {stop.job}
    /\ UNCHANGED <<lookedUp, lyricRuns, runOf, lockedBy, splitState, stops, lyricsOf>>

LyricRunsNext ==
    \/ \E j \in LyricJobs : \/ AskRetime(j) \/ RefuseRetime(j) \/ StartRetime(j) \/ EditLyrics(j)
                            \/ StartSplit(j) \/ SplitLocks(j)
                            \/ \E kind \in {"cancel", "delete"} : StopBegins(j, kind)
    \/ \E r \in RunIds : RunStarts(r) \/ RunChecks(r) \/ RunHears(r) \/ RunLooks(r) \/ RunWrites(r)
    \/ ImportLocks \/ OtherUnlocks
    \/ StopFlags \/ StopSettles \/ StopSignalled \/ StopWaits \/ StopForgets \/ StopRemoves

LyricRunsSpec == LyricInit /\ [][LyricRunsNext]_lyricVars

----------------------------------------------------------------------------
(* A run the user was told is over ("idle") before it started never hears  *)
(* nor writes; a job that is kept has one run that nobody stopped; no      *)
(* timing undoes an edit of the lyrics that was answered; and a deletion   *)
(* removes the files when the run it stopped has let go of them, unless it *)
(* gave up waiting or a split of the job was in the way.                   *)
Going == {"hear", "again", "write", "writing"}
Leaving(j) == stop.job = j /\ stop.at = "remove"
RunsKeepTheirWord ==
    /\ \A r \in RunIds : lyricRuns[r].at \in Going => lyricRuns[r].state = "running"
    /\ \A j \in registered :
          Leaving(j) \/ Cardinality({r \in RunIds : /\ lyricRuns[r].job = j /\ ~lyricRuns[r].cancel
                                                   /\ lyricRuns[r].at \in Going \cup {"waiting", "check"}}) <= 1
    /\ \A j \in LyricJobs : lyricsOf[j].kept = lyricsOf[j].answered
    /\ stop.at \in {"forget", "remove"} /\ stop.run # 0 /\ ~stop.spared =>
          lyricRuns[stop.run].at \notin Going
=============================================================================

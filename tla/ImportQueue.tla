----------------------------- MODULE ImportQueue -----------------------------
(***************************************************************************)
(* The serial import queue of StemDeck and everything that may touch a job *)
(* on its way through it: the event loop's single consumer                 *)
(* (app/pipeline/jobqueue.py), the pipeline thread and the runner that     *)
(* settles it (app/pipeline/runner.py), and the HTTP handlers that cancel, *)
(* trash, restore, extract, delete and reorder jobs (app/api/jobs.py,      *)
(* app/api/queue.py).                                                      *)
(*                                                                         *)
(* Who runs where decides the grain of the steps.  The consumer, the       *)
(* runner's settling code and POST /api/jobs run on the event loop: they   *)
(* exclude one another between two awaits.  The other handlers are plain   *)
(* functions, so each runs in a threadpool thread (a Caller) and may be    *)
(* overtaken between any two reads or writes of shared state.              *)
(*                                                                         *)
(* Left out: what registry.json holds (persist() writes nothing this       *)
(* module reads), progress and stage texts, SSE versions, the vocal split  *)
(* and lyric timing of a finished job.  "downloading", "analyzing" and     *)
(* "separating" are "processing" here: no guard tells them apart.          *)
(***************************************************************************)
EXTENDS Naturals, Sequences, FiniteSets, SequencesExt

CONSTANTS
    Jobs,               \* job ids; an id is never reused (uuid4)
    Uploads,            \* the jobs whose source is a file handed over by the user
    Callers,            \* threadpool threads serving the synchronous endpoints
    Asks,               \* what clients may ask, as pairs <<request, job>>
    MaxPendingUploads,  \* MAX_PENDING_UPLOAD_JOBS
    MaxPendingUrls,     \* MAX_PENDING_URL_JOBS
    Stages,             \* cancellable child processes of one pipeline run
    None

ASSUME QueueAssumption ==
    /\ IsFiniteSet(Jobs)
    /\ Uploads \subseteq Jobs
    /\ Asks \subseteq {"cancel", "trash", "delete", "extract"} \X Jobs
    /\ MaxPendingUploads \in Nat \ {0}
    /\ MaxPendingUrls \in Nat \ {0}
    /\ Stages \in Nat
    /\ None \notin Jobs \cup Callers

VARIABLES
    registry,     \* the ids registry.get() finds
    status,       \* Job.status; "new" before the job exists
    cancelReq,    \* the jobs with cancel_requested set
    stopReq,      \* the jobs with stop_requested set
    trashed,      \* the jobs with a trashed_at
    files,        \* the uploads whose source file is on disk
    position,     \* Job.queue_position
    queue,        \* jobqueue._queue
    runningId,    \* jobqueue._running_id
    paused,       \* jobqueue._paused
    wake,         \* the asyncio.Event _wake is set
    wakeCall,     \* a call_soon_threadsafe(_wake.set) the loop has not run yet
    worker,       \* where _worker_loop (and the runner it awaits) stands
    held,         \* its local variable job_id
    pipe,         \* where the pipeline thread of the held job stands
    stagesLeft,   \* child processes the run still has to go through
    proc,         \* the child process registered for the held job
    at,           \* where each caller's handler stands
    request,      \* what each caller was asked for
    target        \* the job each caller was asked about

jobVars == <<registry, status, cancelReq, stopReq, trashed, files>>
queueVars == <<queue, position, runningId, paused>>
wakeVars == <<wake, wakeCall>>
workerVars == <<worker, held>>
pipeVars == <<pipe, stagesLeft, proc>>
callVars == <<at, request, target>>
vars == <<jobVars, queueVars, wakeVars, workerVars, pipeVars, callVars>>

-----------------------------------------------------------------------------
Finished == {"done", "error", "cancelled", "stopped"}

Status == {"new", "queued", "processing"} \cup Finished

Requests == {"cancel", "trash", "delete", "extract"}

WorkerPcs == {"top", "clear", "wait", "popped", "checked", "claimed",
              "running", "finishing", "release"}

PipePcs == {"none", "stage", "child", "tail", "ok", "cancelled", "failed"}

CallPcs == {"idle", "check", "flag", "discard", "settle", "terminate",
            "requeue", "reset", "enqueue", "remove"}

Pending(upload) == {j \in registry : status[j] = "queued" /\ (j \in Uploads) = upload}

HasRoom(j) ==
    Cardinality(Pending(j \in Uploads)) <
        IF j \in Uploads THEN MaxPendingUploads ELSE MaxPendingUrls

(* Mutant: the places in line counted from one too few.                    *)
RenumberedOneShort(q, known) ==
    [j \in Jobs |-> IF j \in ToSet(q) \cap known
                    THEN (CHOOSE i \in DOMAIN q : q[i] = j) - 2
                    ELSE position[j]]

(* _renumber_locked(): a job the registry has lost is passed over.         *)
Renumbered(q, known) ==
    [j \in Jobs |-> IF j \in ToSet(q) \cap known
                    THEN (CHOOSE i \in DOMAIN q : q[i] = j) - 1
                    ELSE position[j]]

(* Mutant: only the first job of an empty queue wakes the consumer.        *)
EnqueueWakesForFirst(j, known) ==
    /\ IF j \in ToSet(queue) \/ j = runningId
       THEN UNCHANGED <<queue, position>>
       ELSE /\ queue' = Append(queue, j)
            /\ position' = Renumbered(queue', known)
    /\ paused' = FALSE
    /\ wakeCall' = (wakeCall \/ queue = <<>>)

(* enqueue(): once in the queue or running is enough; any request lifts a pause. *)
Enqueue(j, known) ==
    /\ IF j \in ToSet(queue) \/ j = runningId
       THEN UNCHANGED <<queue, position>>
       ELSE /\ queue' = Append(queue, j)
            /\ position' = Renumbered(queue', known)
    /\ paused' = FALSE
    /\ wakeCall' = TRUE

(* Mutant: a stopped job's directory is removed like a cancelled one's.    *)
SettleRemovingFiles(j) ==
    /\ status' = [status EXCEPT ![j] = IF j \in stopReq THEN "stopped" ELSE "cancelled"]
    /\ files' = files \ {j}

(* settle_cancelled(), with the directory removal its callers make of the answer. *)
SettleCancelled(j) ==
    IF j \in stopReq
    THEN /\ status' = [status EXCEPT ![j] = "stopped"]
         /\ UNCHANGED files
    ELSE /\ status' = [status EXCEPT ![j] = "cancelled"]
         /\ files' = files \ {j}

(* The loop runs callbacks and other coroutines only while the consumer awaits. *)
LoopFree == worker = "wait" \/ (worker = "running" /\ pipe \notin {"ok", "cancelled", "failed"})

-----------------------------------------------------------------------------
(* A fresh start, after lifespan(): the jobs a previous session left are   *)
(* back in the queue, in its order, and the queue is paused if there are   *)
(* any.  The consumer has made its first, empty pass.                      *)
Init ==
    \E waiting \in SUBSET Jobs :
        /\ queue \in SetToSeqs(waiting)
        /\ registry = waiting
        /\ status = [j \in Jobs |-> IF j \in waiting THEN "queued" ELSE "new"]
        /\ files = waiting \cap Uploads
        /\ paused = (waiting # {})
        /\ wakeCall = (waiting # {})
        /\ position = [j \in Jobs |-> IF j \in waiting
                                      THEN (CHOOSE i \in DOMAIN queue : queue[i] = j) - 1
                                      ELSE 0]
        /\ cancelReq = {} /\ stopReq = {} /\ trashed = {}
        /\ runningId = None
        /\ wake = FALSE
        /\ worker = "wait" /\ held = None
        /\ pipe = "none" /\ stagesLeft = 0 /\ proc = "none"
        /\ at = [c \in Callers |-> "idle"]
        /\ request = [c \in Callers |-> "none"]
        /\ target = [c \in Callers |-> None]

-----------------------------------------------------------------------------
(* The consumer: _worker_loop.                                             *)

(* Paused, or nothing to pop: the branch that goes to sleep.  _wake.clear() *)
(* is a step of its own: a caller may enqueue between the look and it.     *)
GoIdle ==
    /\ worker = "top"
    /\ paused \/ queue = <<>>
    /\ worker' = "clear"
    /\ UNCHANGED <<jobVars, queueVars, wakeVars, held, pipeVars, callVars>>

ClearWake ==
    /\ worker = "clear"
    /\ wake' = FALSE
    /\ worker' = "wait"
    /\ UNCHANGED <<jobVars, queueVars, wakeCall, held, pipeVars, callVars>>

WakeUp ==
    /\ worker = "wait"
    /\ wake
    /\ worker' = "top"
    /\ UNCHANGED <<jobVars, queueVars, wakeVars, held, pipeVars, callVars>>

PopNext ==
    /\ worker = "top"
    /\ ~paused
    /\ queue # <<>>
    /\ held' = Head(queue)
    /\ queue' = Tail(queue)
    /\ worker' = "popped"
    /\ UNCHANGED <<jobVars, position, runningId, paused, wakeVars, pipeVars, callVars>>

(* Mutant: the cancelled job is dropped, as before #520.                   *)
DropUnfinalised ==
    /\ worker = "popped"
    /\ held \in registry
    /\ held \in cancelReq \/ status[held] \in Finished
    /\ worker' = "top"
    /\ held' = None
    /\ UNCHANGED <<jobVars, queueVars, wakeVars, pipeVars, callVars>>

(* A deleted job is forgotten; one cancelled or finished in the meantime is *)
(* closed out by _finalise_dropped_job; any other goes on to run.          *)
ForgetDeleted ==
    /\ worker = "popped"
    /\ held \notin registry
    /\ worker' = "top"
    /\ held' = None
    /\ UNCHANGED <<jobVars, queueVars, wakeVars, pipeVars, callVars>>

FinaliseDropped ==
    /\ worker = "popped"
    /\ held \in registry
    /\ held \in cancelReq \/ status[held] \in Finished
    /\ IF held \in cancelReq /\ status[held] \notin Finished
       THEN SettleCancelled(held)
       ELSE UNCHANGED <<status, files>>
    /\ worker' = "top"
    /\ held' = None
    /\ UNCHANGED <<registry, cancelReq, stopReq, trashed, queueVars, wakeVars,
                   pipeVars, callVars>>

PassCheck ==
    /\ worker = "popped"
    /\ held \in registry
    /\ held \notin cancelReq
    /\ status[held] \notin Finished
    /\ worker' = "checked"
    /\ UNCHANGED <<jobVars, queueVars, wakeVars, held, pipeVars, callVars>>

SetRunning ==
    /\ worker = "checked"
    /\ runningId' = held
    /\ worker' = "claimed"
    /\ UNCHANGED <<jobVars, queue, position, paused, wakeVars, held, pipeVars, callVars>>

(* _set(job, status="processing") and _dispatch() into the pipeline thread. *)
StartPipeline ==
    /\ worker = "claimed"
    /\ held \in Uploads => held \in files
    /\ status' = [status EXCEPT ![held] = "processing"]
    /\ pipe' = "stage"
    /\ stagesLeft' = Stages
    /\ worker' = "running"
    /\ UNCHANGED <<registry, cancelReq, stopReq, trashed, files, queueVars, wakeVars,
                   held, proc, callVars>>

(* _dispatch() finds no uploaded file, or run_pipeline() cannot make a      *)
(* link's directory: the job fails before any thread is started.           *)
DispatchFails ==
    /\ worker = "claimed"
    /\ held \in Uploads => held \notin files
    /\ status' = [status EXCEPT ![held] = "error"]
    /\ worker' = "release"
    /\ UNCHANGED <<registry, cancelReq, stopReq, trashed, files, queueVars,
                   wakeVars, held, pipeVars, callVars>>

(* Mutant: the consumer sleeps after each job instead of looking for more. *)
SleepAfterJob ==
    /\ worker = "release"
    /\ runningId' = None
    /\ held' = None
    /\ worker' = "clear"
    /\ UNCHANGED <<jobVars, queue, position, paused, wakeVars, pipeVars, callVars>>

ReleaseRunning ==
    /\ worker = "release"
    /\ runningId' = None
    /\ held' = None
    /\ worker' = "top"
    /\ UNCHANGED <<jobVars, queue, position, paused, wakeVars, pipeVars, callVars>>

-----------------------------------------------------------------------------
(* The pipeline thread: _run_common and the stages before it.              *)

(* check_cancel(): raise, or go on to the next child process, or, past the *)
(* last check of all, to the work that is no longer cancellable.           *)
CheckCancel ==
    /\ worker = "running"
    /\ pipe = "stage"
    /\ \/ /\ held \in cancelReq
          /\ pipe' = "cancelled"
          /\ UNCHANGED <<proc, stagesLeft>>
       \/ /\ held \notin cancelReq
          /\ stagesLeft > 0
          /\ pipe' = "child"
          /\ proc' = "alive"
          /\ stagesLeft' = stagesLeft - 1
       \/ /\ held \notin cancelReq
          /\ stagesLeft = 0
          /\ pipe' = "tail"
          /\ UNCHANGED <<proc, stagesLeft>>
    /\ UNCHANGED <<jobVars, queueVars, wakeVars, workerVars, callVars>>

(* The child ends: killed, it returns non-zero and its stage raises.       *)
ChildExits ==
    /\ worker = "running"
    /\ pipe = "child"
    /\ pipe' = IF proc = "killed" THEN "failed" ELSE "stage"
    /\ proc' = "none"
    /\ UNCHANGED <<jobVars, queueVars, wakeVars, workerVars, stagesLeft, callVars>>

StageRaises ==
    /\ worker = "running"
    /\ pipe \in {"stage", "child", "tail"}
    /\ pipe' = "failed"
    /\ proc' = "none"
    /\ UNCHANGED <<jobVars, queueVars, wakeVars, workerVars, stagesLeft, callVars>>

TailEnds ==
    /\ worker = "running"
    /\ pipe = "tail"
    /\ pipe' = "ok"
    /\ UNCHANGED <<jobVars, queueVars, wakeVars, workerVars, stagesLeft, proc, callVars>>

-----------------------------------------------------------------------------
(* _run_async, back on the loop once the thread has ended.                 *)

(* Mutant: any exception of the pipeline is taken for a cancellation.      *)
SettleAnyFailure ==
    /\ worker = "running"
    /\ pipe \in {"cancelled", "failed"}
    /\ SettleCancelled(held)
    /\ pipe' = "none"
    /\ worker' = "release"
    /\ UNCHANGED <<registry, cancelReq, stopReq, trashed, queueVars, wakeVars, held,
                   stagesLeft, proc, callVars>>

RunnerSettles ==
    /\ worker = "running"
    /\ pipe \in {"cancelled", "failed"}
    /\ IF pipe = "failed" /\ held \notin cancelReq
       THEN /\ status' = [status EXCEPT ![held] = "error"]
            /\ files' = files \ {held}          \* _quarantine_failed_job
       ELSE SettleCancelled(held)
    /\ pipe' = "none"
    /\ worker' = "release"
    /\ UNCHANGED <<registry, cancelReq, stopReq, trashed, queueVars, wakeVars, held,
                   stagesLeft, proc, callVars>>

ClearFlags ==
    /\ worker = "running"
    /\ pipe = "ok"
    /\ cancelReq' = cancelReq \ {held}
    /\ stopReq' = stopReq \ {held}
    /\ worker' = "finishing"
    /\ UNCHANGED <<registry, status, trashed, files, queueVars, wakeVars, held,
                   pipeVars, callVars>>

MarkDone ==
    /\ worker = "finishing"
    /\ status' = [status EXCEPT ![held] = "done"]
    /\ pipe' = "none"
    /\ worker' = "release"
    /\ UNCHANGED <<registry, cancelReq, stopReq, trashed, files, queueVars, wakeVars,
                   held, stagesLeft, proc, callVars>>

-----------------------------------------------------------------------------
(* The event loop's other work.                                            *)

RunWakeCall ==
    /\ wakeCall
    /\ LoopFree
    /\ wake' = TRUE
    /\ wakeCall' = FALSE
    /\ UNCHANGED <<jobVars, queueVars, workerVars, pipeVars, callVars>>

(* POST /api/jobs, from register_if_capacity() to enqueue(), which run      *)
(* without an await.  No caller can know the id before it is in the queue. *)
CreateJob(j) ==
    /\ LoopFree
    /\ status[j] = "new"
    /\ HasRoom(j)
    /\ registry' = registry \cup {j}
    /\ status' = [status EXCEPT ![j] = "queued"]
    /\ files' = files \cup ({j} \cap Uploads)
    /\ Enqueue(j, registry \cup {j})
    /\ UNCHANGED <<cancelReq, stopReq, trashed, runningId, wake, workerVars,
                   pipeVars, callVars>>

-----------------------------------------------------------------------------
(* The threadpool's handlers.                                              *)

Return(c) ==
    /\ at' = [at EXCEPT ![c] = "idle"]
    /\ request' = [request EXCEPT ![c] = "none"]
    /\ target' = [target EXCEPT ![c] = None]

GoOn(c, pc) ==
    /\ at' = [at EXCEPT ![c] = pc]
    /\ UNCHANGED <<request, target>>

(* POST .../cancel, /trash, /extract or DELETE: registry_get(), or, for a  *)
(* trash, set_trashed() in the same lock.                                  *)
Ask(c, j, r) ==
    /\ at[c] = "idle"
    /\ j \in registry
    /\ trashed' = IF r = "trash" THEN trashed \cup {j} ELSE trashed
    /\ at' = [at EXCEPT ![c] = "check"]
    /\ request' = [request EXCEPT ![c] = r]
    /\ target' = [target EXCEPT ![c] = j]
    /\ UNCHANGED <<registry, status, cancelReq, stopReq, files, queueVars, wakeVars,
                   workerVars, pipeVars>>

(* What each handler wants of the status before it goes on.                *)
MayGoOn(c) ==
    LET j == target[c] IN
    CASE request[c] \in {"cancel", "trash"} -> status[j] \notin Finished
      [] request[c] = "delete" -> status[j] \in Finished
      [] OTHER -> status[j] = "stopped" /\ j \notin trashed

NextPc(r) ==
    CASE r \in {"cancel", "trash"} -> "flag"
      [] r = "delete" -> "remove"
      [] OTHER -> "requeue"

CheckStatus(c) ==
    /\ at[c] = "check"
    /\ IF MayGoOn(c) THEN GoOn(c, NextPc(request[c])) ELSE Return(c)
    /\ UNCHANGED <<jobVars, queueVars, wakeVars, workerVars, pipeVars>>

(* Mutant: a trash sets stop_requested and forgets cancel_requested.       *)
SetStopFlagOnly(c) ==
    /\ at[c] = "flag"
    /\ IF request[c] = "trash"
       THEN /\ stopReq' = stopReq \cup {target[c]}
            /\ UNCHANGED cancelReq
       ELSE /\ cancelReq' = cancelReq \cup {target[c]}
            /\ UNCHANGED stopReq
    /\ GoOn(c, "discard")
    /\ UNCHANGED <<registry, status, trashed, files, queueVars, wakeVars, workerVars,
                   pipeVars>>

(* trash_job's stop_requested, then _cancel_pipeline's cancel_requested.   *)
SetFlags(c) ==
    /\ at[c] = "flag"
    /\ cancelReq' = cancelReq \cup {target[c]}
    /\ stopReq' = IF request[c] = "trash" THEN stopReq \cup {target[c]} ELSE stopReq
    /\ GoOn(c, "discard")
    /\ UNCHANGED <<registry, status, trashed, files, queueVars, wakeVars, workerVars,
                   pipeVars>>

(* Mutant: the handler settles the job whether or not it took it out.      *)
DiscardUnasked(c) ==
    /\ at[c] = "discard"
    /\ queue' = SelectSeq(queue, LAMBDA j : j # target[c])
    /\ GoOn(c, "settle")
    /\ UNCHANGED <<jobVars, position, runningId, paused, wakeVars, workerVars, pipeVars>>

(* Mutant: whatever is first in line is discarded.                         *)
DiscardHead(c) ==
    /\ at[c] = "discard"
    /\ IF target[c] \in ToSet(queue)
       THEN /\ queue' = Tail(queue)
            /\ GoOn(c, "settle")
       ELSE /\ GoOn(c, "terminate")
            /\ UNCHANGED queue
    /\ UNCHANGED <<jobVars, position, runningId, paused, wakeVars, workerVars, pipeVars>>

Discard(c) ==
    /\ at[c] = "discard"
    /\ \/ \E i \in DOMAIN queue :
             /\ queue[i] = target[c]
             /\ queue' = RemoveAt(queue, i)
             /\ GoOn(c, "settle")
       \/ /\ target[c] \notin ToSet(queue)
          /\ GoOn(c, "terminate")
          /\ UNCHANGED queue
    /\ UNCHANGED <<jobVars, position, runningId, paused, wakeVars, workerVars, pipeVars>>

SettleDiscarded(c) ==
    /\ at[c] = "settle"
    /\ SettleCancelled(target[c])
    /\ Return(c)
    /\ UNCHANGED <<registry, cancelReq, stopReq, trashed, queueVars, wakeVars,
                   workerVars, pipeVars>>

(* Only the running job's process is looked up and terminated.             *)
Terminate(c) ==
    /\ at[c] = "terminate"
    /\ proc' = IF target[c] = runningId /\ proc = "alive" THEN "killed" ELSE proc
    /\ Return(c)
    /\ UNCHANGED <<jobVars, queueVars, wakeVars, workerVars, pipe, stagesLeft>>

RestoreJob(j) ==
    /\ j \in registry \cap trashed
    /\ trashed' = trashed \ {j}
    /\ UNCHANGED <<registry, status, cancelReq, stopReq, files, queueVars, wakeVars,
                   workerVars, pipeVars, callVars>>

(* extract_stopped_job: requeue_if_capacity() claims the slot in the lock, *)
(* reset_for_rerun() runs outside it, enqueue() comes last.                *)
Requeue(c) ==
    /\ at[c] = "requeue"
    /\ IF HasRoom(target[c])
       THEN /\ status' = [status EXCEPT ![target[c]] = "queued"]
            /\ GoOn(c, "reset")
       ELSE /\ Return(c)
            /\ UNCHANGED status
    /\ UNCHANGED <<registry, cancelReq, stopReq, trashed, files, queueVars, wakeVars,
                   workerVars, pipeVars>>

ResetForRerun(c) ==
    /\ at[c] = "reset"
    /\ status' = [status EXCEPT ![target[c]] = "queued"]
    /\ cancelReq' = cancelReq \ {target[c]}
    /\ stopReq' = stopReq \ {target[c]}
    /\ GoOn(c, "enqueue")
    /\ UNCHANGED <<registry, trashed, files, queueVars, wakeVars, workerVars, pipeVars>>

EnqueueExtracted(c) ==
    /\ at[c] = "enqueue"
    /\ Enqueue(target[c], registry)
    /\ Return(c)
    /\ UNCHANGED <<jobVars, runningId, wake, workerVars, pipeVars>>

RemoveJob(c) ==
    /\ at[c] = "remove"
    /\ files' = files \ {target[c]}
    /\ registry' = registry \ {target[c]}
    /\ Return(c)
    /\ UNCHANGED <<status, cancelReq, stopReq, trashed, queueVars, wakeVars,
                   workerVars, pipeVars>>

(* Mutant: the places in line keep their old numbers.                      *)
ReorderOnly(j, after) ==
    \E i \in DOMAIN queue :
        /\ queue[i] = j
        /\ after # j
        /\ LET rest == RemoveAt(queue, i) IN
           \/ /\ after = None
              /\ queue' = <<j>> \o rest
           \/ \E k \in DOMAIN rest :
                 /\ rest[k] = after
                 /\ queue' = InsertAt(rest, k + 1, j)
           \/ /\ after \in Jobs \ ToSet(rest)
              /\ queue' = Append(rest, j)
        /\ UNCHANGED <<jobVars, position, runningId, paused, wakeVars, workerVars,
                       pipeVars, callVars>>

(* POST /api/queue/reorder: one critical section, so one step.  An anchor   *)
(* that has left the queue sends the job to the back.                      *)
Reorder(j, after) ==
    \E i \in DOMAIN queue :
        /\ queue[i] = j
        /\ after # j
        /\ LET rest == RemoveAt(queue, i) IN
           \/ /\ after = None
              /\ queue' = <<j>> \o rest
           \/ \E k \in DOMAIN rest :
                 /\ rest[k] = after
                 /\ queue' = InsertAt(rest, k + 1, j)
           \/ /\ after \in Jobs \ ToSet(rest)
              /\ queue' = Append(rest, j)
        /\ position' = Renumbered(queue', registry)
        /\ UNCHANGED <<jobVars, runningId, paused, wakeVars, workerVars, pipeVars,
                       callVars>>

(* Mutant: resume() lifts the pause and wakes nobody.                      *)
StartQuietly ==
    /\ paused' = FALSE
    /\ UNCHANGED <<jobVars, queue, position, runningId, wakeVars, workerVars, pipeVars,
                   callVars>>

StartQueue ==
    /\ paused' = FALSE
    /\ wakeCall' = TRUE
    /\ UNCHANGED <<jobVars, queue, position, runningId, wake, workerVars, pipeVars,
                   callVars>>

-----------------------------------------------------------------------------
Worker ==
    \/ GoIdle \/ ClearWake \/ WakeUp \/ PopNext
    \/ ForgetDeleted \/ FinaliseDropped \/ PassCheck
    \/ SetRunning \/ StartPipeline \/ DispatchFails \/ ReleaseRunning
    \/ RunnerSettles \/ ClearFlags \/ MarkDone

Pipeline == CheckCancel \/ ChildExits \/ StageRaises \/ TailEnds

Handler(c) ==
    \/ CheckStatus(c) \/ SetFlags(c) \/ Discard(c) \/ SettleDiscarded(c)
    \/ Terminate(c) \/ Requeue(c) \/ ResetForRerun(c) \/ EnqueueExtracted(c)
    \/ RemoveJob(c)

Client ==
    \/ \E j \in Jobs : CreateJob(j) \/ RestoreJob(j)
    \/ \E c \in Callers : \E ask \in Asks : Ask(c, ask[2], ask[1])
    \/ \E j \in Jobs, after \in Jobs \cup {None} : Reorder(j, after)
    \/ StartQueue

Next ==
    \/ Worker
    \/ Pipeline
    \/ RunWakeCall
    \/ \E c \in Callers : Handler(c)
    \/ Client

(* The loop, the pipeline thread and the handler threads keep running; the *)
(* users owe the system nothing.                                           *)
Fairness ==
    /\ WF_vars(Worker)
    /\ WF_vars(Pipeline)
    /\ WF_vars(RunWakeCall)
    /\ \A c \in Callers : WF_vars(Handler(c))

SafeSpec == Init /\ [][Next]_vars

Spec == SafeSpec /\ Fairness
-----------------------------------------------------------------------------
(* Properties.  A job clients may extract again can be put back in the     *)
(* queue behind the consumer's back; these are about the others.           *)
Steady == {j \in Jobs : <<"extract", j>> \notin Asks}

InHand(j) == held = j /\ worker \in {"popped", "checked", "claimed"}

SettledBy(c, j) == at[c] = "settle" /\ target[c] = j

AskedToStop(j) ==
    \/ j \in cancelReq
    \/ \E c \in Callers : target[c] = j /\ request[c] = "trash" /\ at[c] \in {"check", "flag"}

StopsIfUnfinished(j) ==
    status[j] \in {"queued", "processing"} /\ ~(worker = "finishing" /\ held = j)
        => AskedToStop(j)

TypeOK ==
    /\ registry \in SUBSET Jobs
    /\ status \in [Jobs -> Status]
    /\ cancelReq \in SUBSET Jobs
    /\ stopReq \in SUBSET Jobs
    /\ trashed \in SUBSET Jobs
    /\ files \in SUBSET Uploads
    /\ position \in [Jobs -> Nat]
    /\ queue \in Seq(Jobs)
    /\ runningId \in Jobs \cup {None}
    /\ paused \in BOOLEAN
    /\ wake \in BOOLEAN
    /\ wakeCall \in BOOLEAN
    /\ worker \in WorkerPcs
    /\ held \in Jobs \cup {None}
    /\ pipe \in PipePcs
    /\ stagesLeft \in Nat
    /\ proc \in {"none", "alive", "killed"}
    /\ at \in [Callers -> CallPcs]
    /\ request \in [Callers -> Requests \cup {"none"}]
    /\ target \in [Callers -> Jobs \cup {None}]

(* A waiting job has exactly one place from which it will be taken further: *)
(* a slot of the queue, the consumer's hands, or the one handler that took  *)
(* it out of the queue and will settle it; and nothing else is in those     *)
(* places.  This is what #520 was about: a job that is in none of them sits *)
(* at "queued" forever, one in two of them is settled and run.              *)
OneOwner ==
    \A j \in Steady :
        LET slots == {i \in DOMAIN queue : queue[i] = j}
            hands == {w \in {"consumer"} : InHand(j)}
            settlers == {c \in Callers : SettledBy(c, j)}
            owners == Cardinality(slots) + Cardinality(hands) + Cardinality(settlers)
        IN owners = IF status[j] = "queued" THEN 1 ELSE 0

(* Once a job is done, failed, cancelled or stopped, no handler and no      *)
(* late step of the pipeline gives it another status.                      *)
SettledForGood ==
    [][\A j \in Steady : status[j] \in Finished => status'[j] = status[j]]_vars

(* Stopping a job from the Trash keeps its files, whichever of the handler, *)
(* the consumer and the runner comes to settle it (#748).                  *)
StopKeepsFiles ==
    \A j \in Steady \cap Uploads \cap registry : status[j] = "stopped" => j \in files

(* A song in the Trash is not left waiting or running: it has been asked to *)
(* stop, or its trash request is just about to ask.  ("finishing": the run *)
(* is already past the point where a stop can reach it.)                   *)
TrashStops == \A j \in Steady \cap registry \cap trashed : StopsIfUnfinished(j)

(* queue_position rises along the queue whatever was popped, discarded,     *)
(* moved or appended, so a restart that sorts by it finds the same order.  *)
PositionsFollowQueue ==
    \A i, k \in DOMAIN queue :
        i < k /\ queue[i] \in registry /\ queue[k] \in registry
            => position[queue[i]] < position[queue[k]]

(* The consumer never sleeps on work it could take: whoever made the work   *)
(* available has a wake-up under way.                                      *)
NoLostWakeup ==
    worker = "wait" /\ ~paused /\ queue # <<>> => wake \/ wakeCall

(* A cancel or a trash of an unfinished job takes effect.                  *)
CancelTakesEffect ==
    \A j \in Steady :
        j \in cancelReq /\ status[j] \notin Finished ~> status[j] \in Finished

(* A job that waits in a queue nobody paused gets its turn, provided the    *)
(* users do not rearrange the queue forever.                               *)
QueueMoves ==
    <>[][\A j, after \in Jobs \cup {None} : ~Reorder(j, after)]_vars
        => \A j \in Steady : status[j] = "queued" /\ ~paused ~> status[j] # "queued"

(* Seen from outside, the jobs nobody extracts again live as JobLifecycle   *)
(* says: one runs at a time, each ends once, and none is cancelled or       *)
(* stopped unasked.                                                        *)
Lifecycle == INSTANCE JobLifecycle WITH
    Jobs  <- Steady,
    phase <- [j \in Steady |-> status[j]],
    asked <- cancelReq \cap Steady

ImplementsLifecycle == Lifecycle!Spec

-----------------------------------------------------------------------------
(* What the code says of itself and does not keep.                         *)

(* "... the job would sit at "queued" forever: absent from the queue view,  *)
(* still counted by pending_count" (jobqueue.py:245): a queued job nobody   *)
(* is handling is in the queue, in the consumer's hands or the running one.*)
NoneStranded ==
    \A j \in registry :
        status[j] = "queued" /\ (\A c \in Callers : target[c] # j)
            => j \in ToSet(queue) \/ InHand(j) \/ j = runningId
=============================================================================

------------------------------ MODULE DemucsWorker ------------------------------
(***************************************************************************)
(* The separations and the one demucs process that serves them             *)
(* (app/pipeline/separate.py): it is kept between jobs, killed after       *)
(* anything but a success, replaced when the device is another, and        *)
(* terminated by a cancel's handler (app/api/jobs.py) that looked it up.   *)
(*                                                                         *)
(* Left out: what a separation writes, progress, and the stall watchdog,   *)
(* which ends a process as a crash does.  The queue gives one job at a     *)
(* time (ImportQueue).                                                     *)
(***************************************************************************)
EXTENDS Naturals, FiniteSets

CONSTANTS
    SepJobs, NoSepJob,
    Devices,       \* what the setting may name; "cpu" is one of them
    MaxProcesses   \* bound on the processes started

VARIABLES
    processes,   \* every demucs process there was: its device, state and whether a job failed on it
    keptProc,    \* _worker["proc"], 0 for none
    procOf,      \* registry._procs, as the separations set it
    pass,        \* where the running job's separation stands
    sepEnded,    \* how each job's separation ended
    stopAsked,   \* cancel_requested
    stopper      \* each job's cancel handler: the process it looked up

sepVars == <<processes, keptProc, procOf, pass, sepEnded, stopAsked, stopper>>

ASSUME SepAssumption == "cpu" \in Devices /\ NoSepJob \notin SepJobs /\ MaxProcesses \in Nat \ {0}

Unborn == [device |-> "cpu", state |-> "unborn", soiled |-> FALSE]
NoPass == [job |-> NoSepJob, at |-> "none", device |-> "cpu", retry |-> FALSE, proc |-> 0, ok |-> "unknown"]

SepInit ==
    /\ processes = [w \in 1..MaxProcesses |-> Unborn]
    /\ keptProc = 0 /\ procOf = [j \in SepJobs |-> 0]
    /\ pass = NoPass
    /\ sepEnded = [j \in SepJobs |-> "not"] /\ stopAsked = [j \in SepJobs |-> FALSE]
    /\ stopper = [j \in SepJobs |-> [at |-> "none", proc |-> 0]]

(* poll() is None: also while a terminate is on its way to the process.    *)
Polls(w) == w # 0 /\ processes[w].state \in {"live", "dying"}

(* _kill_worker(): popped, terminated and reaped before anything goes on.  *)
Killed(ps) == IF keptProc = 0 THEN ps ELSE [ps EXCEPT ![keptProc].state = "dead"]

----------------------------------------------------------------------------
(* separate(): the device is read once for the job.                        *)
SeparateBegins(j, device) ==
    /\ pass.job = NoSepJob /\ sepEnded[j] = "not" /\ ~stopAsked[j]
    /\ pass' = [NoPass EXCEPT !.job = j, !.at = "ask", !.device = device]
    /\ UNCHANGED <<processes, keptProc, procOf, sepEnded, stopAsked, stopper>>

Serves(w, device) == Polls(w) /\ processes[w].device = device

(* A bug to catch: a new process for another device, the old one left.     *)
GetWorkerBeside ==
    /\ pass.at = "ask"
    /\ \/ /\ Serves(keptProc, pass.device) /\ pass' = [pass EXCEPT !.at = "set", !.proc = keptProc]
          /\ UNCHANGED <<processes, keptProc>>
       \/ /\ ~Serves(keptProc, pass.device)
          /\ \E w \in 1..MaxProcesses :
                /\ processes[w].state = "unborn" /\ \A v \in 1..(w - 1) : processes[v].state # "unborn"
                /\ processes' = [processes EXCEPT ![w] =
                                    [device |-> pass.device, state |-> "live", soiled |-> FALSE]]
                /\ keptProc' = w /\ pass' = [pass EXCEPT !.at = "set", !.proc = w]
    /\ UNCHANGED <<procOf, sepEnded, stopAsked, stopper>>

(* The kept process when it lives and has the device, else a new one in    *)
(* its place.                                                              *)
GetWorker ==
    /\ pass.at = "ask"
    /\ \/ /\ Serves(keptProc, pass.device) /\ pass' = [pass EXCEPT !.at = "set", !.proc = keptProc]
          /\ UNCHANGED <<processes, keptProc>>
       \/ /\ ~Serves(keptProc, pass.device)
          /\ \E w \in 1..MaxProcesses :
                /\ processes[w].state = "unborn" /\ \A v \in 1..(w - 1) : processes[v].state # "unborn"
                /\ processes' = [Killed(processes) EXCEPT ![w] =
                                    [device |-> pass.device, state |-> "live", soiled |-> FALSE]]
                /\ keptProc' = w /\ pass' = [pass EXCEPT !.at = "set", !.proc = w]
    /\ UNCHANGED <<procOf, sepEnded, stopAsked, stopper>>

SetProc ==
    /\ pass.at = "set" /\ pass' = [pass EXCEPT !.at = "send"]
    /\ procOf' = [procOf EXCEPT ![pass.job] = pass.proc]
    /\ UNCHANGED <<processes, keptProc, sepEnded, stopAsked, stopper>>

(* The request is written; a broken pipe is a failure of the pass, and the *)
(* cancel is not looked at.                                                *)
Send ==
    /\ pass.at = "send"
    /\ \/ /\ Polls(pass.proc) /\ pass' = [pass EXCEPT !.at = "reading"]
          /\ UNCHANGED <<processes, keptProc, procOf>>
       \/ /\ processes[pass.proc].state \in {"dying", "dead"}
          /\ procOf' = [procOf EXCEPT ![pass.job] = 0]
          /\ processes' = Killed(processes) /\ keptProc' = 0
          /\ pass' = [pass EXCEPT !.at = "decide", !.ok = "no"]
    /\ UNCHANGED <<sepEnded, stopAsked, stopper>>

(* The read loop ends: done, an error line, the end of the pipe, or an     *)
(* exception out of the loop.                                              *)
ReadLoopEnds ==
    /\ pass.at = "reading"
    /\ \E ok \in {"yes", "no", "unknown"} :
          /\ ok = "yes" => Polls(pass.proc)
          /\ pass' = [pass EXCEPT !.at = "close", !.ok = ok]
          /\ processes' = [processes EXCEPT ![pass.proc].soiled = @ \/ ok # "yes"]
    /\ UNCHANGED <<keptProc, procOf, sepEnded, stopAsked, stopper>>

(* A bug to catch: the kill below the finally, that an exception skips.    *)
KillsAfterAnError(ok) == ok = "no"
KillsAfter(ok) == ok # "yes"

(* The finally of _run_demucs() and what comes after it.                   *)
Close ==
    /\ pass.at = "close"
    /\ procOf' = [procOf EXCEPT ![pass.job] = 0]
    /\ IF KillsAfter(pass.ok) THEN processes' = Killed(processes) /\ keptProc' = 0
                              ELSE UNCHANGED <<processes, keptProc>>
    /\ pass' = [pass EXCEPT !.at = IF pass.ok = "unknown" THEN "raised" ELSE "asked"]
    /\ UNCHANGED <<sepEnded, stopAsked, stopper>>

Ends(how) == sepEnded' = [sepEnded EXCEPT ![pass.job] = how] /\ pass' = NoPass

(* An exception, or an error with a cancel: the runner tells by the flag.  *)
Raised ==
    /\ pass.at = "raised" /\ Ends(IF stopAsked[pass.job] THEN "cancelled" ELSE "failed")
    /\ UNCHANGED <<processes, keptProc, procOf, stopAsked, stopper>>

AskCancelled ==
    /\ pass.at = "asked"
    /\ IF stopAsked[pass.job] THEN Ends("cancelled")
       ELSE pass' = [pass EXCEPT !.at = "decide"] /\ UNCHANGED sepEnded
    /\ UNCHANGED <<processes, keptProc, procOf, stopAsked, stopper>>

(* separate(): a pass that failed on another device is tried once more on  *)
(* the CPU, after a second look at the flag.                               *)
MayRetry == pass.device # "cpu" /\ ~pass.retry
Decide ==
    /\ pass.at = "decide"
    /\ \/ pass.ok = "yes" /\ Ends("done")
       \/ pass.ok # "yes" /\ ~MayRetry /\ pass' = [pass EXCEPT !.at = "raised"] /\ UNCHANGED sepEnded
       \/ pass.ok # "yes" /\ MayRetry /\ pass' = [pass EXCEPT !.at = "clean"] /\ UNCHANGED sepEnded
    /\ UNCHANGED <<processes, keptProc, procOf, stopAsked, stopper>>

RetryOnCpu ==
    /\ pass.at = "clean"
    /\ IF stopAsked[pass.job] THEN Ends("cancelled")
       ELSE /\ pass' = [NoPass EXCEPT !.job = pass.job, !.at = "ask", !.retry = TRUE]
            /\ UNCHANGED sepEnded
    /\ UNCHANGED <<processes, keptProc, procOf, stopAsked, stopper>>

----------------------------------------------------------------------------
(* A process that was told to ends, or ends by itself.                     *)
ProcessEnds(w) ==
    /\ Polls(w) /\ processes' = [processes EXCEPT ![w].state = "dead"]
    /\ UNCHANGED <<keptProc, procOf, pass, sepEnded, stopAsked, stopper>>

(* _cancel_pipeline() of a running job: the flag, the look-up, the signal. *)
StopAsked(j) ==
    /\ pass.job = j /\ stopper[j].at = "none" /\ stopAsked' = [stopAsked EXCEPT ![j] = TRUE]
    /\ stopper' = [stopper EXCEPT ![j].at = "look"]
    /\ UNCHANGED <<processes, keptProc, procOf, pass, sepEnded>>

StopLooks(j) ==
    /\ stopper[j].at = "look"
    /\ stopper' = [stopper EXCEPT ![j] =
          IF pass.job = j /\ Polls(procOf[j]) THEN [at |-> "signal", proc |-> procOf[j]]
          ELSE [at |-> "over", proc |-> 0]]
    /\ UNCHANGED <<processes, keptProc, procOf, pass, sepEnded, stopAsked>>

StopSignals(j) ==
    /\ stopper[j].at = "signal" /\ stopper' = [stopper EXCEPT ![j].at = "over"]
    /\ processes' = [processes EXCEPT ![stopper[j].proc].state = IF @ = "live" THEN "dying" ELSE @]
    /\ UNCHANGED <<keptProc, procOf, pass, sepEnded, stopAsked>>

SepNext ==
    \/ \E j \in SepJobs : \/ \E d \in Devices : SeparateBegins(j, d)
                          \/ StopAsked(j) \/ StopLooks(j) \/ StopSignals(j)
    \/ GetWorker \/ SetProc \/ Send \/ ReadLoopEnds \/ Close \/ Raised \/ AskCancelled
    \/ Decide \/ RetryOnCpu
    \/ \E w \in 1..MaxProcesses : ProcessEnds(w)

SepSpec == SepInit /\ [][SepNext]_sepVars

----------------------------------------------------------------------------
(* No separation is given to a process on which one went wrong (its state  *)
(* on the GPU is not vouched for, #514); no process lives on that nothing  *)
(* knows of, holding the GPU; a look-up finds none but the running job's.  *)
WorkersAreClean ==
    /\ pass.at = "reading" => ~processes[pass.proc].soiled
    /\ \A w \in 1..MaxProcesses : Polls(w) => w = keptProc
    /\ \A j \in SepJobs : procOf[j] # 0 => pass.job = j /\ procOf[j] = pass.proc
=============================================================================

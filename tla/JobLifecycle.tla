----------------------------- MODULE JobLifecycle -----------------------------
(***************************************************************************)
(* What an import is to the person who started it, with no queue, threads  *)
(* or flags: a job waits, runs alone, and ends once and for all.  It ends  *)
(* done or failed by itself, and cancelled or stopped only if somebody     *)
(* asked for that before it ended.  ImportQueue implements this (Steady,   *)
(* the jobs nobody extracts again).                                        *)
(***************************************************************************)
CONSTANT Jobs

VARIABLES phase,   \* where each job is in its life
          asked    \* the jobs somebody asked to cancel or to stop

vars == <<phase, asked>>

Ended == {"done", "error", "cancelled", "stopped"}

Init ==
    /\ phase \in [Jobs -> {"new", "queued"}]
    /\ asked = {}

Submit(j) ==
    /\ phase[j] = "new"
    /\ phase' = [phase EXCEPT ![j] = "queued"]
    /\ UNCHANGED asked

(* One job at a time: separate.py has one demucs worker for all of them.   *)
Begin(j) ==
    /\ phase[j] = "queued"
    /\ \A k \in Jobs : phase[k] # "processing"
    /\ phase' = [phase EXCEPT ![j] = "processing"]
    /\ UNCHANGED asked

Fail(j) ==
    /\ phase[j] \in {"queued", "processing"}
    /\ phase' = [phase EXCEPT ![j] = "error"]
    /\ UNCHANGED asked

Complete(j) ==
    /\ phase[j] = "processing"
    /\ phase' = [phase EXCEPT ![j] = "done"]
    /\ UNCHANGED asked

AskToStop(j) ==
    /\ asked' = asked \cup {j}
    /\ UNCHANGED phase

(* A request that came too late is dropped while the job completes.        *)
Overlook(j) ==
    /\ phase[j] = "processing"
    /\ asked' = asked \ {j}
    /\ UNCHANGED phase

Halt(j) ==
    /\ phase[j] \in {"queued", "processing"}
    /\ j \in asked
    /\ \E end \in {"cancelled", "stopped"} : phase' = [phase EXCEPT ![j] = end]
    /\ UNCHANGED asked

Next ==
    \E j \in Jobs :
        \/ Submit(j) \/ Begin(j) \/ Fail(j) \/ Complete(j)
        \/ AskToStop(j) \/ Overlook(j) \/ Halt(j)

Spec == Init /\ [][Next]_vars
=============================================================================

------------------------------- MODULE SetupWizard -------------------------------
(***************************************************************************)
(* The first-run window of the desktop app: runSetup() asks the shell for  *)
(* one command after another, any of which may fail, until the backend is  *)
(* up and the window turns to it.  "Retry" starts it again, and so does    *)
(* the app.                                                                *)
(***************************************************************************)
EXTENDS Integers, SequencesExt

CONSTANTS
    SetupScenes,  \* set of scenes: the install the app finds
    MaxSetups     \* bound: runs of runSetup()

ASSUME SetupAssumption ==
    /\ MaxSetups \in Nat
    /\ SetupScenes \subseteq [python : {"none", "old", "new"}, archive : {"none", "whole", "torn"},
                              ffmpeg : BOOLEAN, torch : {"open", "settled"}, backend : BOOLEAN]

VARIABLES
    setups,    \* runs of runSetup(): what each saw, and what it waits for
    commands,  \* commands the shell's one thread has yet to run
    install,   \* what is on the disk, and the backend
    screen     \* the steps, the error and the Retry button

setupVars == <<setups, commands, install, screen>>

(* python: the runtime installed, "new" being the one this app expects.    *)
(* torch: the device on record, "open" when it is to be looked for again.  *)
SetupScene(python, archive, ffmpeg, torch) ==
    [python |-> python, archive |-> archive, ffmpeg |-> ffmpeg, torch |-> torch, backend |-> FALSE]

Steps == {"runtime", "workspace", "ffmpeg", "gpu", "model", "backend"}
NoSteps == [s \in Steps |-> ""]
BlankScreen == [steps |-> NoSteps, error |-> FALSE, retry |-> FALSE, opened |-> FALSE]
Probed == [python |-> install.python # "none", ffmpeg |-> install.ffmpeg, torch |-> install.torch]

NewRun == [n |-> Cardinality(setups) + 1, at |-> "probe", saw |-> [python |-> FALSE, ffmpeg |-> FALSE, torch |-> "open"]]
Fresh(steps) == [BlankScreen EXCEPT !.steps = [steps EXCEPT !["runtime"] = "active"]]

SetupInit ==
    /\ install \in SetupScenes
    /\ setups = {[n |-> 1, at |-> "probe", saw |-> [python |-> FALSE, ffmpeg |-> FALSE, torch |-> "open"]]}
    /\ commands = <<1>>
    /\ screen = Fresh(NoSteps)

----------------------------------------------------------------------------
(* A run goes on: its next command queues behind the others'.              *)

Live == {r \in setups : r.at \notin {"failed", "over"}}

NextCommand(r, command, saw) ==
    /\ setups' = (setups \ {r}) \cup {[r EXCEPT !.at = command, !.saw = saw]}
    /\ commands' = IF command = "download" THEN Tail(commands) ELSE Append(Tail(commands), r.n)

Shows(steps) == screen' = [screen EXCEPT !.steps = steps]
Begins(done, step) == [screen.steps EXCEPT ![done] = "done", ![step] = "active"]

(* showError(): what is active has failed.                                 *)
WithError == [screen EXCEPT !.error = TRUE, !.retry = TRUE,
                            !.steps = [s \in Steps |-> IF @[s] = "active" THEN "error" ELSE @[s]]]

Fails(r) ==
    /\ setups' = (setups \ {r}) \cup {[r EXCEPT !.at = "failed"]}
    /\ commands' = SelectSeq(commands, LAMBDA n : n # r.n)
    /\ screen' = WithError

Turn(r, command) == r.at = command /\ commands # <<>> /\ Head(commands) = r.n

----------------------------------------------------------------------------
(* The runtime.                                                            *)

Probe(r) ==
    /\ Turn(r, "probe")
    /\ NextCommand(r, "status", Probed) /\ UNCHANGED <<install, screen>>

(* Everything is there, of the version this app was built for.             *)
Settled(r) ==
    r.saw.python /\ r.saw.ffmpeg /\ r.saw.torch = "settled" /\ install.python = "new"

Status(r) ==
    /\ Turn(r, "status")
    /\ IF Settled(r)
       THEN /\ NextCommand(r, "backend", r.saw)
            /\ Shows([s \in Steps |-> IF s = "backend" THEN "active" ELSE "done"])
       ELSE IF ~r.saw.python \/ install.python # "new"
       THEN NextCommand(r, "pack", r.saw) /\ UNCHANGED screen
       ELSE NextCommand(r, "workspace", r.saw) /\ Shows(Begins("runtime", "workspace"))
    /\ UNCHANGED install

(* installRuntimePack(): an archive that is there is verified first.       *)
PackStatus(r) ==
    /\ Turn(r, "pack")
    /\ NextCommand(r, IF install.archive = "none" THEN "download" ELSE "verify", r.saw)
    /\ UNCHANGED <<install, screen>>

VerifyLocal(r) ==
    /\ Turn(r, "verify")
    /\ NextCommand(r, IF install.archive = "whole" THEN "extract" ELSE "download", r.saw)
    /\ UNCHANGED <<install, screen>>

(* The download does not hold the shell's thread.                          *)
Download(r, got) ==
    /\ r.at = "download"
    /\ install' = [install EXCEPT !.archive = got]
    /\ IF got = "whole"
       THEN /\ setups' = (setups \ {r}) \cup {[r EXCEPT !.at = "extract"]}
            /\ commands' = Append(commands, r.n) /\ UNCHANGED screen
       ELSE Fails(r)

(* extract_runtime_pack(): moved into place whole, and the archive goes.   *)
Extract(r) ==
    /\ Turn(r, "extract") /\ install.archive = "whole"
    /\ install' = [install EXCEPT !.python = "new", !.archive = "none"]
    /\ NextCommand(r, "reprobe", r.saw) /\ UNCHANGED screen

Reprobe(r) ==
    /\ Turn(r, "reprobe")
    /\ IF Probed.python
       THEN NextCommand(r, "workspace", Probed) /\ Shows(Begins("runtime", "workspace"))
       ELSE Fails(r)
    /\ UNCHANGED install

----------------------------------------------------------------------------
(* What the runtime needs.                                                 *)

Workspace(r) ==
    /\ Turn(r, "workspace")
    /\ IF r.saw.ffmpeg
       THEN NextCommand(r, "gpu", r.saw) /\ Shows([Begins("workspace", "gpu") EXCEPT !["ffmpeg"] = "done"])
       ELSE NextCommand(r, "ffmpeg", r.saw) /\ Shows(Begins("workspace", "ffmpeg"))
    /\ UNCHANGED install

Ffmpeg(r) ==
    /\ Turn(r, "ffmpeg")
    /\ install' = [install EXCEPT !.ffmpeg = TRUE]
    /\ NextCommand(r, "gpu", r.saw) /\ Shows(Begins("ffmpeg", "gpu"))

(* A GPU that could not be used is told as an error, Retry and all, while  *)
(* this run goes on.                                                       *)
Gpu(r, device, told) ==
    /\ Turn(r, "gpu")
    /\ install' = [install EXCEPT !.torch = device]
    /\ NextCommand(r, "model", r.saw)
    /\ screen' = [(IF told THEN WithError ELSE screen) EXCEPT !.steps["gpu"] = "done", !.steps["model"] = "active"]

(* Models that do not come are fetched when they are first used.           *)
Models(r) ==
    /\ Turn(r, "model")
    /\ NextCommand(r, "backend", r.saw) /\ Shows(Begins("model", "backend"))
    /\ UNCHANGED install

(* start_backend(): one that is up is the answer.                          *)
StartBackend(r) ==
    /\ Turn(r, "backend")
    /\ install' = [install EXCEPT !.backend = TRUE]
    /\ setups' = {[s EXCEPT !.at = "over"] : s \in setups} /\ commands' = <<>>
    /\ screen' = [screen EXCEPT !.opened = TRUE, !.steps["backend"] = "done"]

(* Any command but the models' may fail; a swap that fails half-way leaves *)
(* no runtime.                                                             *)
CommandFails(r) ==
    /\ r \in Live /\ r.at \notin {"model", "download"} /\ Turn(r, r.at)
    /\ \E p \in (IF r.at = "extract" THEN {"none", install.python} ELSE {install.python}) :
          install' = [install EXCEPT !.python = p]
    /\ IF r.at = "verify"
       THEN NextCommand(r, "download", r.saw) /\ UNCHANGED screen
       ELSE Fails(r)

----------------------------------------------------------------------------
(* Again.                                                                  *)

PressRetry ==
    /\ screen.retry /\ ~screen.opened /\ Cardinality(setups) < MaxSetups
    /\ setups' = setups \cup {NewRun}
    /\ commands' = Append(commands, NewRun.n)
    /\ screen' = Fresh(NoSteps) /\ UNCHANGED install

(* The app is quit, or dies, and is started again.                         *)
Relaunch ==
    /\ Cardinality(setups) < MaxSetups
    /\ setups' = {[s EXCEPT !.at = "over"] : s \in setups} \cup {NewRun}
    /\ commands' = <<NewRun.n>>
    /\ install' = [install EXCEPT !.backend = FALSE]
    /\ screen' = Fresh(NoSteps)

SetupNext ==
    \/ PressRetry \/ Relaunch
    \/ \E r \in Live :
         \/ Probe(r) \/ Status(r) \/ PackStatus(r) \/ VerifyLocal(r) \/ Extract(r) \/ Reprobe(r)
         \/ Workspace(r) \/ Ffmpeg(r) \/ Models(r) \/ StartBackend(r) \/ CommandFails(r)
         \/ \E got \in {"whole", "torn"} : Download(r, got)
         \/ \E device \in {"settled", "open"}, told \in BOOLEAN : Gpu(r, device, told)

SetupSpec == SetupInit /\ [][SetupNext]_setupVars

----------------------------------------------------------------------------
(* What is expected.                                                       *)

(* The window turns to a backend that runs on the runtime this app was     *)
(* built for, with an FFmpeg: after an update too, and whatever was left   *)
(* by a setup that failed, was quit or was retried.                        *)
OpensReady == screen.opened => install.backend /\ install.python = "new" /\ install.ffmpeg

(* A setup that is over has opened StemDeck or offers Retry.               *)
NeverStranded == Live = {} => screen.opened \/ screen.retry

(* A setup ends, and in a StemDeck that runs.                              *)
SetupIsSound == OpensReady /\ NeverStranded
=============================================================================

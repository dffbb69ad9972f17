------------------------------- MODULE AppUpdate -------------------------------
(***************************************************************************)
(* A new release: the check that offers it, the dialog that looks whether  *)
(* it can be applied in place, and the downloads and the swap the desktop  *)
(* shell makes of it, all of which a second press can start again.         *)
(***************************************************************************)
EXTENDS Integers, FiniteSets

CONSTANTS
    UpdateScenes,  \* set of scenes: the release, what the user does
    MaxDownloads   \* bound: downloads started

ASSUME UpdateAssumption ==
    /\ MaxDownloads \in Nat
    /\ UpdateScenes \subseteq [acts : SUBSET {"open", "dismiss", "reload"}, gestures : Nat,
                               fits : BOOLEAN, assets : BOOLEAN, dev : BOOLEAN,
                               dismissed : BOOLEAN]
    /\ \A s \in UpdateScenes : ~s.dismissed

VARIABLES
    notice,  \* the page: its version, the card, the dialog and its buttons
    openings, \* runs of openReleaseDialog(): waiting for the plan
    fetches, \* downloads the shell is making, by their stage
    disk,    \* the shell's files, and what is installed
    updateScene \* the scene, and what is left of its gestures

updateVars == <<notice, openings, fetches, disk, updateScene>>

(* fits: the release needs the Python packages this install has.  assets:  *)
(* it carries the app layer.  dev: the install is no release.              *)
UpdateScene(acts, gestures, fits, assets, dev) ==
    [acts |-> acts, gestures |-> gestures, fits |-> fits, assets |-> assets, dev |-> dev,
     dismissed |-> FALSE]

(* version: "fallback" until the server told it.  download, apply: the     *)
(* buttons, "off", "ready" or "busy".                                      *)
FreshPage == [version |-> "fallback", checked |-> FALSE, card |-> FALSE, dialog |-> FALSE,
              download |-> "off", apply |-> "off", full |-> FALSE]

(* Files by the download that made them; 0 is none.  whole: those with all *)
(* their bytes; mixed: those two downloads write to.                       *)
UpdateInit ==
    /\ updateScene \in UpdateScenes
    /\ notice = FreshPage /\ openings = 0 /\ fetches = {}
    /\ disk = [tmp |-> 0, archive |-> 0, recorded |-> FALSE, whole |-> {}, mixed |-> {},
               started |-> 0, installed |-> "old"]

Presses(what) == what \in updateScene.acts /\ updateScene.gestures > 0
Pressed == updateScene' = [updateScene EXCEPT !.gestures = @ - 1]

----------------------------------------------------------------------------
(* The check, once per page.                                               *)

(* loadCurrentVersion(): without an answer the fallback stands.            *)
LoadCurrentVersion ==
    /\ ~notice.checked /\ notice.version = "fallback"
    /\ notice' = [notice EXCEPT !.version = disk.installed]
    /\ UNCHANGED <<openings, fetches, disk, updateScene>>

(* Not the version that runs, nothing to tell a source build, nothing that *)
(* was dismissed.                                                          *)
Offers ==
    /\ notice.version # "new"
    /\ ~(updateScene.dev /\ notice.version # "fallback")
    /\ ~updateScene.dismissed

CheckForUpdate ==
    /\ ~notice.checked
    /\ notice' = [notice EXCEPT !.checked = TRUE, !.card = Offers]
    /\ UNCHANGED <<openings, fetches, disk, updateScene>>

DismissCard ==
    /\ Presses("dismiss") /\ notice.card
    /\ notice' = [notice EXCEPT !.card = FALSE]
    /\ updateScene' = [updateScene EXCEPT !.gestures = @ - 1, !.dismissed = TRUE]
    /\ UNCHANGED <<openings, fetches, disk>>

(* The page alone starts anew: what the shell does goes on.                *)
ReloadUpdatePage ==
    /\ Presses("reload") /\ Pressed
    /\ notice' = FreshPage /\ openings' = 0
    /\ fetches' = {[f EXCEPT !.heard = FALSE] : f \in fetches}
    /\ UNCHANGED disk

----------------------------------------------------------------------------
(* The dialog.                                                             *)

OpenReleaseDialog ==
    /\ Presses("open") /\ Pressed /\ notice.card
    /\ notice' = [notice EXCEPT !.full = FALSE]
    /\ openings' = openings + 1
    /\ UNCHANGED <<fetches, disk>>

(* resolveInAppUpdatePlan(): check_app_update says whether the runtime     *)
(* fits; a failure on the way is a "no" too.                               *)
Plan == updateScene.assets /\ updateScene.fits

(* The plan comes: the buttons are as for a new download, whatever one of  *)
(* them was doing.                                                         *)
DialogShows(failed) ==
    /\ openings > 0 /\ openings' = openings - 1
    /\ notice' = IF Plan /\ ~failed
                 THEN [notice EXCEPT !.dialog = TRUE, !.download = "ready", !.apply = "off"]
                 ELSE [notice EXCEPT !.dialog = TRUE, !.download = "off", !.apply = "off",
                                     !.full = updateScene.assets /\ ~updateScene.fits /\ ~failed]
    /\ UNCHANGED <<fetches, disk, updateScene>>

CloseReleaseDialog ==
    /\ Presses("open") /\ Pressed /\ notice.dialog
    /\ notice' = [notice EXCEPT !.dialog = FALSE]
    /\ UNCHANGED <<openings, fetches, disk>>

----------------------------------------------------------------------------
(* download_app_update(): the archive of an earlier one goes first; bytes  *)
(* are written beside it and renamed; then they are verified.              *)

Goes(f, stage) == (fetches \ {f}) \cup {[f EXCEPT !.stage = stage]}

PressDownload ==
    /\ notice.dialog /\ notice.download = "ready" /\ disk.started < MaxDownloads
    /\ notice' = [notice EXCEPT !.download = "busy"]
    /\ disk' = [disk EXCEPT !.archive = 0, !.tmp = 0, !.started = @ + 1]
    /\ fetches' = fetches \cup
         {[id |-> disk.started + 1, stage |-> "asking", file |-> 0, heard |-> TRUE]}
    /\ UNCHANGED <<openings, updateScene>>

(* The file is made, or the one another download writes is cut short.      *)
DownloadBegins(f) ==
    /\ f.stage = "asking"
    /\ LET file == IF disk.tmp = 0 THEN f.id ELSE disk.tmp
       IN /\ disk' = [disk EXCEPT !.tmp = file, !.mixed = IF file = f.id THEN @ ELSE @ \cup {file}]
          /\ fetches' = (fetches \ {f}) \cup {[f EXCEPT !.stage = "writing", !.file = file]}
    /\ UNCHANGED <<notice, openings, updateScene>>

DownloadWritten(f) ==
    /\ f.stage = "writing"
    /\ LET whole == IF f.file \in disk.mixed THEN disk.whole ELSE disk.whole \cup {f.file}
       IN IF disk.tmp = 0
          THEN disk' = [disk EXCEPT !.whole = whole] /\ fetches' = Goes(f, "failed")
          ELSE /\ disk' = [disk EXCEPT !.whole = whole, !.archive = disk.tmp, !.tmp = 0]
               /\ fetches' = Goes(f, "verify")
    /\ UNCHANGED <<notice, openings, updateScene>>

DownloadVerified(f) ==
    /\ f.stage = "verify"
    /\ IF disk.archive \in disk.whole
       THEN disk' = [disk EXCEPT !.recorded = TRUE] /\ fetches' = Goes(f, "done")
       ELSE disk' = [disk EXCEPT !.archive = 0] /\ fetches' = Goes(f, "failed")
    /\ UNCHANGED <<notice, openings, updateScene>>

DownloadFails(f) ==
    /\ f.stage \in {"asking", "writing"} /\ fetches' = Goes(f, "failed")
    /\ UNCHANGED <<notice, openings, disk, updateScene>>

DownloadAnswers(f) ==
    /\ f.stage \in {"done", "failed"} /\ fetches' = fetches \ {f}
    /\ notice' = IF ~f.heard THEN notice
                 ELSE IF f.stage = "done" THEN [notice EXCEPT !.download = "off", !.apply = "ready"]
                 ELSE [notice EXCEPT !.download = IF @ = "busy" THEN "ready" ELSE @]
    /\ UNCHANGED <<openings, disk, updateScene>>

----------------------------------------------------------------------------
(* apply_app_update(): the bytes are verified again, staged whole, swapped *)
(* in, and the app starts anew.                                            *)

(* A slip of the code: the file at the path is the one that was verified.  *)
AppliesRecorded == disk.archive # 0 /\ disk.recorded

AppliesVerified == disk.archive # 0 /\ disk.recorded /\ disk.archive \in disk.whole

PressApply ==
    /\ notice.dialog /\ notice.apply = "ready"
    /\ IF AppliesVerified
       THEN /\ disk' = [disk EXCEPT !.archive = 0,
                          !.installed = IF disk.archive \in disk.whole THEN "new" ELSE "torn"]
            /\ notice' = FreshPage /\ openings' = 0 /\ fetches' = {}
       ELSE /\ disk' = [disk EXCEPT !.archive = IF disk.recorded THEN 0 ELSE @]
            /\ UNCHANGED <<notice, openings, fetches>>
    /\ UNCHANGED updateScene

UpdateNext ==
    \/ LoadCurrentVersion \/ CheckForUpdate \/ DismissCard \/ ReloadUpdatePage
    \/ OpenReleaseDialog \/ CloseReleaseDialog \/ PressDownload \/ PressApply
    \/ \E failed \in BOOLEAN : DialogShows(failed)
    \/ \E f \in fetches : \/ DownloadBegins(f) \/ DownloadWritten(f) \/ DownloadVerified(f)
                          \/ DownloadFails(f) \/ DownloadAnswers(f)

UpdateSpec == UpdateInit /\ [][UpdateNext]_updateVars

----------------------------------------------------------------------------
(* What is expected.                                                       *)

(* Only bytes that were verified are installed, however many downloads     *)
(* wrote over one another before "Restart to update"; and only a release   *)
(* whose Python packages this install has is applied in place.             *)
OnlyVerifiedIsInstalled ==
    disk.installed # "torn" /\ (disk.installed = "new" => updateScene.fits /\ updateScene.assets)

(* A release that was dismissed is not offered again.                      *)
DismissedStaysDismissed == updateScene.dismissed => ~notice.card

(* An update is verified, and not pressed on anyone.                       *)
UpdatesAreSafe == OnlyVerifiedIsInstalled /\ DismissedStaysDismissed
=============================================================================

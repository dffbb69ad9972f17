------------------------------ MODULE Panels_proofs ------------------------------
(***************************************************************************)
(* Theorems about the parts of the page that stand alone, and about the    *)
(* shell's two windows.  Each part has its own inductive invariant; none   *)
(* of them shares a variable with another.                                 *)
(***************************************************************************)
EXTENDS Panels, Shell, LibraryRepair, DataLemmas, FiniteSetTheorems, TLAPS

-----------------------------------------------------------------------------
(* The update.  A release whose packages this install does not have never  *)
(* gets as far as a button, and what has no button is never applied.       *)

NoticeStates ==
    [version : {"fallback", "old", "new"}, checked : BOOLEAN, card : BOOLEAN, dialog : BOOLEAN,
     download : {"off", "ready", "busy"}, apply : {"off", "ready"}, full : BOOLEAN]
SceneStates ==
    [acts : SUBSET {"open", "dismiss", "reload"}, gestures : Int, fits : BOOLEAN,
     assets : BOOLEAN, dev : BOOLEAN, dismissed : BOOLEAN]
Disks ==
    [tmp : Nat, archive : Nat, recorded : BOOLEAN, whole : SUBSET Nat, mixed : SUBSET Nat,
     started : Nat, installed : {"old", "new"}]
Fetches ==
    [id : Nat, stage : {"asking", "writing", "verify", "done", "failed"}, file : Nat,
     heard : BOOLEAN]

UpdateTypeOK ==
    /\ notice \in NoticeStates /\ updateScene \in SceneStates
    /\ disk \in Disks /\ fetches \subseteq Fetches

(* A release that is offered, on its way or installed is one that fits.    *)
Fitting ==
    /\ notice.download # "off" \/ notice.apply = "ready" \/ fetches # {} => Plan
    /\ disk.installed = "new" => Plan

UpdateInv == UpdateTypeOK /\ Fitting /\ DismissedStaysDismissed

LEMMA UpdateInitOK == UpdateInit => UpdateInv
<1> SUFFICES ASSUME UpdateInit PROVE UpdateInv
  OBVIOUS
<1>1. updateScene \in SceneStates /\ ~updateScene.dismissed
  BY UpdateAssumption DEF UpdateInit, SceneStates
<1>2. notice \in NoticeStates /\ notice.download = "off" /\ notice.apply = "off"
  BY DEF UpdateInit, FreshPage, NoticeStates
<1>3. disk \in Disks /\ disk.installed = "old"
  BY DEF UpdateInit, Disks
<1> QED BY <1>1, <1>2, <1>3
        DEF UpdateInit, UpdateInv, UpdateTypeOK, Fitting, DismissedStaysDismissed

(* The scene: what the release is does not change.                         *)
LEMMA SceneSteps ==
    ASSUME updateScene \in SceneStates, UpdateNext
    PROVE  /\ updateScene' \in SceneStates /\ (Plan' <=> Plan)
           /\ updateScene.dismissed => updateScene'.dismissed
           /\ updateScene'.dismissed => updateScene.dismissed \/ ~notice'.card
<1>1. CASE updateScene' = [updateScene EXCEPT !.gestures = @ - 1]
  BY <1>1 DEF SceneStates, Plan
<1>2. CASE DismissCard
  <2>1. PICK n : n = updateScene.gestures - 1
    OBVIOUS
  <2>2. n \in Int /\ updateScene' = [updateScene EXCEPT !.gestures = n, !.dismissed = TRUE]
    BY <1>2, <2>1 DEF DismissCard, SceneStates
  <2>3. updateScene' \in SceneStates /\ Plan' = Plan /\ updateScene'.dismissed
    BY <2>2 DEF SceneStates, Plan
  <2>4. ~notice'.card
    BY <1>2 DEF DismissCard
  <2> QED BY <2>3, <2>4
<1>3. CASE UNCHANGED updateScene
  BY <1>3 DEF Plan
<1>4. \/ updateScene' = [updateScene EXCEPT !.gestures = @ - 1]
      \/ DismissCard \/ UNCHANGED updateScene
  BY DEF UpdateNext, LoadCurrentVersion, CheckForUpdate, ReloadUpdatePage, OpenReleaseDialog,
         CloseReleaseDialog, PressDownload, PressApply, DialogShows, DownloadBegins,
         DownloadWritten, DownloadVerified, DownloadFails, DownloadAnswers, Pressed
<1> QED BY <1>1, <1>2, <1>3, <1>4


(* What a download does to the shell's files.                              *)
LEMMA DiskEdits ==
    ASSUME NEW d \in Disks, NEW whole \in SUBSET Nat,
           NEW e \in {[d EXCEPT !.whole = whole], [d EXCEPT !.recorded = TRUE], [d EXCEPT !.archive = 0],
                      [d EXCEPT !.whole = whole, !.archive = d.tmp, !.tmp = 0], d}
    PROVE  e \in Disks /\ e.installed = d.installed
<1>1. CASE e = [d EXCEPT !.whole = whole]
  BY <1>1 DEF Disks
<1>2. CASE e = [d EXCEPT !.recorded = TRUE]
  BY <1>2 DEF Disks
<1>3. CASE e = [d EXCEPT !.archive = 0]
  BY <1>3 DEF Disks
<1>4. CASE e = [d EXCEPT !.whole = whole, !.archive = d.tmp, !.tmp = 0]
  BY <1>4 DEF Disks
<1> QED BY <1>1, <1>2, <1>3, <1>4

(* The page.                                                               *)
LEMMA NoticeSteps ==
    ASSUME UpdateInv, UpdateNext
    PROVE  /\ notice' \in NoticeStates
           /\ notice'.download # "off" \/ notice'.apply = "ready" => Plan
           /\ updateScene.dismissed => ~notice'.card
<1> DEFINE Result == /\ notice' \in NoticeStates
                     /\ notice'.download # "off" \/ notice'.apply = "ready" => Plan
                     /\ updateScene.dismissed => ~notice'.card
<1> USE DEF NoticeStates
<1>1. /\ notice \in NoticeStates
      /\ notice.download # "off" \/ notice.apply = "ready" \/ fetches # {} => Plan
      /\ updateScene.dismissed => ~notice.card
  BY DEF UpdateInv, UpdateTypeOK, Fitting, DismissedStaysDismissed
<1>2. CASE notice' = FreshPage
  BY <1>2 DEF FreshPage
<1>3. CASE UNCHANGED notice
  BY <1>1, <1>3
<1>4. CASE LoadCurrentVersion
  <2>1. disk.installed \in {"old", "new"}
    BY DEF UpdateInv, UpdateTypeOK, Disks
  <2> QED BY <1>1, <1>4, <2>1 DEF LoadCurrentVersion
<1>5. CASE CheckForUpdate
  BY <1>1, <1>5 DEF CheckForUpdate, Offers
<1>6. CASE DismissCard \/ OpenReleaseDialog \/ CloseReleaseDialog
  BY <1>1, <1>6 DEF DismissCard, OpenReleaseDialog, CloseReleaseDialog
<1>7. ASSUME NEW failed \in BOOLEAN, DialogShows(failed) PROVE Result
  <2>1. PICK full : full = (updateScene.assets /\ ~updateScene.fits /\ ~failed)
    OBVIOUS
  <2>2. full \in BOOLEAN
    BY <2>1
  <2>3. CASE Plan /\ ~failed
    BY <1>1, <1>7, <2>3 DEF DialogShows
  <2>4. CASE ~(Plan /\ ~failed)
    BY <1>1, <1>7, <2>1, <2>2, <2>4 DEF DialogShows
  <2> QED BY <2>3, <2>4
<1>8. CASE PressDownload
  BY <1>1, <1>8 DEF PressDownload
<1>9. ASSUME NEW f \in fetches, DownloadAnswers(f) PROVE Result
  <2>1. Plan
    BY <1>1, <1>9
  <2> QED BY <1>1, <1>9, <2>1 DEF DownloadAnswers
<1>10. \/ notice' = FreshPage \/ UNCHANGED notice \/ LoadCurrentVersion \/ CheckForUpdate
       \/ DismissCard \/ OpenReleaseDialog \/ CloseReleaseDialog \/ PressDownload
       \/ \E failed \in BOOLEAN : DialogShows(failed)
       \/ \E f \in fetches : DownloadAnswers(f)
  BY DEF UpdateNext, ReloadUpdatePage, PressApply, DownloadBegins, DownloadWritten,
         DownloadVerified, DownloadFails
<1> HIDE DEF Result
<1>11. Result
  <2> USE DEF Result
  <2> QED BY <1>2, <1>3, <1>4, <1>5, <1>6, <1>7, <1>8, <1>9, <1>10
<1> QED BY <1>11 DEF Result

(* The shell's downloads and files.                                        *)
LEMMA FetchSteps ==
    ASSUME UpdateInv, UpdateNext
    PROVE  /\ disk' \in Disks /\ fetches' \subseteq Fetches
           /\ fetches' # {} \/ disk'.installed = "new" => Plan
<1> DEFINE Result == /\ disk' \in Disks /\ fetches' \subseteq Fetches
                     /\ fetches' # {} \/ disk'.installed = "new" => Plan
<1>1. /\ disk \in Disks /\ fetches \subseteq Fetches
      /\ notice.download # "off" \/ notice.apply = "ready" \/ fetches # {} => Plan
      /\ disk.installed = "new" => Plan
  BY DEF UpdateInv, UpdateTypeOK, Fitting
<1>2. \A f \in fetches, stage \in {"verify", "done", "failed"} : Goes(f, stage) \subseteq Fetches
  BY <1>1 DEF Goes, Fetches
<1>3. CASE UNCHANGED <<disk, fetches>>
  BY <1>1, <1>3
<1>4. CASE ReloadUpdatePage
  BY <1>1, <1>4 DEF ReloadUpdatePage, Fetches
<1>5. CASE PressDownload
  <2>1. PICK n : n = disk.started + 1
    OBVIOUS
  <2>2. n \in Nat
    BY <1>1, <2>1 DEF Disks
  <2>3. disk' = [disk EXCEPT !.archive = 0, !.tmp = 0, !.started = n]
    BY <1>5, <2>1 DEF PressDownload
  <2>4. disk' \in Disks /\ disk'.installed = disk.installed
    BY <1>1, <2>2, <2>3 DEF Disks
  <2>5. fetches' \subseteq Fetches
    <3>1. [id |-> n, stage |-> "asking", file |-> 0, heard |-> TRUE] \in Fetches
      BY <2>2 DEF Fetches
    <3>2. fetches' = fetches \cup {[id |-> n, stage |-> "asking", file |-> 0, heard |-> TRUE]}
      BY <1>5, <2>1 DEF PressDownload
    <3> QED BY <1>1, <3>1, <3>2
  <2> QED BY <1>1, <1>5, <2>4, <2>5 DEF PressDownload
<1>6. CASE PressApply
  <2>1. CASE AppliesVerified
    <3>1. /\ disk' = [disk EXCEPT !.archive = 0,
                         !.installed = IF disk.archive \in disk.whole THEN "new" ELSE "torn"]
          /\ fetches' = {} /\ Plan
      BY <1>1, <1>6, <2>1 DEF PressApply
    <3>2. disk.archive \in disk.whole
      BY <2>1 DEF AppliesVerified
    <3>3. disk' \in Disks
      BY <1>1, <3>1, <3>2 DEF Disks
    <3> QED BY <3>1, <3>3
  <2>2. CASE ~AppliesVerified
    <3>1. disk' \in {[disk EXCEPT !.archive = 0], disk} /\ UNCHANGED fetches
      BY <1>1, <1>6, <2>2 DEF PressApply, Disks
    <3>2. disk' \in Disks /\ disk'.installed = disk.installed
      BY <1>1, <3>1, DiskEdits
    <3> QED BY <1>1, <3>1, <3>2
  <2> QED BY <2>1, <2>2
<1>7. ASSUME NEW f \in fetches,
             \/ DownloadBegins(f) \/ DownloadWritten(f) \/ DownloadVerified(f)
             \/ DownloadFails(f) \/ DownloadAnswers(f)
      PROVE  Result
  <2>1. Plan /\ f \in Fetches
    BY <1>1
  <2>2. CASE DownloadBegins(f)
    <3>1. PICK file : file = IF disk.tmp = 0 THEN f.id ELSE disk.tmp
      OBVIOUS
    <3>2. file \in Nat
      BY <1>1, <2>1, <3>1 DEF Fetches, Disks
    <3>3. PICK mixed : mixed = IF file = f.id THEN disk.mixed ELSE disk.mixed \cup {file}
      OBVIOUS
    <3>4. mixed \in SUBSET Nat
      BY <1>1, <3>2, <3>3 DEF Disks
    <3>5. disk' = [disk EXCEPT !.tmp = file, !.mixed = mixed]
      BY <2>2, <3>1, <3>3 DEF DownloadBegins
    <3>6. disk' \in Disks
      BY <1>1, <3>2, <3>4, <3>5 DEF Disks
    <3>7. fetches' \subseteq Fetches
      BY <1>1, <2>2, <3>1, <3>2 DEF DownloadBegins, Fetches
    <3> QED BY <2>1, <3>6, <3>7
  <2>3. CASE DownloadWritten(f)
    <3>1. PICK whole : whole = IF f.file \in disk.mixed THEN disk.whole ELSE disk.whole \cup {f.file}
      OBVIOUS
    <3>2. whole \in SUBSET Nat
      BY <1>1, <2>1, <3>1 DEF Fetches, Disks
    <3>3. disk' \in {[disk EXCEPT !.whole = whole],
                     [disk EXCEPT !.whole = whole, !.archive = disk.tmp, !.tmp = 0]}
      BY <2>3, <3>1 DEF DownloadWritten
    <3>4. disk' \in Disks
      BY <1>1, <3>2, <3>3, DiskEdits
    <3>5. fetches' \subseteq Fetches
      BY <1>2, <2>3 DEF DownloadWritten
    <3> QED BY <2>1, <3>4, <3>5
  <2>4. CASE DownloadVerified(f)
    <3>1. disk' \in {[disk EXCEPT !.recorded = TRUE], [disk EXCEPT !.archive = 0]}
      BY <2>4 DEF DownloadVerified
    <3>2. disk' \in Disks
      BY <1>1, <3>1, DiskEdits
    <3>3. fetches' \subseteq Fetches
      BY <1>2, <2>4 DEF DownloadVerified
    <3> QED BY <2>1, <3>2, <3>3
  <2>5. CASE DownloadFails(f) \/ DownloadAnswers(f)
    BY <1>1, <1>2, <2>1, <2>5 DEF DownloadFails, DownloadAnswers
  <2> QED BY <1>7, <2>2, <2>3, <2>4, <2>5
<1>8. \/ UNCHANGED <<disk, fetches>> \/ ReloadUpdatePage \/ PressDownload \/ PressApply
      \/ \E f \in fetches : \/ DownloadBegins(f) \/ DownloadWritten(f) \/ DownloadVerified(f)
                            \/ DownloadFails(f) \/ DownloadAnswers(f)
  BY DEF UpdateNext, LoadCurrentVersion, CheckForUpdate, DismissCard, OpenReleaseDialog,
         CloseReleaseDialog, DialogShows
<1> QED BY <1>3, <1>4, <1>5, <1>6, <1>7, <1>8

LEMMA UpdateStepOK == UpdateInv /\ [UpdateNext]_updateVars => UpdateInv'
<1>1. ASSUME UpdateInv, UpdateNext PROVE UpdateInv'
  <2>1. /\ updateScene' \in SceneStates /\ (Plan' <=> Plan)
        /\ updateScene'.dismissed => updateScene.dismissed \/ ~notice'.card
    BY <1>1, SceneSteps DEF UpdateInv, UpdateTypeOK
  <2> QED BY <1>1, <2>1, NoticeSteps, FetchSteps
          DEF UpdateInv, UpdateTypeOK, Fitting, DismissedStaysDismissed
<1>2. ASSUME UpdateInv, UNCHANGED updateVars PROVE UpdateInv'
  BY <1>2 DEF UpdateInv, UpdateTypeOK, Fitting, DismissedStaysDismissed, updateVars, Plan
<1> QED BY <1>1, <1>2

(* Whatever is downloaded twice, cut short or pressed: only bytes that     *)
(* were verified, of a release that fits, are installed, and what was      *)
(* dismissed is not offered again (main.rs, catalog.js).                   *)
THEOREM UpdatesStaySafe == UpdateSpec => []UpdatesAreSafe
<1>1. UpdateInv => UpdatesAreSafe
  BY DEF UpdateInv, UpdateTypeOK, Fitting, UpdatesAreSafe, OnlyVerifiedIsInstalled, Disks, Plan
<1> QED BY <1>1, UpdateInitOK, UpdateStepOK, PTL DEF UpdateSpec

-----------------------------------------------------------------------------
(* The first run.  Runs of runSetup() overlap: Retry is offered while one  *)
(* that met no GPU goes on.  They meet on one runtime, and what keeps them *)
(* from taking it from each other is that none of them unpacks one unless  *)
(* it is alone: "Sure" are the runs that will not.                         *)

SetupPlaces ==
    {"probe", "status", "pack", "verify", "download", "extract", "reprobe", "workspace",
     "ffmpeg", "gpu", "model", "backend", "failed", "over"}
Saws == [python : BOOLEAN, ffmpeg : BOOLEAN, torch : {"open", "settled"}]
SetupRuns == [n : Nat, at : SetupPlaces, saw : Saws]
Installs ==
    [python : {"none", "old", "new"}, archive : {"none", "whole", "torn"}, ffmpeg : BOOLEAN,
     torch : {"open", "settled"}, backend : BOOLEAN]
Screens ==
    [steps : [Steps -> {"", "active", "done", "error"}], error : BOOLEAN, retry : BOOLEAN,
     opened : BOOLEAN]

SetupTypeOK ==
    /\ setups \subseteq SetupRuns /\ IsFiniteSet(setups)
    /\ install \in Installs /\ screen \in Screens

Late == {"workspace", "ffmpeg", "gpu", "model", "backend"}
Sure(r) == r.at = "probe" \/ (r.at = "status" /\ r.saw.python) \/ r.at \in Late
Going(R) == {r \in R : r.at \notin {"failed", "over"}}

(* What holds of the runs R and the install I, with Retry offered or not.  *)
EachHasItsRuntime(R, I) == \A r \in Going(R) : r.at \in Late \cup {"reprobe"} => I.python = "new"
EachHasFfmpeg(R, I) ==
    \A r \in R : /\ r.saw.ffmpeg => I.ffmpeg
                 /\ r.at \in {"gpu", "model", "backend"} => I.ffmpeg
NoneTakesAnothers(R, I) == \A r, s \in Going(R) : r # s => Sure(r) /\ I.python = "new"
RetryIsHarmless(R, I) == \A r \in Going(R) : Sure(r) /\ I.python = "new"

SetupInv ==
    /\ SetupTypeOK
    /\ EachHasItsRuntime(setups, install) /\ EachHasFfmpeg(setups, install)
    /\ NoneTakesAnothers(setups, install)
    /\ screen.retry => RetryIsHarmless(setups, install)
    /\ screen.opened => Live = {}
    /\ SetupIsSound

(* A run that goes on, from r to s, while the runtime stays as it is.      *)
LEMMA RunGoesOn ==
    ASSUME SetupInv, NEW r \in Live, NEW s \in SetupRuns, s.at \notin {"failed", "over"},
           setups' = (setups \ {r}) \cup {s}, install' \in Installs,
           install.ffmpeg => install'.ffmpeg,
           s.saw.ffmpeg \/ s.at \in {"gpu", "model", "backend"} => install'.ffmpeg,
           s.at \in Late \cup {"reprobe"} => install'.python = "new",
           install'.python # install.python => ~Sure(r),
           Sure(r) /\ install.python = "new" => Sure(s),
           screen' \in Screens, screen'.opened = screen.opened,
           screen'.retry => screen.retry \/ r.at \in Late
    PROVE  SetupInv'
<1>1. IsFiniteSet(setups')
  BY FS_RemoveElement, FS_AddElement DEF SetupInv, SetupTypeOK
<1>2. SetupTypeOK'
  BY <1>1 DEF SetupInv, SetupTypeOK, Live
<1>3. ~screen.opened
  BY DEF SetupInv
<1>4. Going(setups) = Live /\ Going(setups)' = Live'
  BY DEF Going, Live
<1>5. Live' = (Live \ {r}) \cup {s}
  BY DEF Live
<1>6. \A q \in Live \ {r} : Sure(q) /\ Sure(s) /\ install'.python = "new"
  BY <1>4 DEF SetupInv, NoneTakesAnothers
<1>7. EachHasItsRuntime(setups, install)'
  BY <1>4, <1>5, <1>6 DEF EachHasItsRuntime
<1>8. EachHasFfmpeg(setups, install)'
  BY DEF SetupInv, EachHasFfmpeg
<1>9. NoneTakesAnothers(setups, install)'
  BY <1>4, <1>5, <1>6 DEF NoneTakesAnothers
<1>10. screen'.retry => RetryIsHarmless(setups, install)'
  <2> SUFFICES ASSUME screen'.retry PROVE Sure(s) /\ install'.python = "new"
    BY <1>4, <1>5, <1>6 DEF RetryIsHarmless
  <2>1. Sure(r) /\ install.python = "new"
    BY <1>4 DEF SetupInv, RetryIsHarmless, EachHasItsRuntime, Sure
  <2> QED BY <2>1
<1>11. SetupIsSound'
  BY <1>3, <1>5 DEF SetupIsSound, OpensReady, NeverStranded
<1> QED BY <1>2, <1>3, <1>7, <1>8, <1>9, <1>10, <1>11 DEF SetupInv

(* A run that fails: Retry is offered.                                     *)
LEMMA RunFails ==
    ASSUME SetupInv, NEW r \in Live, Fails(r), install' \in Installs,
           install.ffmpeg => install'.ffmpeg,
           install'.python # install.python => ~Sure(r)
    PROVE  SetupInv'
<1>1. [r EXCEPT !.at = "failed"] \in SetupRuns
  BY DEF SetupInv, SetupTypeOK, Live, SetupRuns, SetupPlaces
<1>2. PICK s \in SetupRuns : s = [r EXCEPT !.at = "failed"]
  BY <1>1
<1>3. setups' = (setups \ {r}) \cup {s} /\ s.at = "failed" /\ s.saw = r.saw
  BY <1>1, <1>2 DEF Fails, SetupInv, SetupTypeOK, Live, SetupRuns
<1>4. IsFiniteSet(setups')
  BY <1>3, FS_RemoveElement, FS_AddElement DEF SetupInv, SetupTypeOK
<1>5. PICK steps : steps = [t \in Steps |-> IF screen.steps[t] = "active" THEN "error" ELSE screen.steps[t]]
  OBVIOUS
<1>6. steps \in [Steps -> {"", "active", "done", "error"}]
  BY <1>5 DEF SetupInv, SetupTypeOK, Screens
<1>7. screen' = [screen EXCEPT !.error = TRUE, !.retry = TRUE, !.steps = steps]
  BY <1>5 DEF Fails, WithError
<1>8. screen' \in Screens /\ screen'.retry /\ screen'.opened = screen.opened
  BY <1>6, <1>7 DEF SetupInv, SetupTypeOK, Screens
<1>9. SetupTypeOK'
  BY <1>3, <1>4, <1>8 DEF SetupInv, SetupTypeOK, Live
<1>10. Going(setups) = Live /\ Going(setups)' = Live'
  BY DEF Going, Live
<1>11. Live' = Live \ {r} /\ ~screen.opened
  BY <1>3 DEF Live, SetupInv
<1>12. \A q \in Live \ {r} : Sure(q) /\ Sure(r) /\ install'.python = "new"
  BY <1>10 DEF SetupInv, NoneTakesAnothers
<1>13. EachHasItsRuntime(setups, install)' /\ NoneTakesAnothers(setups, install)'
       /\ RetryIsHarmless(setups, install)'
  BY <1>10, <1>11, <1>12 DEF EachHasItsRuntime, NoneTakesAnothers, RetryIsHarmless
<1>14. EachHasFfmpeg(setups, install)'
  <2>1. r \in setups
    BY DEF Live
  <2> QED BY <1>3, <2>1 DEF SetupInv, EachHasFfmpeg
<1>15. SetupIsSound'
  BY <1>8, <1>11 DEF SetupIsSound, OpensReady, NeverStranded
<1> QED BY <1>8, <1>9, <1>11, <1>13, <1>14, <1>15 DEF SetupInv

(* A run that is begun, beside those that go on.                           *)
LEMMA RunBegins ==
    ASSUME SetupInv, NEW R, R \subseteq SetupRuns, IsFiniteSet(R), setups' = R \cup {NewRun},
           Going(R) # {} => screen.retry /\ R = setups /\ install' = install,
           EachHasFfmpeg(R, install), install' \in Installs,
           install'.ffmpeg = install.ffmpeg, install'.python = install.python,
           screen' = Fresh(NoSteps)
    PROVE  SetupInv'
<1>1. Cardinality(setups) \in Nat
  BY FS_CardinalityType DEF SetupInv, SetupTypeOK
<1>2. NewRun \in SetupRuns /\ NewRun.at = "probe" /\ ~NewRun.saw.ffmpeg
  BY <1>1 DEF NewRun, SetupRuns, SetupPlaces, Saws
<1>3. PICK s : s = NewRun
  OBVIOUS
<1>4. IsFiniteSet(setups')
  BY FS_AddElement
<1>5. screen' \in Screens /\ ~screen'.retry /\ ~screen'.opened
  BY DEF Fresh, BlankScreen, NoSteps, Screens, Steps
<1>6. SetupTypeOK'
  BY <1>2, <1>4, <1>5 DEF SetupTypeOK
<1>7. Going(setups)' = Going(R) \cup {s} /\ Live' = Going(R) \cup {s}
  BY <1>2, <1>3 DEF Going, Live
<1>8. \A q \in Going(R) : Sure(q) /\ install'.python = "new"
  BY DEF SetupInv, RetryIsHarmless
<1>9. EachHasItsRuntime(setups, install)' /\ NoneTakesAnothers(setups, install)'
  BY <1>2, <1>3, <1>7, <1>8 DEF EachHasItsRuntime, NoneTakesAnothers, Sure, Late
<1>10. EachHasFfmpeg(setups, install)'
  BY <1>2 DEF EachHasFfmpeg
<1>11. SetupIsSound'
  BY <1>5, <1>7 DEF SetupIsSound, OpensReady, NeverStranded
<1> QED BY <1>5, <1>6, <1>9, <1>10, <1>11 DEF SetupInv

(* The screen keeps its shape, whatever steps are shown.                   *)
LEMMA ScreenShows ==
    ASSUME SetupInv, NEW steps \in [Steps -> {"", "active", "done", "error"}], Shows(steps)
    PROVE  screen' \in Screens /\ screen'.opened = screen.opened /\ screen'.retry = screen.retry
  BY DEF SetupInv, SetupTypeOK, Screens, Shows

LEMMA BeginsIs ==
    ASSUME SetupInv, NEW done \in Steps, NEW step \in Steps
    PROVE  Begins(done, step) \in [Steps -> {"", "active", "done", "error"}]
  BY DEF SetupInv, SetupTypeOK, Screens, Begins

(* A command that leads to the next, the runtime and FFmpeg staying.       *)
LEMMA CommandLeads ==
    ASSUME SetupInv, NEW r \in Live, NEW at \in SetupPlaces \ {"failed", "over"}, NEW saw \in Saws,
           NextCommand(r, at, saw), install' \in Installs, install'.python = install.python,
           install.ffmpeg => install'.ffmpeg,
           saw.ffmpeg \/ at \in {"gpu", "model", "backend"} => install'.ffmpeg,
           at \in Late \cup {"reprobe"} => install.python = "new",
           Sure(r) /\ install.python = "new" => at \in Late \/ (at = "status" /\ saw.python),
           screen' \in Screens, screen'.opened = screen.opened,
           screen'.retry => screen.retry \/ r.at \in Late
    PROVE  SetupInv'
<1>1. r \in SetupRuns
  BY DEF SetupInv, SetupTypeOK, Live
<1>2. PICK s : s = [r EXCEPT !.at = at, !.saw = saw]
  OBVIOUS
<1>3. s \in SetupRuns /\ s.at = at /\ s.saw = saw
  BY <1>1, <1>2 DEF SetupRuns
<1>4. setups' = (setups \ {r}) \cup {s}
  BY <1>2 DEF NextCommand
<1>5. Sure(r) /\ install.python = "new" => Sure(s)
  BY <1>3 DEF Sure
<1> QED BY <1>3, <1>4, <1>5, RunGoesOn

(* What a run and the install are.                                         *)
LEMMA SetupIs ==
    ASSUME SetupInv, NEW r \in Live
    PROVE  /\ r \in setups /\ r.at \in SetupPlaces /\ r.saw \in Saws
           /\ install \in Installs /\ screen \in Screens
           /\ r.saw.ffmpeg => install.ffmpeg
           /\ r.at \in {"gpu", "model", "backend"} => install.ffmpeg
           /\ r.at \in Late \cup {"reprobe"} => install.python = "new"
<1>1. r \in setups /\ r \in Going(setups)
  BY DEF Live, Going
<1> QED BY <1>1 DEF SetupInv, SetupTypeOK, SetupRuns, EachHasFfmpeg, EachHasItsRuntime

(* The runtime.                                                            *)
LEMMA ProbeStep == ASSUME SetupInv, NEW r \in Live, Probe(r) PROVE SetupInv'
<1>1. /\ Probed \in Saws /\ Probed.ffmpeg = install.ffmpeg
      /\ Probed.python = (install.python # "none")
  BY SetupIs DEF Probed, Saws, Installs
<1> QED BY <1>1, SetupIs, CommandLeads DEF Probe, SetupPlaces, Late

LEMMA StatusStep == ASSUME SetupInv, NEW r \in Live, Status(r) PROVE SetupInv'
<1>1. r.saw \in Saws /\ install \in Installs /\ r.at = "status" /\ UNCHANGED install
  BY SetupIs DEF Status, Turn
<1>2. CASE Settled(r)
  <2>1. NextCommand(r, "backend", r.saw) /\ r.saw.ffmpeg /\ install.python = "new"
    BY <1>2 DEF Status, Settled
  <2>2. Shows([s \in Steps |-> IF s = "backend" THEN "active" ELSE "done"])
    BY <1>2 DEF Status
  <2>3. screen' \in Screens /\ screen'.opened = screen.opened /\ screen'.retry = screen.retry
    BY <2>2, ScreenShows
  <2> QED BY <1>1, <2>1, <2>3, SetupIs, CommandLeads DEF SetupPlaces, Late
<1>3. CASE ~Settled(r) /\ (~r.saw.python \/ install.python # "new")
  <2>1. NextCommand(r, "pack", r.saw) /\ UNCHANGED screen
    BY <1>3 DEF Status
  <2>2. ~(Sure(r) /\ install.python = "new")
    BY <1>1, <1>3 DEF Sure, Late
  <2> QED BY <1>1, <2>1, <2>2, SetupIs, CommandLeads DEF SetupPlaces, Late
<1>4. CASE ~Settled(r) /\ ~(~r.saw.python \/ install.python # "new")
  <2>1. NextCommand(r, "workspace", r.saw) /\ Shows(Begins("runtime", "workspace"))
    BY <1>4 DEF Status
  <2>2. screen' \in Screens /\ screen'.opened = screen.opened /\ screen'.retry = screen.retry
    BY <2>1, BeginsIs, ScreenShows DEF Steps
  <2> QED BY <1>1, <1>4, <2>1, <2>2, SetupIs, CommandLeads DEF SetupPlaces, Late
<1> QED BY <1>2, <1>3, <1>4

LEMMA PackSteps ==
    ASSUME SetupInv, NEW r \in Live, PackStatus(r) \/ VerifyLocal(r)
    PROVE  SetupInv'
<1>1. PICK at \in {"download", "verify", "extract"} : NextCommand(r, at, r.saw)
  BY DEF PackStatus, VerifyLocal
<1>2. r.at \in {"pack", "verify"} /\ UNCHANGED <<install, screen>>
  BY DEF PackStatus, VerifyLocal, Turn
<1>3. ~Sure(r)
  BY <1>2 DEF Sure, Late
<1> QED BY <1>1, <1>2, <1>3, SetupIs, CommandLeads DEF SetupPlaces, Late

LEMMA DownloadStep ==
    ASSUME SetupInv, NEW r \in Live, NEW got \in {"whole", "torn"}, Download(r, got)
    PROVE  SetupInv'
<1>1. install' = [install EXCEPT !.archive = got]
  BY DEF Download
<1>2. install' \in Installs /\ install'.python = install.python /\ install'.ffmpeg = install.ffmpeg
  BY <1>1, SetupIs DEF Installs
<1>3. r.at = "download" /\ ~Sure(r)
  BY DEF Download, Sure, Late
<1>4. CASE got = "whole"
  <2>1. PICK s : s = [r EXCEPT !.at = "extract"]
    OBVIOUS
  <2>2. r \in SetupRuns /\ r.saw \in Saws
    BY DEF SetupInv, SetupTypeOK, Live, SetupRuns
  <2>3. s \in SetupRuns /\ s.at = "extract" /\ s.saw = r.saw
    BY <2>1, <2>2 DEF SetupRuns, SetupPlaces
  <2>4. setups' = (setups \ {r}) \cup {s} /\ UNCHANGED screen
    BY <1>4, <2>1 DEF Download
  <2> QED BY <1>2, <1>3, <2>3, <2>4, SetupIs, RunGoesOn DEF Late
<1>5. CASE got # "whole"
  BY <1>2, <1>5, RunFails DEF Download
<1> QED BY <1>4, <1>5

LEMMA ExtractStep == ASSUME SetupInv, NEW r \in Live, Extract(r) PROVE SetupInv'
<1>1. install' = [install EXCEPT !.python = "new", !.archive = "none"]
  BY DEF Extract
<1>2. install' \in Installs /\ install'.python = "new" /\ install'.ffmpeg = install.ffmpeg
  BY <1>1, SetupIs DEF Installs
<1>3. r.at = "extract" /\ ~Sure(r)
  BY DEF Extract, Turn, Sure, Late
<1>4. PICK s : s = [r EXCEPT !.at = "reprobe", !.saw = r.saw]
  OBVIOUS
<1>5. r \in SetupRuns
  BY DEF SetupInv, SetupTypeOK, Live
<1>6. s \in SetupRuns /\ s.at = "reprobe" /\ s.saw = r.saw
  BY <1>4, <1>5 DEF SetupRuns, SetupPlaces
<1>7. setups' = (setups \ {r}) \cup {s} /\ UNCHANGED screen
  BY <1>4 DEF Extract, NextCommand
<1> QED BY <1>2, <1>3, <1>6, <1>7, SetupIs, RunGoesOn

LEMMA ReprobeStep == ASSUME SetupInv, NEW r \in Live, Reprobe(r) PROVE SetupInv'
<1>1. /\ Probed \in Saws /\ Probed.ffmpeg = install.ffmpeg
      /\ r.at = "reprobe" /\ UNCHANGED install
  BY SetupIs DEF Probed, Saws, Installs, Reprobe, Turn
<1>2. CASE Probed.python
  <2>1. NextCommand(r, "workspace", Probed) /\ Shows(Begins("runtime", "workspace"))
    BY <1>2 DEF Reprobe
  <2>2. screen' \in Screens /\ screen'.opened = screen.opened /\ screen'.retry = screen.retry
    BY <2>1, BeginsIs, ScreenShows DEF Steps
  <2> QED BY <1>1, <2>1, <2>2, SetupIs, CommandLeads DEF SetupPlaces, Late
<1>3. CASE ~Probed.python
  BY <1>1, <1>3, SetupIs, RunFails DEF Reprobe
<1> QED BY <1>2, <1>3

(* What the runtime needs.                                                 *)
LEMMA WorkspaceStep == ASSUME SetupInv, NEW r \in Live, Workspace(r) PROVE SetupInv'
<1>1. r.at = "workspace" /\ UNCHANGED install /\ install.python = "new"
  BY SetupIs DEF Workspace, Turn, Late
<1>2. CASE r.saw.ffmpeg
  <2>1. PICK steps : steps = [Begins("workspace", "gpu") EXCEPT !["ffmpeg"] = "done"]
    OBVIOUS
  <2>2. Begins("workspace", "gpu") \in [Steps -> {"", "active", "done", "error"}]
    BY BeginsIs DEF Steps
  <2>3. steps \in [Steps -> {"", "active", "done", "error"}]
    BY <2>1, <2>2 DEF Steps
  <2>4. NextCommand(r, "gpu", r.saw) /\ Shows(steps)
    BY <1>2, <2>1 DEF Workspace
  <2>5. screen' \in Screens /\ screen'.opened = screen.opened /\ screen'.retry = screen.retry
    BY <2>3, <2>4, ScreenShows
  <2> QED BY <1>1, <1>2, <2>4, <2>5, SetupIs, CommandLeads DEF SetupPlaces, Late
<1>3. CASE ~r.saw.ffmpeg
  <2>1. NextCommand(r, "ffmpeg", r.saw) /\ Shows(Begins("workspace", "ffmpeg"))
    BY <1>3 DEF Workspace
  <2>2. screen' \in Screens /\ screen'.opened = screen.opened /\ screen'.retry = screen.retry
    BY <2>1, BeginsIs, ScreenShows DEF Steps
  <2> QED BY <1>1, <1>3, <2>1, <2>2, SetupIs, CommandLeads DEF SetupPlaces, Late
<1> QED BY <1>2, <1>3

LEMMA FfmpegStep == ASSUME SetupInv, NEW r \in Live, Ffmpeg(r) PROVE SetupInv'
<1>1. r.at = "ffmpeg" /\ install' = [install EXCEPT !.ffmpeg = TRUE]
      /\ NextCommand(r, "gpu", r.saw) /\ Shows(Begins("ffmpeg", "gpu"))
  BY DEF Ffmpeg, Turn
<1>2. install' \in Installs /\ install'.python = install.python /\ install'.ffmpeg
  BY <1>1, SetupIs DEF Installs
<1>3. screen' \in Screens /\ screen'.opened = screen.opened /\ screen'.retry = screen.retry
  BY <1>1, BeginsIs, ScreenShows DEF Steps
<1> QED BY <1>1, <1>2, <1>3, SetupIs, CommandLeads DEF SetupPlaces, Late

LEMMA GpuStep ==
    ASSUME SetupInv, NEW r \in Live, NEW device \in {"settled", "open"}, NEW told \in BOOLEAN,
           Gpu(r, device, told)
    PROVE  SetupInv'
<1>1. r.at = "gpu" /\ install' = [install EXCEPT !.torch = device]
      /\ NextCommand(r, "model", r.saw)
  BY DEF Gpu, Turn
<1>2. install' \in Installs /\ install'.python = install.python /\ install'.ffmpeg = install.ffmpeg
  BY <1>1, SetupIs DEF Installs
<1>3. PICK told_ : told_ = IF told THEN WithError ELSE screen
  OBVIOUS
<1>4. told_ \in Screens /\ told_.opened = screen.opened
  <2>1. PICK steps : steps = [t \in Steps |->
                                IF screen.steps[t] = "active" THEN "error" ELSE screen.steps[t]]
    OBVIOUS
  <2>2. screen \in Screens
    BY SetupIs
  <2>3. steps \in [Steps -> {"", "active", "done", "error"}]
    BY <2>1, <2>2 DEF Screens
  <2>4. WithError = [screen EXCEPT !.error = TRUE, !.retry = TRUE, !.steps = steps]
    BY <2>1 DEF WithError
  <2>5. WithError \in Screens /\ WithError.opened = screen.opened
    BY <2>2, <2>3, <2>4 DEF Screens
  <2> QED BY <1>3, <2>2, <2>5
<1>5. screen' = [told_ EXCEPT !.steps["gpu"] = "done", !.steps["model"] = "active"]
  BY <1>3 DEF Gpu
<1>6. screen' \in Screens /\ screen'.opened = screen.opened
  BY <1>4, <1>5 DEF Screens, Steps
<1> QED BY <1>1, <1>2, <1>6, SetupIs, CommandLeads DEF SetupPlaces, Late

LEMMA ModelsStep == ASSUME SetupInv, NEW r \in Live, Models(r) PROVE SetupInv'
<1>1. r.at = "model" /\ UNCHANGED install
      /\ NextCommand(r, "backend", r.saw) /\ Shows(Begins("model", "backend"))
  BY DEF Models, Turn
<1>2. screen' \in Screens /\ screen'.opened = screen.opened /\ screen'.retry = screen.retry
  BY <1>1, BeginsIs, ScreenShows DEF Steps
<1> QED BY <1>1, <1>2, SetupIs, CommandLeads DEF SetupPlaces, Late

(* The runs that are over keep what they saw.                              *)
LEMMA AllOver ==
    ASSUME SetupInv, NEW R, R = {[s EXCEPT !.at = "over"] : s \in setups}
    PROVE  R \subseteq SetupRuns /\ IsFiniteSet(R) /\ Going(R) = {} /\ EachHasFfmpeg(R, install)
<1>1. IsFiniteSet(R)
  <2> DEFINE f == [s \in setups |-> [s EXCEPT !.at = "over"]]
  <2>1. f \in Surjection(setups, R)
    <3>1. f \in [setups -> R]
      OBVIOUS
    <3>2. \A x \in R : \E s \in setups : f[s] = x
      OBVIOUS
    <3> QED BY <3>1, <3>2 DEF Surjection
  <2> HIDE DEF f
  <2> QED BY <2>1, FS_Surjection DEF SetupInv, SetupTypeOK
<1>2. \A s \in setups : /\ [s EXCEPT !.at = "over"] \in SetupRuns
                        /\ [s EXCEPT !.at = "over"].at = "over"
                        /\ [s EXCEPT !.at = "over"].saw = s.saw
  BY DEF SetupInv, SetupTypeOK, SetupRuns, SetupPlaces
<1>3. \A s \in setups : s.saw.ffmpeg => install.ffmpeg
  BY DEF SetupInv, EachHasFfmpeg
<1> QED BY <1>1, <1>2, <1>3 DEF Going, EachHasFfmpeg

LEMMA BackendStep == ASSUME SetupInv, NEW r \in Live, StartBackend(r) PROVE SetupInv'
<1>1. /\ r.at = "backend" /\ install' = [install EXCEPT !.backend = TRUE]
      /\ setups' = {[s EXCEPT !.at = "over"] : s \in setups}
      /\ screen' = [screen EXCEPT !.opened = TRUE, !.steps["backend"] = "done"]
  BY DEF StartBackend, Turn
<1>2. /\ install' \in Installs /\ install'.python = install.python /\ install'.ffmpeg = install.ffmpeg
      /\ install'.backend
  BY <1>1, SetupIs DEF Installs
<1>3. install.python = "new" /\ install.ffmpeg
  BY <1>1, SetupIs DEF Late
<1>4. screen' \in Screens /\ screen'.opened
  BY <1>1, SetupIs DEF Screens, Steps
<1>5. setups' \subseteq SetupRuns /\ IsFiniteSet(setups') /\ Going(setups') = {}
      /\ EachHasFfmpeg(setups', install)
  BY <1>1, AllOver
<1>6. Going(setups)' = {} /\ Live' = {}
  BY <1>5 DEF Going, Live
<1>7. EachHasFfmpeg(setups, install)'
  BY <1>2, <1>5 DEF EachHasFfmpeg
<1>8. SetupIsSound'
  BY <1>2, <1>3, <1>4 DEF SetupIsSound, OpensReady, NeverStranded
<1> QED BY <1>2, <1>4, <1>5, <1>6, <1>7, <1>8
        DEF SetupInv, SetupTypeOK, EachHasItsRuntime, NoneTakesAnothers, RetryIsHarmless

LEMMA CommandFailsStep == ASSUME SetupInv, NEW r \in Live, CommandFails(r) PROVE SetupInv'
<1>1. PICK p \in {"none", install.python} :
         install' = [install EXCEPT !.python = p] /\ (r.at # "extract" => p = install.python)
  BY DEF CommandFails
<1>2. /\ install' \in Installs /\ install'.ffmpeg = install.ffmpeg
      /\ install'.python # install.python => r.at = "extract"
  BY <1>1, SetupIs DEF Installs
<1>3. install'.python # install.python => ~Sure(r)
  BY <1>2 DEF Sure, Late
<1>4. CASE r.at = "verify"
  <2>1. NextCommand(r, "download", r.saw) /\ UNCHANGED screen /\ install'.python = install.python
    BY <1>2, <1>4 DEF CommandFails
  <2>2. ~Sure(r)
    BY <1>4 DEF Sure, Late
  <2> QED BY <1>2, <1>4, <2>1, <2>2, SetupIs, CommandLeads DEF SetupPlaces, Late
<1>5. CASE r.at # "verify"
  BY <1>2, <1>3, <1>5, SetupIs, RunFails DEF CommandFails
<1> QED BY <1>4, <1>5

(* Again.                                                                  *)
LEMMA AgainStep == ASSUME SetupInv, PressRetry \/ Relaunch PROVE SetupInv'
<1>1. CASE PressRetry
  <2>1. Going(setups) = Live /\ install \in Installs
    BY DEF Going, Live, SetupInv, SetupTypeOK
  <2> QED BY <1>1, <2>1, RunBegins DEF PressRetry, SetupInv, SetupTypeOK
<1>2. CASE Relaunch
  <2>1. PICK R : R = {[s EXCEPT !.at = "over"] : s \in setups}
    OBVIOUS
  <2>2. R \subseteq SetupRuns /\ IsFiniteSet(R) /\ Going(R) = {} /\ EachHasFfmpeg(R, install)
    BY <2>1, AllOver
  <2>3. setups' = R \cup {NewRun} /\ install' = [install EXCEPT !.backend = FALSE]
        /\ screen' = Fresh(NoSteps)
    BY <1>2, <2>1 DEF Relaunch
  <2>4. /\ install' \in Installs /\ install'.ffmpeg = install.ffmpeg
        /\ install'.python = install.python
    BY <2>3 DEF SetupInv, SetupTypeOK, Installs
  <2> QED BY <2>2, <2>3, <2>4, RunBegins
<1> QED BY <1>1, <1>2

LEMMA SetupStepOK == SetupInv /\ [SetupNext]_setupVars => SetupInv'
<1> SUFFICES ASSUME SetupInv, [SetupNext]_setupVars PROVE SetupInv'
  OBVIOUS
<1>1. CASE PressRetry \/ Relaunch
  BY <1>1, AgainStep
<1>2. ASSUME NEW r \in Live,
             \/ Probe(r) \/ Status(r) \/ PackStatus(r) \/ VerifyLocal(r) \/ Extract(r) \/ Reprobe(r)
             \/ Workspace(r) \/ Ffmpeg(r) \/ Models(r) \/ StartBackend(r) \/ CommandFails(r)
      PROVE  SetupInv'
  BY <1>2, ProbeStep, StatusStep, PackSteps, ExtractStep, ReprobeStep, WorkspaceStep, FfmpegStep,
     ModelsStep, BackendStep, CommandFailsStep
<1>3. ASSUME NEW r \in Live, NEW got \in {"whole", "torn"}, Download(r, got) PROVE SetupInv'
  BY <1>3, DownloadStep
<1>4. ASSUME NEW r \in Live, NEW device \in {"settled", "open"}, NEW told \in BOOLEAN,
             Gpu(r, device, told)
      PROVE  SetupInv'
  BY <1>4, GpuStep
<1>5. CASE UNCHANGED setupVars
  BY <1>5 DEF setupVars, SetupInv, SetupTypeOK, EachHasItsRuntime, EachHasFfmpeg,
              NoneTakesAnothers, RetryIsHarmless, SetupIsSound, OpensReady, NeverStranded,
              Going, Live, Sure
<1>6. CASE SetupNext
  BY <1>1, <1>2, <1>3, <1>4, <1>6 DEF SetupNext
<1> QED BY <1>5, <1>6

LEMMA SetupInitOK == SetupInit => SetupInv
<1> SUFFICES ASSUME SetupInit PROVE SetupInv
  OBVIOUS
<1>1. PICK s : s = [n |-> 1, at |-> "probe", saw |-> [python |-> FALSE, ffmpeg |-> FALSE, torch |-> "open"]]
  OBVIOUS
<1>2. /\ s \in SetupRuns /\ s.at = "probe" /\ ~s.saw.ffmpeg
      /\ setups = {s} /\ IsFiniteSet(setups)
  BY <1>1, FS_Singleton DEF SetupInit, SetupRuns, SetupPlaces, Saws
<1>3. install \in Installs
  BY SetupAssumption DEF SetupInit, Installs
<1>4. screen \in Screens /\ ~screen.retry /\ ~screen.opened
  BY DEF SetupInit, Fresh, BlankScreen, NoSteps, Screens, Steps
<1>5. Live = {s}
  BY <1>2 DEF Live
<1> QED BY <1>2, <1>3, <1>4, <1>5
        DEF SetupInv, SetupTypeOK, EachHasItsRuntime, EachHasFfmpeg, NoneTakesAnothers,
            SetupIsSound, OpensReady, NeverStranded, Going, Late

(* However often the first run fails, is retried beside one that goes on,  *)
(* or is quit and begun again: the window opens StemDeck on the runtime    *)
(* the app was built for, or offers Retry (setup.js, main.rs).             *)
THEOREM SetupStaysSound == SetupSpec => []SetupIsSound
<1>1. SetupInv => SetupIsSound
  BY DEF SetupInv
<1> QED BY <1>1, SetupInitOK, SetupStepOK, PTL DEF SetupSpec

(* Both windows of the desktop shell.                                      *)
THEOREM ShellStaysSound == ShellSpec => []ShellIsSound
<1>1. UpdatesAreSafe /\ SetupIsSound => ShellIsSound
  BY DEF ShellIsSound
<1> QED BY <1>1, UpdatesStaySafe, SetupStaysSound, PTL DEF ShellSpec

-----------------------------------------------------------------------------
(* Resync.  No run began in a window that is yet to come, so the one that  *)
(* is opened next has none.                                                *)

RepairScenesLeft ==
    [acts : SUBSET {"open", "purge", "resync", "slow"}, gestures : Nat, lost : SUBSET RepairTracks]
ResyncRuns ==
    [n : Nat, gen : Nat, at : {"asking", "syncing", "next", "importing", "waiting"},
     todo : SUBSET RepairTracks, track : RepairTracks \cup {FirstTrack}, job : 0..MaxRestores]
Windows ==
    [open : BOOLEAN, gen : Nat, waits : BOOLEAN,
     says : {"", "syncing", "sync failed", "out of sync", "all in sync"}]

RepairTypeOK == repairLeft \in RepairScenesLeft /\ editor \in Windows /\ loops \subseteq ResyncRuns

RepairInv ==
    /\ RepairTypeOK
    /\ \A l \in loops : l.gen <= editor.gen
    /\ EachWindowSyncsOnce

(* What is left of a scene after one more gesture.                         *)
LEMMA RepairSceneLeft ==
    ASSUME repairLeft \in RepairScenesLeft, UNCHANGED repairLeft \/ (repairLeft.gestures > 0 /\ RepairSpent)
    PROVE  repairLeft' \in RepairScenesLeft
<1>1. PICK g : g = repairLeft.gestures - 1
  OBVIOUS
<1>2. repairLeft.gestures > 0 => g \in Nat
  BY <1>1 DEF RepairScenesLeft
<1> QED BY <1>1, <1>2 DEF RepairSpent, RepairScenesLeft

(* A run goes on, and no button changes but that of a window it closes.    *)
LEMMA RunGoes ==
    ASSUME RepairInv, NEW l \in loops, NEW m \in ResyncRuns, m.gen = l.gen,
           loops' = (loops \ {l}) \cup {m}, repairLeft' \in RepairScenesLeft,
           editor' = editor \/ editor' = [editor EXCEPT !.open = FALSE]
    PROVE  RepairInv'
<1>1. editor' \in Windows /\ editor'.gen = editor.gen /\ editor'.waits = editor.waits /\ (editor'.open => editor.open)
  BY DEF RepairInv, RepairTypeOK, Windows
<1>2. RepairTypeOK'
  BY <1>1 DEF RepairInv, RepairTypeOK
<1>3. \A k \in loops' : k.gen <= editor'.gen
  BY <1>1 DEF RepairInv
<1>4. \A g : (\E k \in loops' : k.gen = g) <=> (\E k \in loops : k.gen = g)
  OBVIOUS
<1>5. EachWindowSyncsOnce'
  BY <1>1, <1>4 DEF RepairInv, EachWindowSyncsOnce
<1> QED BY <1>2, <1>3, <1>5 DEF RepairInv

(* A run ends, and the button of its window is free if that is open.       *)
LEMMA RunLeaves ==
    ASSUME RepairInv, NEW l \in loops, NEW says \in {"", "sync failed"}, loops' = loops \ {l},
           repairLeft' \in RepairScenesLeft, editor' \in Windows, editor'.open = editor.open,
           editor'.gen = editor.gen, editor'.waits = Button(l, says).waits
    PROVE  RepairInv'
<1>1. RepairTypeOK' /\ (\A k \in loops' : k.gen <= editor'.gen)
  BY DEF RepairInv, RepairTypeOK
<1>2. \A k, m \in loops' : k.gen = m.gen => k = m
  BY DEF RepairInv, EachWindowSyncsOnce
<1>3. ASSUME editor'.open PROVE editor'.waits <=> \E k \in loops' : k.gen = editor'.gen
  <2>1. editor.open /\ editor'.gen = editor.gen /\ editor \in Windows
    BY <1>3 DEF RepairInv, RepairTypeOK
  <2>2. CASE editor.gen = l.gen
    <3>1. ~editor'.waits
      BY <2>1, <2>2 DEF Button, Windows
    <3>2. \A k \in loops' : k.gen # editor.gen
      BY <2>2 DEF RepairInv, EachWindowSyncsOnce
    <3> QED BY <2>1, <3>1, <3>2
  <2>3. CASE editor.gen # l.gen
    <3>1. editor'.waits = editor.waits
      BY <2>3 DEF Button
    <3> QED BY <2>1, <2>3, <3>1 DEF RepairInv, EachWindowSyncsOnce
  <2> QED BY <2>2, <2>3
<1> QED BY <1>1, <1>2, <1>3 DEF RepairInv, EachWindowSyncsOnce

(* The window, and the button pressed.                                     *)
LEMMA WindowSteps ==
    ASSUME RepairInv, OpenRepairWindow \/ CloseRepairWindow \/ PressResync
    PROVE  RepairInv'
<1>1. repairLeft' \in RepairScenesLeft /\ editor \in Windows /\ loops \subseteq ResyncRuns
  BY RepairSceneLeft DEF RepairInv, RepairTypeOK, OpenRepairWindow, CloseRepairWindow, PressResync, RepairActs
<1>2. CASE OpenRepairWindow
  <2>1. Summary \in {"out of sync", "all in sync"}
    BY DEF Summary
  <2>2. loops' = loops /\ editor' = [open |-> TRUE, gen |-> editor.gen + 1, waits |-> FALSE, says |-> Summary]
    BY <1>2 DEF OpenRepairWindow
  <2>3. editor.gen \in Nat /\ editor'.gen = editor.gen + 1 /\ ~editor'.waits /\ editor' \in Windows
    <3>1. PICK g : g = editor.gen + 1
      OBVIOUS
    <3>4. editor.gen \in Nat
      BY <1>1 DEF Windows
    <3>2. editor.gen \in Nat /\ g \in Nat
      BY <3>1, <3>4
    <3>3. editor' = [open |-> TRUE, gen |-> g, waits |-> FALSE, says |-> Summary]
      BY <2>2, <3>1
    <3> QED BY <2>1, <3>1, <3>2, <3>3 DEF Windows
  <2>4. \A l \in loops : l.gen \in Nat /\ l.gen < editor'.gen
    BY <1>1, <2>3 DEF RepairInv, ResyncRuns
  <2> QED BY <1>1, <2>2, <2>3, <2>4 DEF RepairInv, RepairTypeOK, EachWindowSyncsOnce
<1>3. CASE CloseRepairWindow
  <2>1. loops' = loops /\ editor' \in Windows /\ ~editor'.open /\ editor'.gen = editor.gen
    BY <1>1, <1>3 DEF CloseRepairWindow, Windows
  <2> QED BY <1>1, <2>1 DEF RepairInv, RepairTypeOK, EachWindowSyncsOnce
<1>4. CASE PressResync
  <2>1. PICK l : l = [n |-> repairLeft.gestures, gen |-> editor.gen, at |-> "asking",
                      todo |-> {}, track |-> FirstTrack, job |-> 0]
    OBVIOUS
  <2>2. repairLeft.gestures \in Nat /\ editor.gen \in Nat /\ 0 \in 0..MaxRestores
    <3>1. repairLeft.gestures \in Nat
      BY DEF RepairInv, RepairTypeOK, RepairScenesLeft
    <3>2. editor.gen \in Nat
      BY <1>1 DEF Windows
    <3>3. 0 \in 0..MaxRestores
      BY RepairAssumption
    <3> QED BY <3>1, <3>2, <3>3
  <2>3. l \in ResyncRuns /\ l.gen = editor.gen
    BY <2>1, <2>2 DEF ResyncRuns
  <2>4. loops' = loops \cup {l} /\ editor.open /\ ~editor.waits
    BY <1>4, <2>1 DEF PressResync
  <2>5. editor' \in Windows /\ editor'.open /\ editor'.waits /\ editor'.gen = editor.gen
    BY <1>1, <1>4, <2>4 DEF PressResync, Windows
  <2>6. \A k \in loops : k.gen # editor.gen
    BY <2>4 DEF RepairInv, EachWindowSyncsOnce
  <2>7. (\A k \in loops' : k.gen <= editor'.gen) /\ loops' \subseteq ResyncRuns
    BY <1>1, <2>2, <2>3, <2>4, <2>5 DEF RepairInv
  <2> QED BY <1>1, <2>3, <2>4, <2>5, <2>6, <2>7 DEF RepairInv, RepairTypeOK, EachWindowSyncsOnce
<1> QED BY <1>2, <1>3, <1>4

(* What the button of the window shows does not open another window.       *)
LEMMA ButtonKeepsWindow ==
    ASSUME NEW l, NEW says \in {"", "sync failed"}, editor \in Windows
    PROVE  /\ Button(l, says) \in Windows
           /\ Button(l, says).open = editor.open /\ Button(l, says).gen = editor.gen
  BY DEF Button, Windows

(* A run asks, imports, waits or ends.                                     *)
LEMMA RunSteps ==
    ASSUME RepairInv, NEW l \in loops,
           \/ ResyncWaitEnds(l) \/ ResyncGivesUp(l) \/ ResyncEnds(l)
           \/ \E t \in RepairTracks : RestoreNext(l, t)
           \/ \E ok \in BOOLEAN : ResyncAsked(l, ok)
    PROVE  RepairInv'
<1>1. l \in ResyncRuns /\ repairLeft' \in RepairScenesLeft /\ editor \in Windows
  BY RepairSceneLeft DEF RepairInv, RepairTypeOK, ResyncWaitEnds, ResyncGivesUp, ResyncEnds, RestoreNext, ResyncAsked, RepairActs
<1>2. ASSUME NEW at \in {"next", "syncing"}, loops' = Runs(l, at), editor' = editor PROVE RepairInv'
  <2>1. PICK m : m = [l EXCEPT !.at = at]
    OBVIOUS
  <2>2. m \in ResyncRuns /\ m.gen = l.gen
    BY <1>1, <2>1 DEF ResyncRuns
  <2> QED BY <1>1, <1>2, <2>1, <2>2, RunGoes DEF Runs
<1>3. CASE ResyncEnds(l) \/ ResyncAsked(l, FALSE)
  <2>1. PICK says \in {"", "sync failed"} : loops' = loops \ {l} /\ editor' = Button(l, says)
    BY <1>3 DEF ResyncEnds, ResyncAsked
  <2> QED BY <1>1, <2>1, ButtonKeepsWindow, RunLeaves
<1>4. CASE ResyncAsked(l, TRUE) \/ ResyncWaitEnds(l) \/ ResyncGivesUp(l)
  BY <1>2, <1>4 DEF ResyncAsked, ResyncWaitEnds, ResyncGivesUp
<1>5. CASE \E t \in RepairTracks : RestoreNext(l, t)
  <2>1. PICK t \in RepairTracks : RestoreNext(l, t)
    BY <1>5
  <2>2. PICK m : m = [l EXCEPT !.at = "importing", !.track = t, !.todo = @ \ {t}]
    OBVIOUS
  <2>3. m \in ResyncRuns /\ m.gen = l.gen
    BY <1>1, <2>2 DEF ResyncRuns
  <2> QED BY <1>1, <2>1, <2>2, <2>3, RunGoes DEF RestoreNext
<1> QED BY <1>3, <1>4, <1>5

(* What the server has is told of the rows, and what to import is known.   *)
LEMMA KnowsStep ==
    ASSUME RepairInv, NEW l \in loops, NEW ok \in BOOLEAN, ResyncKnows(l, ok)
    PROVE  RepairInv'
<1>1. l \in ResyncRuns /\ repairLeft' \in RepairScenesLeft /\ editor \in Windows
  BY DEF RepairInv, RepairTypeOK, ResyncKnows
<1>2. PICK todo \in SUBSET RepairTracks :
         \/ loops' = loops \ {l} /\ \E s \in {Button(l, "").says, "out of sync", "all in sync"} :
                                     editor' = [Button(l, "") EXCEPT !.says = s]
         \/ /\ loops' = (loops \ {l}) \cup {[l EXCEPT !.at = "next", !.todo = todo]}
            /\ editor' = [editor EXCEPT !.open = FALSE]
  BY DEF ResyncKnows
<1>3. CASE loops' = loops \ {l} /\ \E s \in {Button(l, "").says, "out of sync", "all in sync"} :
                                     editor' = [Button(l, "") EXCEPT !.says = s]
  <2>1. PICK b : b = Button(l, "")
    OBVIOUS
  <2>2. b \in Windows /\ b.open = editor.open /\ b.gen = editor.gen
    BY <1>1, <2>1, ButtonKeepsWindow
  <2>3. editor' \in Windows /\ editor'.open = b.open /\ editor'.gen = b.gen /\ editor'.waits = b.waits
    BY <1>3, <2>1, <2>2 DEF Windows
  <2> QED BY <1>1, <1>3, <2>1, <2>2, <2>3, RunLeaves
<1>4. CASE /\ loops' = (loops \ {l}) \cup {[l EXCEPT !.at = "next", !.todo = todo]}
           /\ editor' = [editor EXCEPT !.open = FALSE]
  <2>1. PICK m : m = [l EXCEPT !.at = "next", !.todo = todo]
    OBVIOUS
  <2>2. m \in ResyncRuns /\ m.gen = l.gen
    BY <1>1, <2>1 DEF ResyncRuns
  <2> QED BY <1>1, <1>4, <2>1, <2>2, RunGoes
<1> QED BY <1>2, <1>3, <1>4

(* A POST is answered: the run goes on.                                    *)
LEMMA PostedStep ==
    ASSUME RepairInv, NEW l \in loops, NEW ok \in BOOLEAN, RestorePosted(l, ok)
    PROVE  RepairInv'
<1>1. l \in ResyncRuns /\ repairLeft' \in RepairScenesLeft /\ editor' = editor
  BY DEF RepairInv, RepairTypeOK, RestorePosted
<1>2. PICK m : /\ loops' = (loops \ {l}) \cup {m}
               /\ m = [l EXCEPT !.at = "next"] \/ \E n \in RestoreIds : m = [l EXCEPT !.at = "waiting", !.job = n]
  BY DEF RestorePosted, Runs
<1>3. RestoreIds \subseteq 0..MaxRestores
  BY RepairAssumption DEF RestoreIds
<1>4. m \in ResyncRuns /\ m.gen = l.gen
  BY <1>1, <1>2, <1>3 DEF ResyncRuns
<1> QED BY <1>1, <1>2, <1>4, RunGoes

(* Steps of the jobs and the rows.                                         *)
LEMMA RowsGoOn == RepairInv /\ UNCHANGED <<loops, editor>> /\ repairLeft' \in RepairScenesLeft => RepairInv'
  BY DEF RepairInv, RepairTypeOK, EachWindowSyncsOnce

LEMMA RepairInitOK == RepairInit => RepairInv
<1> SUFFICES ASSUME RepairInit PROVE RepairInv
  OBVIOUS
<1>1. editor \in Windows /\ loops = {} /\ repairLeft \in RepairScenesLeft /\ ~editor.open
  BY RepairAssumption DEF RepairInit, Windows, RepairScenesLeft
<1> QED BY <1>1 DEF RepairInv, RepairTypeOK, EachWindowSyncsOnce

LEMMA RepairStepOK == RepairInv /\ [RepairNext]_repairVars => RepairInv'
<1> SUFFICES ASSUME RepairInv, [RepairNext]_repairVars PROVE RepairInv'
  OBVIOUS
<1>1. CASE UNCHANGED repairVars
  BY <1>1, RowsGoOn DEF repairVars, RepairInv, RepairTypeOK
<1>2. CASE OpenRepairWindow \/ CloseRepairWindow \/ PressResync
  BY <1>2, WindowSteps
<1>3. ASSUME NEW t \in RepairTracks, Purge(t) \/ RowHears(t) PROVE RepairInv'
  <2>1. UNCHANGED <<loops, editor>> /\ repairLeft' \in RepairScenesLeft
    BY <1>3, RepairSceneLeft DEF Purge, RowHears, RepairActs, RepairInv, RepairTypeOK
  <2> QED BY <2>1, RowsGoOn
<1>4. ASSUME NEW n \in RestoreIds, NEW how \in {"done", "failed"}, RestoreEnds(n, how) PROVE RepairInv'
  BY <1>4, RowsGoOn DEF RestoreEnds, RepairInv, RepairTypeOK
<1>5. ASSUME NEW l \in loops, ResyncWaitEnds(l) \/ ResyncGivesUp(l) \/ ResyncEnds(l)
                              \/ \E t \in RepairTracks : RestoreNext(l, t)
      PROVE  RepairInv'
  BY <1>5, RunSteps
<1>6. ASSUME NEW l \in loops, NEW ok \in BOOLEAN, ResyncAsked(l, ok) \/ ResyncKnows(l, ok) \/ RestorePosted(l, ok)
      PROVE  RepairInv'
  BY <1>6, RunSteps, KnowsStep, PostedStep
<1> QED BY <1>1, <1>2, <1>3, <1>4, <1>5, <1>6 DEF RepairNext

(* However many runs of Resync overlap, with windows opened and closed and *)
(* tracks deleted on the way: a window has at most one, and its button     *)
(* waits just as long.                                                     *)
THEOREM WindowsSyncOnce == RepairSpec => []EachWindowSyncsOnce
<1>1. RepairInv => EachWindowSyncsOnce
  BY DEF RepairInv
<1> QED BY <1>1, RepairInitOK, RepairStepOK, PTL DEF RepairSpec

-----------------------------------------------------------------------------
(* The phone.  A load of its own token is the only one that may still make *)
(* an engine, and what asks about a job was never its stream.              *)

Phones ==
    [current : Cards \cup {NoCard}, token : Nat, engine : Nat, of : Cards \cup {NoCard},
     ready : BOOLEAN, pending : BOOLEAN, playing : BOOLEAN, alive : SUBSET Nat, sounding : Nat]
Openings == [track : Cards, token : Nat, stage : {"detail", "engine"}]

(* The page's engine, and its music.                                       *)
PhoneOK(p) ==
    /\ p \in Phones /\ p.engine <= p.token
    /\ p.alive = {p.engine} \ {NoEngine}
    /\ p.engine # NoEngine => p.of = p.current
    /\ p.playing <=> p.sounding # NoEngine
    /\ p.sounding \in {p.engine, NoEngine}

(* A load under way, beside the page.                                      *)
LoadFits(o, p) ==
    /\ 1 <= o.token /\ o.token <= p.token
    /\ o.token = p.token =>
         /\ p.current \in {o.track, NoCard}
         /\ o.stage = "detail" => p.engine = NoEngine
         /\ o.stage = "engine" /\ p.current # NoCard => p.engine # NoEngine

LoadsFit(ls, p) ==
    /\ ls \subseteq Openings
    /\ \A o \in ls : LoadFits(o, p)
    /\ \A o, l \in ls : o.token = l.token => o = l

(* The page without its engine.                                            *)
LEMMA WithoutIt ==
    ASSUME PhoneOK(phone), NEW q, q = WithoutEngine(phone)
    PROVE  /\ q \in Phones /\ q.engine = NoEngine /\ q.alive = {} /\ q.sounding = NoEngine
           /\ q.current = phone.current /\ q.token = phone.token /\ q.playing = phone.playing
<1>1. q \in Phones
  BY DEF WithoutEngine, PhoneOK, Phones, NoEngine
<1> QED BY <1>1 DEF WithoutEngine, PhoneOK, Phones, NoEngine

(* Another track, or the same one again.                                   *)
LEMMA LoadStep ==
    ASSUME PhoneOK(phone), LoadsFit(opening, phone), NEW t \in Cards, NEW autoplay \in BOOLEAN,
           Load(t, autoplay)
    PROVE  PhoneOK(phone') /\ LoadsFit(opening', phone')
<1>1. PICK n \in Nat : n = phone.token + 1
  BY DEF PhoneOK, Phones
<1>2. PICK q : q = WithoutEngine(phone)
  OBVIOUS
<1>3. /\ phone' = [q EXCEPT !.current = t, !.playing = FALSE, !.token = n, !.pending = autoplay]
      /\ opening' = opening \cup {[track |-> t, token |-> n, stage |-> "detail"]}
  <2>1. q.token = phone.token
    BY <1>2, WithoutIt
  <2> QED BY <1>1, <1>2, <2>1 DEF Load
<1>4. /\ q \in Phones /\ q.engine = NoEngine /\ q.alive = {} /\ q.sounding = NoEngine
  BY <1>2, WithoutIt
<1>5. /\ phone' \in Phones /\ phone'.engine = NoEngine /\ phone'.alive = {}
      /\ phone'.sounding = NoEngine /\ phone'.current = t /\ ~phone'.playing /\ phone'.token = n
  BY <1>1, <1>3, <1>4 DEF Phones
<1>6. PhoneOK(phone')
  BY <1>5 DEF PhoneOK, NoEngine
<1>7. PICK l : l = [track |-> t, token |-> n, stage |-> "detail"]
  OBVIOUS
<1>8. l \in Openings /\ l.track = t /\ l.token = n /\ l.stage = "detail"
  BY <1>1, <1>7 DEF Openings
<1>9. \A o \in opening : o.token < n /\ 1 <= o.token
  BY <1>1 DEF LoadsFit, LoadFits, PhoneOK, Phones, Openings
<1>10. LoadFits(l, phone') /\ \A o \in opening : LoadFits(o, phone')
  <2>1. LoadFits(l, phone')
    BY <1>1, <1>5, <1>8, <1>9 DEF LoadFits, PhoneOK, Phones
  <2>2. \A o \in opening : LoadFits(o, phone')
    BY <1>1, <1>5, <1>9 DEF LoadFits, LoadsFit, Openings
  <2> QED BY <2>1, <2>2
<1>11. opening' = opening \cup {l}
  BY <1>3, <1>7
<1>12. \A o \in opening : o.token # l.token
  BY <1>1, <1>8, <1>9 DEF LoadsFit, Openings
<1>13. LoadsFit(opening', phone')
  BY <1>8, <1>10, <1>11, <1>12 DEF LoadsFit
<1> QED BY <1>6, <1>13

(* Whether it plays, is up, or is to play once up.                         *)
SamePlace(p, q) ==
    /\ q \in Phones
    /\ q.engine = p.engine /\ q.of = p.of /\ q.current = p.current /\ q.token = p.token
    /\ q.alive = p.alive
    /\ q.playing <=> q.sounding # NoEngine
    /\ q.sounding \in {q.engine, NoEngine}

LEMMA SamePlaceFits ==
    ASSUME NEW p, PhoneOK(p), NEW ls, LoadsFit(ls, p), NEW q, SamePlace(p, q)
    PROVE  PhoneOK(q) /\ LoadsFit(ls, q)
  BY DEF PhoneOK, LoadsFit, LoadFits, SamePlace

LEMMA FewerLoads ==
    ASSUME NEW p, NEW ls, LoadsFit(ls, p), NEW o PROVE LoadsFit(ls \ {o}, p)
  BY DEF LoadsFit

LEMMA TapPlayStep ==
    ASSUME PhoneOK(phone), LoadsFit(opening, phone), TapPlay
    PROVE  PhoneOK(phone') /\ LoadsFit(opening', phone')
<1>1. CASE phone.engine = NoEngine \/ phone.of # phone.current
  <2>1. Load(phone.current, TRUE) /\ phone.current \in Cards
    BY <1>1 DEF TapPlay, PhoneOK, Phones
  <2> QED BY <2>1, LoadStep
<1>2. CASE ~(phone.engine = NoEngine \/ phone.of # phone.current)
  <2>1. /\ opening' = opening
        /\ \/ phone' = [phone EXCEPT !.pending = TRUE]
           \/ phone' = [phone EXCEPT !.sounding = NoEngine, !.playing = FALSE]
           \/ phone' = [phone EXCEPT !.sounding = phone.engine, !.playing = TRUE]
    BY <1>2 DEF TapPlay
  <2>2. phone' \in Phones
    <3>1. phone \in Phones /\ 0 \in Nat
      BY DEF PhoneOK
    <3>2. [phone EXCEPT !.pending = TRUE] \in Phones
      BY <3>1 DEF Phones
    <3>3. [phone EXCEPT !.sounding = NoEngine, !.playing = FALSE] \in Phones
      BY <3>1 DEF Phones, NoEngine
    <3>4. [phone EXCEPT !.sounding = phone.engine, !.playing = TRUE] \in Phones
      BY <3>1 DEF Phones
    <3> QED BY <2>1, <3>2, <3>3, <3>4
  <2>3. SamePlace(phone, phone')
    BY <1>2, <2>1, <2>2 DEF SamePlace, PhoneOK, Phones
  <2> QED BY <2>1, <2>3, SamePlaceFits
<1> QED BY <1>1, <1>2

LEMMA SongEndsStep ==
    ASSUME PhoneOK(phone), LoadsFit(opening, phone), SongEnds
    PROVE  PhoneOK(phone') /\ LoadsFit(opening', phone')
<1>1. phone' = [phone EXCEPT !.sounding = NoEngine, !.playing = FALSE] /\ opening' = opening
  BY DEF SongEnds
<1>2. phone' \in Phones
  BY <1>1 DEF PhoneOK, Phones, NoEngine
<1>3. SamePlace(phone, phone')
  BY <1>1, <1>2 DEF SamePlace, PhoneOK, Phones
<1> QED BY <1>1, <1>3, SamePlaceFits

(* An answer that is thrown away.                                          *)
LEMMA OpeningEndsStep ==
    ASSUME PhoneOK(phone), LoadsFit(opening, phone), NEW o \in opening, OpeningEnds(o) \/ DetailFails(o)
    PROVE  PhoneOK(phone') /\ LoadsFit(opening', phone')
<1>1. /\ opening' = opening \ {o}
      /\ phone' \in {phone, [phone EXCEPT !.ready = TRUE, !.pending = FALSE]}
  BY DEF OpeningEnds, DetailFails
<1>2. phone' \in Phones
  BY <1>1 DEF PhoneOK, Phones
<1>3. SamePlace(phone, phone')
  BY <1>1, <1>2 DEF SamePlace, PhoneOK, Phones
<1> QED BY <1>1, <1>3, SamePlaceFits, FewerLoads

(* The details come, and an engine is made of them.                        *)
LEMMA DetailAnswersStep ==
    ASSUME PhoneOK(phone), LoadsFit(opening, phone), NEW o \in opening, DetailAnswers(o)
    PROVE  PhoneOK(phone') /\ LoadsFit(opening', phone')
<1>1. /\ o \in Openings /\ o.token = phone.token /\ o.stage = "detail"
      /\ phone.engine = NoEngine /\ phone.current = o.track /\ 1 <= o.token
      /\ \A l \in opening \ {o} : l.token # o.token
  BY DEF DetailAnswers, StillOpening, LoadsFit, LoadFits
<1>2. phone.alive = {} /\ phone.sounding = NoEngine /\ ~phone.playing
  BY <1>1 DEF PhoneOK
<1>3. phone' = [phone EXCEPT !.engine = o.token, !.of = o.track, !.alive = phone.alive \cup {o.token}]
      /\ opening' = (opening \ {o}) \cup {[o EXCEPT !.stage = "engine"]}
  BY DEF DetailAnswers
<1>4. phone' \in Phones
  BY <1>1, <1>3 DEF PhoneOK, Phones, Openings
<1>5. /\ phone'.engine = o.token /\ phone'.of = o.track /\ phone'.alive = {o.token}
      /\ phone'.current = phone.current /\ phone'.token = phone.token
      /\ phone'.sounding = NoEngine /\ ~phone'.playing
  BY <1>2, <1>3 DEF PhoneOK, Phones
<1>6. o.token # NoEngine
  BY <1>1 DEF NoEngine
<1>7. PhoneOK(phone')
  BY <1>1, <1>4, <1>5, <1>6 DEF PhoneOK, Phones
<1>8. PICK l : l = [o EXCEPT !.stage = "engine"]
  OBVIOUS
<1>9. l \in Openings /\ l.track = o.track /\ l.token = o.token /\ l.stage = "engine"
  BY <1>1, <1>8 DEF Openings
<1>10. LoadFits(l, phone')
  BY <1>1, <1>5, <1>6, <1>9, <1>7 DEF LoadFits, PhoneOK, Phones
<1>11. \A m \in opening \ {o} : LoadFits(m, phone')
  BY <1>1, <1>5 DEF LoadFits, LoadsFit
<1>12. opening' = (opening \ {o}) \cup {l}
  BY <1>3, <1>8
<1>13. LoadsFit(opening', phone')
  BY <1>1, <1>9, <1>10, <1>11, <1>12 DEF LoadsFit
<1> QED BY <1>7, <1>13

LEMMA EngineIsReadyStep ==
    ASSUME PhoneOK(phone), LoadsFit(opening, phone), NEW o \in opening, NEW ok \in BOOLEAN,
           EngineIsReady(o, ok)
    PROVE  PhoneOK(phone') /\ LoadsFit(opening', phone')
<1>1. o.token = phone.token /\ phone.engine # NoEngine
  BY DEF EngineIsReady, StillOpening, LoadsFit, LoadFits
<1>2. /\ opening' = opening \ {o}
      /\ \/ phone' = [phone EXCEPT !.pending = FALSE]
         \/ phone' = [phone EXCEPT !.ready = TRUE, !.pending = FALSE,
                                   !.sounding = phone.engine, !.playing = TRUE]
         \/ phone' = [phone EXCEPT !.ready = TRUE]
  BY DEF EngineIsReady
<1>3. phone' \in Phones
  BY <1>2 DEF PhoneOK, Phones
<1>4. SamePlace(phone, phone')
  BY <1>1, <1>2, <1>3 DEF SamePlace, PhoneOK, Phones
<1> QED BY <1>2, <1>4, SamePlaceFits, FewerLoads

(* The track on screen is deleted, and its engine with it.                 *)
LEMMA DeleteLandsStep ==
    ASSUME PhoneOK(phone), LoadsFit(opening, phone), NEW t \in Cards, DeleteLands(t)
    PROVE  PhoneOK(phone') /\ LoadsFit(opening', phone')
<1>1. CASE phone.current # t
  BY <1>1 DEF DeleteLands
<1>2. CASE phone.current = t
  <2>1. PICK q : q = IF phone.engine = NoEngine THEN phone ELSE WithoutEngine(phone)
    OBVIOUS
  <2>2. phone' = [q EXCEPT !.current = NoCard, !.playing = FALSE] /\ opening' = opening
    BY <1>2, <2>1 DEF DeleteLands
  <2>3. /\ q \in Phones /\ q.engine = NoEngine /\ q.alive = {} /\ q.sounding = NoEngine
        /\ q.token = phone.token
    BY <2>1, WithoutIt DEF PhoneOK
  <2>4. /\ phone' \in Phones /\ phone'.engine = NoEngine /\ phone'.alive = {}
        /\ phone'.sounding = NoEngine /\ phone'.current = NoCard /\ ~phone'.playing
        /\ phone'.token = phone.token
    BY <2>2, <2>3 DEF Phones
  <2>5. PhoneOK(phone')
    BY <2>4 DEF PhoneOK, Phones, NoEngine
  <2>6. LoadsFit(opening', phone')
    BY <2>2, <2>4 DEF LoadsFit, LoadFits
  <2> QED BY <2>5, <2>6
<1> QED BY <1>1, <1>2

-----------------------------------------------------------------------------
(* The extraction.                                                         *)

JobCards == [shown : BOOLEAN, id : Nat, split : BOOLEAN]
JobStates ==
    [card : JobCards, posts : Nat, made : Nat, asks : SUBSET Nat, splits : SUBSET Nat,
     closing : SUBSET Nat, ended : SUBSET Nat]
Follows == [by : {"none", "stream", "poll"}, job : Nat]

JobOK(j) ==
    /\ j \in JobStates
    /\ j.asks \subseteq 1..j.made /\ j.ended \subseteq 1..j.made
    /\ ~j.card.shown => j.card.id = 0
FollowOK(f, j) ==
    /\ f \in Follows /\ f.job <= j.made
    /\ f.by # "none" => f.job # 0 /\ f.job \notin j.ended /\ j.card.id \in {0, f.job}
    /\ f.by = "stream" => f.job \notin j.asks

(* An extraction is asked for.                                             *)
LEMMA PostSteps ==
    ASSUME JobOK(job), FollowOK(follow, job),
           PostRefused \/ \E split \in BOOLEAN : StartExtraction(split)
    PROVE  JobOK(job') /\ FollowOK(follow', job')
<1>1. \A n \in Nat : n > 0 => n - 1 \in Nat
  OBVIOUS
<1>2. PICK n \in Nat, c \in JobCards : c.id = 0 /\ job' = [job EXCEPT !.card = c, !.posts = n]
  <2>1. CASE PostRefused
    <3>1. PICK n : n = job.posts - 1
      OBVIOUS
    <3>2. n \in Nat
      BY <2>1, <3>1, <1>1 DEF PostRefused, JobOK, JobStates
    <3>3. NoJobCard \in JobCards /\ NoJobCard.id = 0
      BY DEF JobCards, NoJobCard
    <3>4. job' = [job EXCEPT !.card = NoJobCard, !.posts = n]
      BY <2>1, <3>1 DEF PostRefused, JobOK, JobStates
    <3> QED BY <3>2, <3>3, <3>4
  <2>2. CASE \E split \in BOOLEAN : StartExtraction(split)
    <3>1. PICK split \in BOOLEAN : StartExtraction(split)
      BY <2>2
    <3>2. PICK n : n = job.posts + 1
      OBVIOUS
    <3>3. n \in Nat
      BY <3>2 DEF JobOK, JobStates
    <3>4. PICK c : c = [shown |-> TRUE, id |-> 0, split |-> split]
      OBVIOUS
    <3>5. c \in JobCards /\ c.id = 0
      BY <3>4 DEF JobCards
    <3>6. job' = [job EXCEPT !.card = c, !.posts = n]
      BY <3>1, <3>2, <3>4 DEF StartExtraction
    <3> QED BY <3>3, <3>5, <3>6
  <2> QED BY <2>1, <2>2
<1>3. /\ job' \in JobStates /\ job'.card.id = 0 /\ job'.made = job.made /\ job'.asks = job.asks
      /\ job'.ended = job.ended
  BY <1>2 DEF JobOK, JobStates
<1>4. follow' = follow
  BY DEF PostRefused, StartExtraction
<1> QED BY <1>3, <1>4 DEF JobOK, FollowOK

(* The server takes it, and what watched the last one is closed.           *)
LEMMA AcceptedStep ==
    ASSUME JobOK(job), FollowOK(follow, job), PostAccepted
    PROVE  JobOK(job') /\ FollowOK(follow', job')
<1>1. PICK n : n = job.posts - 1
  OBVIOUS
<1>2. PICK id : id = job.made + 1
  OBVIOUS
<1>3. n \in Nat /\ id \in Nat /\ id > job.made /\ job.made \in Nat
  <2>1. job.posts \in Nat /\ job.made \in Nat /\ job.posts > 0
    BY DEF PostAccepted, JobOK, JobStates
  <2> QED BY <1>1, <1>2, <2>1
<1>4. PICK k : k = IF job.card.shown THEN id ELSE job.card.id
  OBVIOUS
<1>5. PICK c : c = [job.card EXCEPT !.id = k]
  OBVIOUS
<1>6. /\ job' = [job EXCEPT !.posts = n, !.made = id, !.card = c]
      /\ follow' = IF job.card.shown THEN [by |-> "stream", job |-> id] ELSE follow
  BY <1>1, <1>2, <1>4, <1>5 DEF PostAccepted, JobOK, JobStates
<1>7. c \in JobCards /\ c.id = k /\ c.shown = job.card.shown
  BY <1>3, <1>4, <1>5 DEF JobOK, JobStates, JobCards
<1>8. /\ job' \in JobStates /\ job'.card = c /\ job'.made = id /\ job'.asks = job.asks
      /\ job'.ended = job.ended
  BY <1>3, <1>6, <1>7 DEF JobOK, JobStates
<1>9. job.asks \subseteq 1..id /\ job.ended \subseteq 1..id /\ id \notin job.asks /\ id \notin job.ended
  BY <1>3 DEF JobOK
<1>10. JobOK(job')
  BY <1>4, <1>7, <1>8, <1>9 DEF JobOK
<1>11. FollowOK(follow', job')
  <2>1. CASE job.card.shown
    <3>1. follow' \in Follows /\ follow'.job = id /\ follow'.by = "stream"
      BY <1>3, <1>6, <2>1 DEF Follows
    <3> QED BY <1>3, <1>4, <1>7, <1>8, <1>9, <2>1, <3>1 DEF FollowOK, Follows
  <2>2. CASE ~job.card.shown
    <3>1. c.id = 0
      BY <1>4, <1>7, <2>2 DEF JobOK
    <3>2. follow' = follow /\ follow.job \in Nat /\ follow.job <= id
      BY <1>3, <1>6, <2>2 DEF FollowOK, Follows
    <3> QED BY <1>8, <3>1, <3>2 DEF FollowOK
  <2> QED BY <2>1, <2>2
<1> QED BY <1>10, <1>11

(* The end of the job on the card.                                         *)
LEMMA EndedIs ==
    ASSUME JobOK(job), NEW id \in 1..job.made, NEW j, j = Ended(id)
    PROVE  /\ JobOK(j) /\ j.card = job.card /\ j.made = job.made /\ j.asks = job.asks
           /\ j.ended = job.ended \cup {id}
<1>1. id \in Nat /\ job.made \in Nat
  BY DEF JobOK, JobStates
<1>2. /\ j \in JobStates /\ j.card = job.card /\ j.made = job.made /\ j.asks = job.asks
      /\ j.ended = job.ended \cup {id}
  BY <1>1 DEF Ended, JobOK, JobStates
<1> QED BY <1>2 DEF JobOK

(* What is followed, while asks are answered.                              *)
LEMMA FollowsOn ==
    ASSUME NEW f, NEW j, NEW k, FollowOK(f, j), k.made = j.made, k.asks \subseteq j.asks,
           k.ended = j.ended, k.card = j.card
    PROVE  FollowOK(f, k)
  BY DEF FollowOK

LEMMA NothingFollowed == ASSUME NEW j, j.made \in Nat PROVE FollowOK(NoFollow, j)
  BY DEF FollowOK, NoFollow, Follows

LEMMA StreamSteps ==
    ASSUME JobOK(job), FollowOK(follow, job),
           StreamBreaks \/ PollAsks \/ \E over \in BOOLEAN : StreamTells(over)
    PROVE  JobOK(job') /\ FollowOK(follow', job')
<1>1. follow \in Follows /\ job.made \in Nat
  BY DEF FollowOK, JobOK, JobStates
<1>2. CASE StreamBreaks
  <2>1. follow' \in Follows /\ follow'.job = follow.job /\ follow'.by = "poll" /\ job' = job /\ follow.by # "none"
    BY <1>1, <1>2 DEF StreamBreaks, Follows
  <2> QED BY <2>1 DEF FollowOK
<1>3. CASE PollAsks
  <2>1. follow' = follow /\ follow.by = "poll" /\ job' = [job EXCEPT !.asks = job.asks \cup {follow.job}]
    BY <1>3 DEF PollAsks
  <2>2. follow.job \in 1..job.made
    BY <1>1, <2>1 DEF FollowOK, Follows
  <2>3. /\ job' \in JobStates /\ job'.card = job.card /\ job'.made = job.made
        /\ job'.asks = job.asks \cup {follow.job} /\ job'.ended = job.ended
    BY <1>1, <2>1 DEF JobOK, JobStates, Follows
  <2> QED BY <2>1, <2>2, <2>3 DEF JobOK, FollowOK
<1>4. CASE \E over \in BOOLEAN : StreamTells(over)
  <2>1. \/ UNCHANGED <<job, follow>>
        \/ job' = Ended(follow.job) /\ follow' = NoFollow /\ follow.by = "stream"
    BY <1>4 DEF StreamTells
  <2>2. CASE job' = Ended(follow.job) /\ follow' = NoFollow /\ follow.by = "stream"
    <3>1. follow.job \in 1..job.made
      BY <1>1, <2>2 DEF FollowOK, Follows
    <3>2. JobOK(job') /\ job'.made = job.made
      BY <2>2, <3>1, EndedIs
    <3> QED BY <1>1, <2>2, <3>2 DEF FollowOK, NoFollow, Follows
  <2> QED BY <2>1, <2>2
<1> QED BY <1>2, <1>3, <1>4

(* An ask is answered, while others are on their way.                      *)
LEMMA PollAnswersStep ==
    ASSUME JobOK(job), FollowOK(follow, job), NEW id \in job.asks, NEW over \in BOOLEAN,
           PollAnswers(id, over)
    PROVE  JobOK(job') /\ FollowOK(follow', job')
<1>1. id \in 1..job.made /\ id \in Nat /\ id # 0 /\ job.made \in Nat
  BY DEF JobOK, JobStates
<1>2. PICK j : j = IF over /\ job.card.shown /\ job.card.id = id THEN Ended(id) ELSE job
  OBVIOUS
<1>3. /\ job' \in {j, [j EXCEPT !.asks = j.asks \ {id}]}
      /\ follow' = IF over /\ job.card.shown /\ job.card.id = id /\ follow.by = "poll"
                   THEN NoFollow ELSE follow
  BY <1>2 DEF PollAnswers
<1>4. /\ JobOK(j) /\ j.card = job.card /\ j.made = job.made /\ j.asks = job.asks
      /\ j.ended = IF over /\ job.card.shown /\ job.card.id = id
                   THEN job.ended \cup {id} ELSE job.ended
  BY <1>1, <1>2, EndedIs
<1>5. /\ job' \in JobStates /\ job'.card = j.card /\ job'.made = j.made /\ job'.asks \subseteq j.asks
      /\ job'.ended = j.ended
  BY <1>3, <1>4 DEF JobOK, JobStates
<1>6. JobOK(job')
  BY <1>4, <1>5 DEF JobOK
<1>7. CASE over /\ job.card.shown /\ job.card.id = id
  <2>1. CASE follow.by = "poll"
    <3>1. follow' = NoFollow /\ job'.made \in Nat
      BY <1>1, <1>3, <1>4, <1>5, <1>7, <2>1
    <3> QED BY <1>6, <3>1, NothingFollowed
  <2>2. CASE follow.by # "poll"
    <3>1. follow.by = "none"
      BY <1>1, <1>7, <2>2 DEF FollowOK, Follows
    <3>2. follow' = follow
      BY <1>3, <2>2
    <3> QED BY <1>4, <1>5, <1>6, <3>1, <3>2 DEF FollowOK
  <2> QED BY <2>1, <2>2
<1>8. CASE ~(over /\ job.card.shown /\ job.card.id = id)
  <2>1. follow' = follow
    BY <1>3, <1>8
  <2>2. job'.made = job.made /\ job'.asks \subseteq job.asks /\ job'.ended = job.ended /\ job'.card = job.card
    BY <1>4, <1>5, <1>8
  <2> QED BY <1>6, <2>1, <2>2, FollowsOn
<1> QED BY <1>6, <1>7, <1>8

LEMMA SplitSteps ==
    ASSUME JobOK(job), FollowOK(follow, job),
           \/ \E id \in job.splits : SplitAnswers(id)
           \/ \E id \in job.closing : CardCloses(id)
    PROVE  JobOK(job') /\ FollowOK(follow', job')
<1>1. PICK c, s, k : /\ job' = [job EXCEPT !.splits = s, !.closing = k, !.card = c]
                    /\ s \in SUBSET Nat /\ k \in SUBSET Nat /\ c \in {job.card, NoJobCard}
  <2>1. CASE \E id \in job.splits : SplitAnswers(id)
    <3>1. PICK id \in job.splits : job' = [job EXCEPT !.splits = job.splits \ {id}, !.closing = job.closing \cup {id}]
      BY <2>1 DEF SplitAnswers
    <3>2. job' = [job EXCEPT !.splits = job.splits \ {id}, !.closing = job.closing \cup {id}, !.card = job.card]
      BY <3>1 DEF JobOK, JobStates
    <3>3. job.splits \ {id} \in SUBSET Nat /\ job.closing \cup {id} \in SUBSET Nat
      BY DEF JobOK, JobStates
    <3> QED BY <3>2, <3>3
  <2>2. CASE \E id \in job.closing : CardCloses(id)
    <3>1. PICK id \in job.closing, c \in {job.card, NoJobCard} :
             job' = [job EXCEPT !.closing = job.closing \ {id}, !.card = c]
      BY <2>2 DEF CardCloses
    <3>2. job' = [job EXCEPT !.splits = job.splits, !.closing = job.closing \ {id}, !.card = c]
      BY <3>1 DEF JobOK, JobStates
    <3>3. job.splits \in SUBSET Nat /\ job.closing \ {id} \in SUBSET Nat
      BY DEF JobOK, JobStates
    <3> QED BY ZenonT(40), <3>2, <3>3
  <2> QED BY <2>1, <2>2
<1>2. c \in JobCards /\ c.id \in {job.card.id, 0} /\ (~c.shown => c.id = 0)
  <2>1. NoJobCard \in JobCards /\ NoJobCard.id = 0
    BY DEF JobCards, NoJobCard
  <2>2. job.card \in JobCards /\ (~job.card.shown => job.card.id = 0)
    BY DEF JobOK, JobStates
  <2> QED BY <1>1, <2>1, <2>2
<1>3. /\ job' \in JobStates /\ job'.card = c /\ job'.made = job.made /\ job'.asks = job.asks
      /\ job'.ended = job.ended
  BY <1>1, <1>2 DEF JobOK, JobStates
<1>4. follow' = follow
  BY DEF SplitAnswers, CardCloses
<1> QED BY <1>2, <1>3, <1>4 DEF JobOK, FollowOK

-----------------------------------------------------------------------------
PhoneInv == PhoneOK(phone) /\ LoadsFit(opening, phone) /\ JobOK(job) /\ FollowOK(follow, job)

LEMMA PhoneInitOK == PhoneInit => PhoneInv
<1> SUFFICES ASSUME PhoneInit PROVE PhoneInv
  OBVIOUS
<1>1. PhoneOK(phone)
  <2>1. phone \in Phones
    BY DEF PhoneInit, Phones, NoEngine
  <2> QED BY <2>1 DEF PhoneInit, PhoneOK, NoEngine
<1>2. LoadsFit(opening, phone)
  BY DEF PhoneInit, LoadsFit
<1>3. JobOK(job)
  <2>1. NoJobCard \in JobCards /\ NoJobCard.id = 0
    BY DEF NoJobCard, JobCards
  <2>2. job \in JobStates
    BY <2>1 DEF PhoneInit, JobStates
  <2> QED BY <2>1, <2>2 DEF PhoneInit, JobOK
<1>4. FollowOK(follow, job)
  BY DEF PhoneInit, FollowOK, NoFollow, Follows
<1> QED BY <1>1, <1>2, <1>3, <1>4 DEF PhoneInv

LEMMA PhoneStepOK == PhoneInv /\ [PhoneNext]_phoneVars => PhoneInv'
<1> SUFFICES ASSUME PhoneInv, [PhoneNext]_phoneVars PROVE PhoneInv'
  OBVIOUS
<1>1. CASE UNCHANGED <<phone, opening>> /\ PhoneNext
  <2>1. JobOK(job') /\ FollowOK(follow', job')
    <3>1. CASE UNCHANGED <<job, follow>>
      BY <3>1 DEF PhoneInv
    <3>2. \/ UNCHANGED <<job, follow>>
          \/ PostRefused \/ PostAccepted \/ StreamBreaks \/ PollAsks
          \/ \E split \in BOOLEAN : StartExtraction(split)
          \/ \E over \in BOOLEAN : StreamTells(over) \/ \E id \in job.asks : PollAnswers(id, over)
          \/ \E id \in job.splits : SplitAnswers(id)
          \/ \E id \in job.closing : CardCloses(id)
      BY <1>1 DEF PhoneNext, OpenCard, StepTo, SwipeDelete, DeleteLands, TapPlay, SongEnds, OpeningEnds,
             DetailFails, DetailAnswers, EngineIsReady, JobVars
    <3> QED BY <3>1, <3>2, PostSteps, AcceptedStep, StreamSteps, PollAnswersStep, SplitSteps DEF PhoneInv
  <2> QED BY <1>1, <2>1 DEF PhoneInv
<1>2. CASE PhoneNext /\ ~UNCHANGED <<phone, opening>>
  <2>1. UNCHANGED <<job, follow>>
    BY <1>2 DEF PhoneNext, OpenCard, StepTo, SwipeDelete, DeleteLands, TapPlay, SongEnds, OpeningEnds,
             DetailFails, DetailAnswers, EngineIsReady, JobVars, StartExtraction, PostRefused, PostAccepted,
             StreamBreaks, PollAsks, StreamTells, PollAnswers, SplitAnswers, CardCloses, PlayerVars
  <2>2. \/ \E t \in Cards : OpenCard(t) \/ StepTo(t) \/ DeleteLands(t)
        \/ TapPlay \/ SongEnds
        \/ \E o \in opening : \/ OpeningEnds(o) \/ DetailFails(o) \/ DetailAnswers(o)
                              \/ \E ok \in BOOLEAN : EngineIsReady(o, ok)
    BY <1>2 DEF PhoneNext, SwipeDelete, StartExtraction, PostRefused, PostAccepted,
             StreamBreaks, PollAsks, StreamTells, PollAnswers, SplitAnswers, CardCloses, PlayerVars
  <2>3. \A t \in Cards : OpenCard(t) \/ StepTo(t) => \E autoplay \in BOOLEAN : Load(t, autoplay)
    BY DEF OpenCard, StepTo, PhoneInv, PhoneOK, Phones
  <2>4. PhoneOK(phone') /\ LoadsFit(opening', phone')
    BY <2>2, <2>3, LoadStep, TapPlayStep, SongEndsStep, OpeningEndsStep, DetailAnswersStep,
       EngineIsReadyStep, DeleteLandsStep DEF PhoneInv
  <2> QED BY <2>1, <2>4 DEF PhoneInv
<1>3. CASE UNCHANGED phoneVars
  BY <1>3 DEF phoneVars, PhoneInv
<1> QED BY <1>1, <1>2, <1>3

(* Whichever load or delete answers last, the phone plays the track of its *)
(* screen and nothing else, and of the extractions it watches the one on   *)
(* its card until it saw it end (mobile/app.js).                           *)
THEOREM PhoneStaysTrue == PhoneSpec => [](PhoneTypeOK /\ PhoneIsTrue)
<1>1. PhoneInv => PhoneTypeOK /\ PhoneIsTrue
  <2> SUFFICES ASSUME PhoneInv PROVE PhoneTypeOK /\ PhoneIsTrue
    OBVIOUS
  <2>1. PhoneIsTrue
    BY DEF PhoneInv, PhoneOK, FollowOK, PhoneIsTrue, PhonePlaysItsTrack, EngineIsTheTracks, ButtonIsTrue,
           FollowsItsCard
  <2>2. PhoneTypeOK
    BY DEF PhoneInv, PhoneOK, FollowOK, JobOK, LoadsFit, LoadFits, PhoneTypeOK, Phones, Openings, Follows,
           JobStates, NoEngine
  <2> QED BY <2>1, <2>2
<1> QED BY <1>1, PhoneInitOK, PhoneStepOK, PTL DEF PhoneSpec

-----------------------------------------------------------------------------
(* The artist box.  A search of the box's own generation is for what the   *)
(* box was asked, and there is none while it is shut or waits.             *)

Questions ==
    [by : {"kept", "tag", "song", "blank", "typed", "wait"}, of : Records \cup {NoRecord}]
ViewKinds ==
    {"nothing", "song", "loading", "wait", "band", "offline", "notfound", "candidates", "picked"}
Boxes ==
    [open : BOOLEAN, waiting : BOOLEAN, gen : Nat, asked : Questions,
     shown : [kind : ViewKinds, what : Questions]]
SearchStages == {"lookup", "extra", "lastextra", "refine", "token", "discogs", "pick"}
Searches == [gen : Nat, what : Questions, stage : SearchStages]
Bands == [Records -> [by : {"nobody", "auto", "user"}, of : Records \cup {NoRecord}]]
Readings == [Records -> {"unread", "reading", "named", "plain"}]
Autos == [timer : Records \cup {NoRecord}, track : Records \cup {NoRecord}, tried : SUBSET Records]
TagLookups == [track : Records, aborted : BOOLEAN]

(* The box b and the searches ss of it.                                    *)
BoxFits(b, ss) ==
    /\ b \in Boxes /\ ss \subseteq Searches
    /\ b.open => b.shown.what = b.asked
    /\ b.waiting => b.shown.kind = "wait"
    /\ \A s \in ss : /\ s.gen <= b.gen
                     /\ s.gen = b.gen => b.open /\ ~b.waiting /\ s.what = b.asked

(* A track whose band is looked for has a lookup that was not aborted.     *)
LookupLives(a, ls) ==
    a.track # NoRecord => \E l \in ls : l.track = a.track /\ ~l.aborted

AutoFits(a, ls) == a \in Autos /\ ls \subseteq TagLookups /\ LookupLives(a, ls)

ArtistInv ==
    /\ onDeck \in Records \cup {NoRecord} /\ tags \in Readings /\ band \in Bands
    /\ AutoFits(auto, tagged) /\ BoxFits(box, searches)
    /\ WaitEnds /\ BandIsTheTracks

----------------------------------------------------------------------------
LEMMA StartSearchFits ==
    ASSUME BoxFits(box, searches), NEW b \in Boxes, b.open, b.gen = box.gen,
           NEW what \in Questions, StartSearch(b, what)
    PROVE  BoxFits(box', searches') /\ ~box'.waiting
<1>1. PICK g \in Nat : g = b.gen + 1
  BY DEF Boxes
<1>2. \A s \in searches : s.gen < g /\ s \in Searches
  BY <1>1 DEF BoxFits, Searches, Boxes
<1>3. PICK kind : kind = IF what.by = "blank" THEN "nothing" ELSE IF what.by = "song" THEN "song" ELSE "loading"
  OBVIOUS
<1>4. kind \in ViewKinds
  BY <1>3 DEF ViewKinds
<1>5. PICK v : v = View(kind, what)
  OBVIOUS
<1>6. v \in [kind : ViewKinds, what : Questions] /\ v.what = what
  BY <1>4, <1>5 DEF View
<1>7. box' = [b EXCEPT !.gen = g, !.waiting = FALSE, !.asked = what, !.shown = v]
  BY <1>1, <1>3, <1>5 DEF StartSearch
<1>8. /\ box' \in Boxes /\ box'.open /\ ~box'.waiting /\ box'.gen = g /\ box'.asked = what
      /\ box'.shown = v
  BY <1>6, <1>7 DEF Boxes
<1>9. PICK l : l = [gen |-> g, what |-> what, stage |-> IF what.by = "song" THEN "extra" ELSE "lookup"]
  OBVIOUS
<1>10. l \in Searches /\ l.gen = g /\ l.what = what
  BY <1>9 DEF Searches, SearchStages
<1>11. searches' = searches \/ searches' = searches \cup {l}
  BY <1>1, <1>9 DEF StartSearch
<1>12. \A s \in searches' : s \in Searches /\ s.gen <= g /\ (s.gen = g => s = l)
  BY <1>2, <1>10, <1>11 DEF Searches
<1> QED BY <1>6, <1>8, <1>10, <1>12 DEF BoxFits

(* What a track is known by.                                               *)
LEMMA KnownIsAQuestion ==
    ASSUME NEW t \in Records \cup {NoRecord}, NEW keeps, NEW reading
    PROVE  KnownBy(t, keeps, reading) \in Questions
  BY DEF KnownBy, Blank, Asked, Questions

(* A box that asked nothing, or waited, shows what there is of a track.    *)
LEMMA ShowFits ==
    ASSUME BoxFits(box, searches), box.waiting \/ ~box.open, NEW b \in Boxes, b.open, b.gen = box.gen,
           NEW t \in Records \cup {NoRecord}, NEW keeps, NEW reading, NEW a,
           ShowFromTrack(b, t, keeps, reading, a)
    PROVE  BoxFits(box', searches') /\ (box'.waiting => Waits(t, keeps, reading, a))
<1>1. CASE ~Waits(t, keeps, reading, a)
  <2>1. StartSearch(b, KnownBy(t, keeps, reading))
    BY <1>1 DEF ShowFromTrack
  <2> QED BY <2>1, StartSearchFits, KnownIsAQuestion
<1>2. CASE Waits(t, keeps, reading, a)
  <2>1. PICK q : q = Asked("wait", t)
    OBVIOUS
  <2>2. q \in Questions
    BY <2>1 DEF Asked, Questions
  <2>3. PICK v : v = View("wait", q)
    OBVIOUS
  <2>4. v \in [kind : ViewKinds, what : Questions] /\ v.what = q /\ v.kind = "wait"
    BY <2>2, <2>3 DEF View, ViewKinds
  <2>5. searches' = searches /\ box' = [b EXCEPT !.waiting = TRUE, !.asked = q, !.shown = v]
    BY <1>2, <2>1, <2>3 DEF ShowFromTrack
  <2>6. /\ box' \in Boxes /\ box'.open /\ box'.gen = box.gen /\ box'.asked = q /\ box'.shown = v
    BY <2>2, <2>4, <2>5 DEF Boxes
  <2>7. \A s \in searches : s.gen <= box.gen /\ s.gen # box.gen
    BY DEF BoxFits
  <2>8. BoxFits(box', searches')
    BY <2>4, <2>5, <2>6, <2>7 DEF BoxFits
  <2> QED BY <1>2, <2>8
<1> QED BY <1>1, <1>2

(* The wait is settled, if there is one.                                   *)
LEMMA SettleFits ==
    ASSUME BoxFits(box, searches), NEW t \in Records \cup {NoRecord}, NEW keeps, NEW reading, NEW a,
           SettleBox(t, keeps, reading, a)
    PROVE  BoxFits(box', searches') /\ (box'.open /\ box'.waiting => Waits(t, keeps, reading, a))
<1>1. CASE box.open /\ box.waiting
  BY <1>1, ShowFits DEF SettleBox, BoxFits
<1>2. CASE ~(box.open /\ box.waiting)
  BY <1>2 DEF SettleBox, BoxFits
<1> QED BY <1>1, <1>2

(* What is waited for comes.                                               *)
LEMMA WaitIsForSomething ==
    ASSUME NEW t, NEW keeps, NEW reading, NEW a, NEW ls, LookupLives(a, ls), Waits(t, keeps, reading, a)
    PROVE  reading[t] = "reading" \/ \E l \in ls : l.track = a.track /\ ~l.aborted
  BY DEF Waits, LookupLives

----------------------------------------------------------------------------
(* The box's own steps.                                                    *)

LEMMA BoxSteps ==
    ASSUME ArtistInv, OpenBox \/ CloseBox \/ TypeName \/ ChangeLanguage \/ PickCandidate
    PROVE  ArtistInv'
<1>1. BoxFits(box, searches) /\ box \in Boxes
  BY DEF ArtistInv, BoxFits
<1>2. UNCHANGED <<onDeck, tags, band, auto, tagged>>
  BY DEF OpenBox, CloseBox, TypeName, ChangeLanguage, PickCandidate
<1>3. BoxFits(box', searches')
      /\ (box'.open /\ box'.waiting => Waits(onDeck, band, tags, auto))
  <2>1. CASE OpenBox
    <3>1. PICK b : b = [box EXCEPT !.open = TRUE]
      OBVIOUS
    <3>2. b \in Boxes /\ b.open /\ b.gen = box.gen
      BY <1>1, <3>1 DEF Boxes
    <3>3. ShowFromTrack(b, onDeck, band, tags, auto) /\ ~box.open
      BY <2>1, <3>1 DEF OpenBox
    <3> QED BY <1>1, <3>2, <3>3, ShowFits DEF ArtistInv
  <2>2. CASE CloseBox
    <3>1. PICK g \in Nat : g = box.gen + 1
      BY <1>1 DEF Boxes
    <3>2. box' = [box EXCEPT !.open = FALSE, !.waiting = FALSE, !.gen = g] /\ searches' = searches
      BY <2>2, <3>1 DEF CloseBox
    <3>3. box' \in Boxes /\ ~box'.open /\ ~box'.waiting /\ box'.gen = g
      BY <1>1, <3>2 DEF Boxes
    <3>4. \A s \in searches : s.gen < g
      BY <1>1, <3>1 DEF BoxFits, Searches, Boxes
    <3>5. \A s \in searches : s.gen \in Nat
      BY <1>1 DEF BoxFits, Searches
    <3> QED BY <1>1, <3>2, <3>3, <3>4, <3>5 DEF BoxFits
  <2>3. CASE TypeName
    <3>1. Asked("typed", NoRecord) \in Questions
      BY DEF Asked, Questions
    <3>2. StartSearch(box, Asked("typed", NoRecord)) /\ box.open
      BY <2>3 DEF TypeName
    <3> QED BY <1>1, <3>1, <3>2, StartSearchFits
  <2>4. CASE ChangeLanguage
    <3>1. CASE box.waiting
      BY <1>1, <2>4, <3>1, ShowFits DEF ChangeLanguage, ArtistInv
    <3>2. CASE ~box.waiting
      <4>1. StartSearch(box, box.asked) /\ box.open /\ box.asked \in Questions
        BY <1>1, <2>4, <3>2 DEF ChangeLanguage, Boxes
      <4> QED BY <1>1, <4>1, StartSearchFits
    <3> QED BY <3>1, <3>2
  <2>5. CASE PickCandidate
    <3>1. PICK g \in Nat : g = box.gen + 1
      BY <1>1 DEF Boxes
    <3>2. PICK v : v = View("loading", box.asked)
      OBVIOUS
    <3>3. v \in [kind : ViewKinds, what : Questions] /\ v.what = box.asked
      BY <1>1, <3>2 DEF View, ViewKinds, Boxes
    <3>4. PICK l : l = [gen |-> g, what |-> box.asked, stage |-> "pick"]
      OBVIOUS
    <3>5. l \in Searches /\ l.gen = g /\ l.what = box.asked
      BY <1>1, <3>4 DEF Searches, SearchStages, Boxes
    <3>6. box' = [box EXCEPT !.gen = g, !.shown = v] /\ searches' = searches \cup {l} /\ box.open
      BY <2>5, <3>1, <3>2, <3>4 DEF PickCandidate
    <3>7. /\ box' \in Boxes /\ box'.open /\ box'.gen = g /\ box'.asked = box.asked
          /\ box'.shown = v /\ box'.waiting = box.waiting
      BY <1>1, <3>3, <3>6 DEF Boxes
    <3>8. \A s \in searches : s.gen < g /\ s.gen \in Nat /\ s \in Searches
      BY <1>1, <3>1 DEF BoxFits, Searches, Boxes
    <3>9. ~box.waiting
      BY <1>1, <2>5 DEF PickCandidate, BoxFits
    <3> QED BY <3>3, <3>5, <3>6, <3>7, <3>8, <3>9 DEF BoxFits
  <2> QED BY <2>1, <2>2, <2>3, <2>4, <2>5
<1>4. WaitEnds'
  BY <1>2, <1>3, WaitIsForSomething DEF WaitEnds, ArtistInv, AutoFits
<1> QED BY <1>2, <1>3, <1>4 DEF ArtistInv, BandIsTheTracks

(* The band on screen is kept.                                             *)
LEMMA SaveStep == ASSUME ArtistInv, SaveBand PROVE ArtistInv'
<1>1. UNCHANGED <<onDeck, tags, auto, tagged, box, searches>> /\ onDeck \in Records
  BY DEF SaveBand, ArtistInv
<1>2. PICK k : k = [by |-> "user", of |-> box.shown.what.of]
  OBVIOUS
<1>3. k \in [by : {"nobody", "auto", "user"}, of : Records \cup {NoRecord}] /\ k.by = "user"
  <2>1. box.shown.what \in Questions
    BY DEF ArtistInv, BoxFits, Boxes
  <2> QED BY <1>2, <2>1 DEF Questions
<1>4. band' = [band EXCEPT ![onDeck] = k]
  BY <1>2 DEF SaveBand
<1>5. band' \in Bands /\ BandIsTheTracks'
  BY <1>1, <1>3, <1>4 DEF ArtistInv, Bands, BandIsTheTracks
<1>6. WaitEnds'
  BY <1>1 DEF ArtistInv, WaitEnds
<1> QED BY <1>1, <1>5, <1>6 DEF ArtistInv

(* What an answer may do: draw for the search, and end it or pass it on.   *)
GoesSomewhere(s) ==
    /\ box' = box \/ (StillShown(s) /\ \E kind \in ViewKinds : Draws(s, kind))
    /\ searches' = searches \ {s} \/ \E stage \in SearchStages : GoesOn(s, stage)

(* An answer of a search goes where the box's generation says.             *)
LEMMA SearchSteps ==
    ASSUME ArtistInv, NEW s \in searches,
           \/ SearchLost(s)
           \/ \E f \in Found : LookupComes(s, f)
           \/ \E f \in BOOLEAN : ExtraComes(s, f) \/ TokenComes(s, f) \/ DiscogsComes(s, f) \/ PickedComes(s, f)
    PROVE  ArtistInv'
<1>1. UNCHANGED <<onDeck, tags, band, auto, tagged>>
  BY DEF SearchLost, LookupComes, ExtraComes, TokenComes, DiscogsComes, PickedComes
<1>2. BoxFits(box, searches) /\ box \in Boxes /\ s \in Searches
  BY DEF ArtistInv, BoxFits
<1>3. GoesSomewhere(s)
  <2>1. \A kind \in {"band", "offline", "notfound", "candidates", "picked", "loading"} : kind \in ViewKinds
    BY DEF ViewKinds
  <2>2. \A stage \in {"refine", "extra", "lastextra", "token", "discogs"} : stage \in SearchStages
    BY DEF SearchStages
  <2>3. SearchLost(s) => GoesSomewhere(s)
    BY DEF SearchLost, GoesSomewhere
  <2>4. ASSUME NEW f \in Found, LookupComes(s, f) PROVE GoesSomewhere(s)
    <3>1. StillShown(s) /\ (UNCHANGED box \/ Draws(s, "band") \/ Draws(s, "offline"))
      BY <2>4 DEF LookupComes
    <3>2. PICK stage \in {"refine", "extra", "lastextra", "token"} :
             searches' = searches \ {s} \/ GoesOn(s, stage)
      <4>1. searches' = searches \ {s} \/ GoesOn(s, "refine")
            \/ GoesOn(s, IF f = "none" THEN "extra" ELSE "lastextra") \/ GoesOn(s, "token")
        BY <2>4 DEF LookupComes
      <4> QED BY <4>1
    <3> QED BY <2>1, <2>2, <3>1, <3>2 DEF GoesSomewhere
  <2>5. ASSUME NEW f \in BOOLEAN, ExtraComes(s, f) PROVE GoesSomewhere(s)
    <3>1. StillShown(s) /\ (UNCHANGED box \/ Draws(s, "band") \/ Draws(s, "offline"))
      BY <2>5 DEF ExtraComes
    <3>2. searches' = searches \ {s} \/ GoesOn(s, "token")
      BY <2>5 DEF ExtraComes
    <3> QED BY <2>1, <2>2, <3>1, <3>2 DEF GoesSomewhere
  <2>6. ASSUME NEW f \in BOOLEAN, TokenComes(s, f) PROVE GoesSomewhere(s)
    <3>1. StillShown(s) /\ (Draws(s, "loading") \/ Draws(s, "notfound"))
      BY <2>6 DEF TokenComes
    <3>2. searches' = searches \ {s} \/ GoesOn(s, "discogs")
      BY <2>6 DEF TokenComes
    <3> QED BY <2>1, <2>2, <3>1, <3>2 DEF GoesSomewhere
  <2>7. ASSUME NEW f \in BOOLEAN, DiscogsComes(s, f) \/ PickedComes(s, f) PROVE GoesSomewhere(s)
    <3>1. PICK kind \in {"candidates", "notfound", "picked", "offline"} : Draws(s, kind)
      BY <2>7 DEF DiscogsComes, PickedComes
    <3> QED BY <2>1, <2>7, <3>1 DEF DiscogsComes, PickedComes, GoesSomewhere
  <2> QED BY <2>3, <2>4, <2>5, <2>6, <2>7
<1>4. /\ box' \in Boxes /\ box'.open = box.open /\ box'.waiting = box.waiting
      /\ box'.gen = box.gen /\ box'.asked = box.asked
      /\ box'.open => box'.shown.what = box'.asked
      /\ box'.waiting => box'.shown.kind = "wait"
  <2>1. CASE box' = box
    BY <1>2, <2>1 DEF BoxFits
  <2>2. CASE StillShown(s) /\ \E kind \in ViewKinds : Draws(s, kind)
    <3>1. PICK kind \in ViewKinds : Draws(s, kind)
      BY <2>2
    <3>2. PICK v : v = View(kind, s.what)
      OBVIOUS
    <3>3. v \in [kind : ViewKinds, what : Questions] /\ v.what = s.what
      BY <1>2, <3>2 DEF View, Searches
    <3>4. box' = [box EXCEPT !.shown = v]
      BY <3>1, <3>2 DEF Draws
    <3>5. s.what = box.asked /\ ~box.waiting
      BY <1>2, <2>2 DEF StillShown, BoxFits
    <3> QED BY <1>2, <3>3, <3>4, <3>5 DEF Boxes
  <2> QED BY <1>3, <2>1, <2>2 DEF GoesSomewhere
<1>5. searches' \subseteq Searches /\ \A r \in searches' : \E q \in searches : r.gen = q.gen /\ r.what = q.what
  <2>1. CASE searches' = searches \ {s}
    BY <1>2, <2>1 DEF BoxFits
  <2>2. CASE \E stage \in SearchStages : GoesOn(s, stage)
    <3>1. PICK stage \in SearchStages : GoesOn(s, stage)
      BY <2>2
    <3>2. PICK l : l = [s EXCEPT !.stage = stage]
      OBVIOUS
    <3>3. l \in Searches /\ l.gen = s.gen /\ l.what = s.what
      BY <1>2, <3>2 DEF Searches
    <3>4. searches' = (searches \ {s}) \cup {l}
      BY <3>1, <3>2 DEF GoesOn
    <3> QED BY <1>2, <3>3, <3>4 DEF BoxFits
  <2> QED BY <1>3, <2>1, <2>2 DEF GoesSomewhere
<1>6. BoxFits(box', searches')
  <2>1. ASSUME NEW r \in searches'
        PROVE  r.gen <= box'.gen /\ (r.gen = box'.gen => box'.open /\ ~box'.waiting /\ r.what = box'.asked)
    <3>1. PICK q \in searches : r.gen = q.gen /\ r.what = q.what
      BY <1>5
    <3> QED BY <1>2, <1>4, <3>1 DEF BoxFits
  <2> QED BY <1>4, <1>5, <2>1 DEF BoxFits
<1>7. WaitEnds'
  BY <1>1, <1>4 DEF ArtistInv, WaitEnds
<1> QED BY <1>1, <1>6, <1>7 DEF ArtistInv, BandIsTheTracks

----------------------------------------------------------------------------
(* The band from the tags.                                                 *)

(* A lookup starts for a track.                                            *)
LEMMA StartFits ==
    ASSUME AutoFits(auto, tagged), NEW t \in Records, NEW a, NEW ls,
           a = Started(t, [auto EXCEPT !.timer = NoRecord]),
           ls = tagged \cup {[track |-> t, aborted |-> FALSE]}
    PROVE  AutoFits(a, ls)
<1>1. PICK i : i = [auto EXCEPT !.timer = NoRecord]
  OBVIOUS
<1>2. i \in Autos
  BY <1>1 DEF AutoFits, Autos
<1>3. a = [i EXCEPT !.track = t, !.tried = i.tried \cup {t}]
  BY <1>1 DEF Started
<1>4. a \in Autos /\ a.track = t
  BY <1>2, <1>3 DEF Autos
<1>5. PICK l : l = [track |-> t, aborted |-> FALSE]
  OBVIOUS
<1>6. l \in TagLookups /\ l.track = t /\ ~l.aborted
  BY <1>5 DEF TagLookups
<1> QED BY <1>4, <1>5, <1>6 DEF AutoFits, LookupLives

LEMMA IdleFits ==
    ASSUME AutoFits(auto, tagged), NEW a, a = [auto EXCEPT !.timer = NoRecord]
    PROVE  AutoFits(a, tagged) /\ a.track = auto.track
  BY DEF AutoFits, Autos, LookupLives

LEMMA AutoTimerStep == ASSUME ArtistInv, AutoTimer PROVE ArtistInv'
<1>1. UNCHANGED <<onDeck, tags, band, box, searches>> /\ auto.timer \in Records
  BY DEF AutoTimer, ArtistInv, AutoFits, Autos
<1>2. \/ /\ auto' = Started(auto.timer, [auto EXCEPT !.timer = NoRecord])
         /\ tagged' = tagged \cup {[track |-> auto.timer, aborted |-> FALSE]}
      \/ auto' = [auto EXCEPT !.timer = NoRecord] /\ tagged' = tagged
  BY DEF AutoTimer
<1>3. AutoFits(auto, tagged)
  BY DEF ArtistInv
<1>4. AutoFits(auto', tagged')
  BY <1>1, <1>2, <1>3, StartFits, IdleFits
<1>5. WaitEnds'
  <2>1. CASE auto' = [auto EXCEPT !.timer = NoRecord] /\ tagged' = tagged
    BY <1>1, <1>3, <2>1, IdleFits DEF ArtistInv, WaitEnds
  <2>2. CASE auto' = Started(auto.timer, [auto EXCEPT !.timer = NoRecord])
             /\ tagged' = tagged \cup {[track |-> auto.timer, aborted |-> FALSE]}
    <3>1. auto'.track = auto.timer /\ auto.timer # NoRecord
      <4>1. PICK i : i = [auto EXCEPT !.timer = NoRecord]
        OBVIOUS
      <4>2. i \in Autos
        BY <1>3, <4>1 DEF AutoFits, Autos
      <4>3. auto' = [i EXCEPT !.track = auto.timer, !.tried = i.tried \cup {auto.timer}]
        BY <2>2, <4>1 DEF Started
      <4> QED BY <1>1, <4>2, <4>3, ArtistAssumption DEF Autos
    <3> QED BY <1>4, <3>1 DEF WaitEnds, AutoFits, LookupLives
  <2> QED BY <1>2, <2>1, <2>2
<1> QED BY <1>1, <1>4, <1>5 DEF ArtistInv, BandIsTheTracks

(* Another track is opened: what was looked for is aborted.                *)
LEMMA OpenStep == ASSUME ArtistInv, NEW t \in Records, OpenRecordPage(t) PROVE ArtistInv'
<1>1. /\ onDeck' = t /\ band' = band
      /\ tags' \in Readings
  BY DEF OpenRecordPage, ArtistInv, Readings
<1>2. auto' = [auto EXCEPT !.timer = t, !.track = NoRecord]
      /\ tagged' = {[l EXCEPT !.aborted = TRUE] : l \in tagged}
  BY DEF OpenRecordPage
<1>3. auto' \in Autos /\ auto'.track = NoRecord
  BY <1>2 DEF ArtistInv, AutoFits, Autos
<1>4. tagged' \subseteq TagLookups
  <2>1. \A l \in tagged : [l EXCEPT !.aborted = TRUE] \in TagLookups
    BY DEF ArtistInv, AutoFits, TagLookups
  <2> QED BY <1>2, <2>1
<1>5. AutoFits(auto', tagged')
  BY <1>3, <1>4 DEF AutoFits, LookupLives
<1>6. SettleBox(t, band, tags', auto')
  BY DEF OpenRecordPage
<1>7. BoxFits(box', searches') /\ (box'.open /\ box'.waiting => Waits(t, band, tags', auto'))
  BY <1>6, SettleFits DEF ArtistInv
<1>8. WaitEnds'
  BY <1>1, <1>5, <1>7, WaitIsForSomething DEF WaitEnds, AutoFits
<1> QED BY <1>1, <1>5, <1>7, <1>8 DEF ArtistInv, BandIsTheTracks

(* The tags of a track are read, and maybe its band with them.             *)
LEMMA TagsStep ==
    ASSUME ArtistInv, NEW t \in Records, NEW found \in {"named", "plain"}, NEW kept \in BOOLEAN,
           TagsAreRead(t, found, kept)
    PROVE  ArtistInv'
<1>1. tags' = [tags EXCEPT ![t] = found] /\ onDeck' = onDeck
      /\ band' \in {band, [band EXCEPT ![t] = [by |-> "auto", of |-> t]]}
  BY DEF TagsAreRead
<1>2. tags' \in Readings /\ \A r \in Records \ {t} : tags'[r] = tags[r]
  BY <1>1 DEF ArtistInv, Readings
<1>3. band' \in Bands /\ BandIsTheTracks'
  <2>1. PICK k : k = [by |-> "auto", of |-> t]
    OBVIOUS
  <2>2. k \in [by : {"nobody", "auto", "user"}, of : Records \cup {NoRecord}] /\ k.of = t
    BY <2>1
  <2> QED BY <1>1, <2>1, <2>2 DEF ArtistInv, Bands, BandIsTheTracks
<1>4. CASE t # onDeck
  <2>1. UNCHANGED <<auto, tagged, box, searches>>
    BY <1>4 DEF TagsAreRead
  <2>2. ASSUME box.open, box.waiting
        PROVE  tags'[onDeck] = "reading" \/ \E l \in tagged : l.track = auto.track /\ ~l.aborted
    <3>1. tags[onDeck] = "reading" \/ \E l \in tagged : l.track = auto.track /\ ~l.aborted
      BY <2>2 DEF ArtistInv, WaitEnds
    <3>2. tags'[onDeck] = tags[onDeck]
      BY <1>1, <1>4 DEF ArtistInv, Readings
    <3> QED BY <3>1, <3>2
  <2>3. WaitEnds'
    BY <1>1, <2>1, <2>2 DEF WaitEnds
  <2> QED BY <1>1, <1>2, <1>3, <2>1, <2>3 DEF ArtistInv
<1>5. CASE t = onDeck
  <2>1. \/ /\ auto' = Started(t, [auto EXCEPT !.timer = NoRecord])
           /\ tagged' = tagged \cup {[track |-> t, aborted |-> FALSE]}
        \/ auto' = [auto EXCEPT !.timer = NoRecord] /\ tagged' = tagged
    <3>1. CASE CanFind(t, tags') /\ band'[t] = NoBand
      BY <1>5, <3>1 DEF TagsAreRead
    <3>2. CASE ~(CanFind(t, tags') /\ band'[t] = NoBand)
      BY <1>5, <3>2 DEF TagsAreRead
    <3> QED BY <3>1, <3>2
  <2>2. SettleBox(onDeck, band', tags', auto')
    BY <1>5 DEF TagsAreRead
  <2>3. AutoFits(auto', tagged')
    BY <2>1, StartFits, IdleFits DEF ArtistInv
  <2>4. BoxFits(box', searches') /\ (box'.open /\ box'.waiting => Waits(onDeck, band', tags', auto'))
    BY <2>2, SettleFits DEF ArtistInv
  <2>5. WaitEnds'
    <3>1. ASSUME box'.open, box'.waiting
          PROVE  tags'[onDeck] = "reading" \/ \E l \in tagged' : l.track = auto'.track /\ ~l.aborted
      BY <2>3, <2>4, <3>1, WaitIsForSomething DEF AutoFits
    <3> QED BY <1>1, <3>1 DEF WaitEnds
  <2> QED BY <1>1, <1>2, <1>3, <2>3, <2>4, <2>5 DEF ArtistInv
<1> QED BY <1>4, <1>5

(* A lookup from tags answers, or fails once it is aborted.                *)
LEMMA TaggedStep ==
    ASSUME ArtistInv, NEW l \in tagged, NEW matches \in BOOLEAN, TaggedComes(l, matches)
    PROVE  ArtistInv'
<1>1. /\ UNCHANGED <<onDeck, tags>> /\ tagged' = tagged \ {l}
      /\ band' \in {band} \cup {[band EXCEPT ![r] = [by |-> "auto", of |-> l.track]] : r \in {onDeck} \cap {l.track}}
  BY DEF TaggedComes, KeepsFound
<1>2. l \in TagLookups
  BY DEF ArtistInv, AutoFits
<1>3. band' \in Bands /\ BandIsTheTracks'
  <2>1. PICK k : k = [by |-> "auto", of |-> l.track]
    OBVIOUS
  <2>2. k \in [by : {"nobody", "auto", "user"}, of : Records \cup {NoRecord}] /\ k.of = l.track
    BY <1>2, <2>1 DEF TagLookups
  <2> QED BY <1>1, <1>2, <2>1, <2>2 DEF ArtistInv, Bands, BandIsTheTracks
<1>4. AutoFits(auto', tagged')
  <2>1. CASE l.aborted
    <3>1. auto' \in {[auto EXCEPT !.tried = auto.tried \ {l.track}], auto}
      BY <2>1 DEF TaggedComes
    <3>2. auto' \in Autos /\ auto'.track = auto.track
      BY <3>1 DEF ArtistInv, AutoFits, Autos
    <3> QED BY <1>1, <2>1, <3>2 DEF ArtistInv, AutoFits, LookupLives
  <2>2. CASE ~l.aborted
    <3>1. auto' = [auto EXCEPT !.track = NoRecord]
      BY <2>2 DEF TaggedComes
    <3>2. auto' \in Autos /\ auto'.track = NoRecord
      BY <3>1 DEF ArtistInv, AutoFits, Autos
    <3> QED BY <1>1, <3>2 DEF ArtistInv, AutoFits, LookupLives
  <2> QED BY <2>1, <2>2
<1>5. SettleBox(onDeck, band', tags, auto')
  BY DEF TaggedComes
<1>6. BoxFits(box', searches') /\ (box'.open /\ box'.waiting => Waits(onDeck, band', tags, auto'))
  BY <1>5, SettleFits DEF ArtistInv
<1>7. WaitEnds'
  BY <1>1, <1>4, <1>6, WaitIsForSomething DEF WaitEnds, AutoFits
<1> QED BY <1>1, <1>3, <1>4, <1>6, <1>7 DEF ArtistInv

----------------------------------------------------------------------------
LEMMA ArtistInitOK == ArtistInit => ArtistInv
<1> SUFFICES ASSUME ArtistInit PROVE ArtistInv
  OBVIOUS
<1>1. onDeck \in Records \cup {NoRecord} /\ tags \in Readings
  BY ArtistAssumption DEF ArtistInit, Readings
<1>2. band \in Bands /\ BandIsTheTracks
  <2>1. NoBand \in [by : {"nobody", "auto", "user"}, of : Records \cup {NoRecord}] /\ NoBand.by # "auto"
    BY DEF NoBand
  <2> QED BY <2>1 DEF ArtistInit, Bands, BandIsTheTracks
<1>3. AutoFits(auto, tagged)
  BY DEF ArtistInit, AutoFits, Autos, LookupLives
<1>4. BoxFits(box, searches) /\ WaitEnds
  <2>1. PICK v : v = View("nothing", Blank)
    OBVIOUS
  <2>2. Blank \in Questions
    BY DEF Blank, Asked, Questions
  <2>3. v \in [kind : ViewKinds, what : Questions]
    BY <2>1, <2>2 DEF View, ViewKinds
  <2>4. box = [open |-> FALSE, waiting |-> FALSE, gen |-> 0, asked |-> Blank, shown |-> v] /\ searches = {}
    BY <2>1 DEF ArtistInit
  <2>5. box \in Boxes /\ ~box.open /\ ~box.waiting
    BY <2>2, <2>3, <2>4 DEF Boxes
  <2> QED BY <2>4, <2>5 DEF BoxFits, WaitEnds
<1> QED BY <1>1, <1>2, <1>3, <1>4 DEF ArtistInv

LEMMA ArtistStepOK == ArtistInv /\ [ArtistNext]_artistVars => ArtistInv'
<1>1. ASSUME ArtistInv, ArtistNext PROVE ArtistInv'
  BY <1>1, BoxSteps, SaveStep, SearchSteps, AutoTimerStep, OpenStep, TagsStep, TaggedStep DEF ArtistNext
<1>2. ASSUME ArtistInv, UNCHANGED artistVars PROVE ArtistInv'
  BY <1>2 DEF ArtistInv, WaitEnds, BandIsTheTracks, artistVars
<1> QED BY <1>1, <1>2

(* Whatever is typed, opened, saved or answered late: the box shows what   *)
(* it was asked last, never waits for nothing, and a band nobody chose is  *)
(* of the track it is kept on (artistBox.js, artistLookup.js).             *)
THEOREM BandsStayTheirTracks == ArtistSpec => [](ArtistTypeOK /\ BandsAreTheirTracks)
<1>1. ArtistInv => ArtistTypeOK /\ BandsAreTheirTracks
  <2> SUFFICES ASSUME ArtistInv PROVE ArtistTypeOK /\ BandsAreTheirTracks
    OBVIOUS
  <2>1. BandsAreTheirTracks
    BY DEF ArtistInv, BoxFits, BandsAreTheirTracks, ShownIsAsked
  <2>2. ArtistTypeOK
    BY DEF ArtistInv, AutoFits, Autos, BoxFits, Readings, ArtistTypeOK
  <2> QED BY <2>1, <2>2
<1> QED BY <1>1, ArtistInitOK, ArtistStepOK, PTL DEF ArtistSpec

-----------------------------------------------------------------------------
(* The composer.  The row is painted last when the page starts, and the    *)
(* song structure is pressed only by who asks for it.                      *)

FormGestures ==
    {"all", "chip", "clear", "file", "flag", "native", "open", "restore", "submit", "vocals"}
FormScenesLeft ==
    [does : SUBSET FormGestures, left : Int, stems : SUBSET Stems, mode : {"all", "split"}, on : BOOLEAN]
Flags ==
    [server : BOOLEAN, pressed : BOOLEAN, shut : BOOLEAN, asks : SUBSET {"clickon", "clickoff", "off"},
     asked : BOOLEAN, lost : BOOLEAN]

(* What is read at startup, and what of it is waited for.                  *)
StartsInOrder(l) ==
    /\ l \subseteq {"stems", "mode", "painted", "settled", "flag"}
    /\ "stems" \in l => "painted" \in l
    /\ "painted" \in l \/ "mode" \in l => "settled" \in l

(* The setting is pressed, switched or was on because it was asked for.    *)
FlagOK(f, l, on) ==
    /\ f \in Flags
    /\ f.pressed \/ "clickon" \in f.asks \/ "clickoff" \in f.asks => f.asked
    /\ f.server => f.asked \/ on
    /\ f.server => f.asked \/ f.lost \/ "flag" \in l \/ f.asks # {}

FormInv ==
    /\ chosen \subseteq Stems /\ mode \in {"all", "split"} /\ stored.stems \subseteq Stems
    /\ doing \in FormScenesLeft
    /\ StartsInOrder(loading) /\ RowIsTrue
    /\ FlagOK(flag, loading, doing.on)

(* What a gesture leaves of the scene.                                     *)
LEMMA FormSceneLeft ==
    ASSUME doing \in FormScenesLeft, UNCHANGED doing \/ Done
    PROVE  doing' \in FormScenesLeft /\ doing'.on = doing.on
<1>1. PICK n : n = doing.left - 1
  OBVIOUS
<1>2. n \in Int
  BY <1>1 DEF FormScenesLeft
<1> QED BY <1>1, <1>2 DEF Done, FormScenesLeft

(* A row just painted, and the button of a row held or let go.             *)
LEMMA PaintedRow ==
    ASSUME NEW c, NEW m, NEW b PROVE Painted(c, m, Painted(c, m, b).busy) = Painted(c, m, b)
  BY DEF Painted

LEMMA HeldRow ==
    ASSUME NEW b, Processing(b), UNCHANGED <<chosen, mode, loading>>, RowIsTrue
    PROVE  RowIsTrue'
<1>1. CASE "settled" \in loading
  BY <1>1 DEF RowIsTrue
<1>2. CASE "settled" \notin loading
  <2>1. row = Painted(chosen, mode, row.busy)
    BY <1>2 DEF RowIsTrue
  <2>2. PICK k : k = row.busy
    OBVIOUS
  <2>3. row' = [Painted(chosen, mode, k) EXCEPT !.busy = b, !.open = chosen # {} /\ ~b]
    BY <2>1, <2>2 DEF Processing
  <2>4. row' = Painted(chosen, mode, b) /\ row'.busy = b
    BY <2>3 DEF Painted
  <2> QED BY <2>4 DEF RowIsTrue
<1> QED BY <1>1, <1>2

LEMMA RefreshedRow == ASSUME Refreshed PROVE RowIsTrue'
<1>1. row' = Painted(chosen', mode', row.busy)
  BY DEF Refreshed
<1>2. row'.busy = row.busy
  BY <1>1 DEF Painted
<1> QED BY <1>1, <1>2 DEF RowIsTrue

(* The setting: let go when a track is opened.                             *)
LEMMA ForceOffKeeps ==
    ASSUME NEW f, NEW l, NEW on, f \in Flags, FlagOK(f, l, on) PROVE FlagOK(ForceOff(f), l, on)
<1>1. CASE ~f.pressed
  BY <1>1 DEF ForceOff
<1>2. CASE f.pressed
  <2>1. PICK g : g = [f EXCEPT !.pressed = FALSE, !.asks = f.asks \cup {"off"}]
    OBVIOUS
  <2>2. g \in Flags /\ ~g.pressed /\ g.asks = f.asks \cup {"off"} /\ g.server = f.server /\ g.asked = f.asked
    BY <2>1 DEF Flags
  <2>3. ForceOff(f) = g
    BY <1>2, <2>1 DEF ForceOff
  <2> QED BY <2>2, <2>3 DEF FlagOK
<1> QED BY <1>1, <1>2

LEMMA StartSteps ==
    ASSUME FormInv, StemSelectionReady \/ VocalSplitModeReady \/ PaintStored PROVE FormInv'
<1>1. UNCHANGED <<stored, flag, doing>>
  BY DEF StemSelectionReady, VocalSplitModeReady, PaintStored
<1>2. chosen' \subseteq Stems /\ mode' \in {"all", "split"}
  BY DEF FormInv, FormScenesLeft, StemSelectionReady, VocalSplitModeReady, PaintStored
<1>3. StartsInOrder(loading') /\ ("flag" \in loading => "flag" \in loading')
  BY DEF FormInv, StartsInOrder, StemSelectionReady, VocalSplitModeReady, PaintStored
<1>4. RowIsTrue'
  <2>1. CASE PaintStored
    BY <2>1, RefreshedRow DEF PaintStored
  <2>2. CASE StemSelectionReady \/ VocalSplitModeReady
    <3>1. "settled" \in loading'
      BY <2>2 DEF FormInv, StartsInOrder, StemSelectionReady, VocalSplitModeReady
    <3> QED BY <3>1 DEF RowIsTrue
  <2> QED BY <2>1, <2>2
<1>5. FlagOK(flag, loading', doing.on)
  BY <1>3 DEF FormInv, FlagOK
<1> QED BY <1>1, <1>2, <1>3, <1>4, <1>5 DEF FormInv

LEMMA RowSteps ==
    ASSUME FormInv,
           \/ AllButton \/ \E s \in Stems : HandleStemChoiceClick(s)
           \/ \E m \in {"all", "split"} : VocalMode(m)
           \/ \E c \in SUBSET Stems : OpenStoredTrack(c)
    PROVE  FormInv'
<1>1. doing' \in FormScenesLeft /\ doing'.on = doing.on /\ loading' = loading
  BY FormSceneLeft DEF FormInv, AllButton, HandleStemChoiceClick, VocalMode, OpenStoredTrack
<1>2. chosen' \subseteq Stems /\ mode' \in {"all", "split"}
  BY FormAssumption DEF FormInv, AllButton, HandleStemChoiceClick, VocalMode, OpenStoredTrack
<1>3. stored' = [stems |-> chosen', mode |-> mode'] /\ Refreshed
  BY DEF AllButton, HandleStemChoiceClick, VocalMode, OpenStoredTrack, Saves, SelectionPainted
<1>4. stored'.stems = chosen'
  BY <1>3
<1>5. FlagOK(flag', loading, doing.on)
  <2>1. flag' = flag \/ flag' = ForceOff(flag)
    BY DEF AllButton, HandleStemChoiceClick, VocalMode, OpenStoredTrack
  <2> QED BY <2>1, ForceOffKeeps DEF FormInv, FlagOK
<1> QED BY <1>1, <1>2, <1>3, <1>4, <1>5, RefreshedRow DEF FormInv

LEMMA SubmitSteps ==
    ASSUME FormInv,
           \/ Submit \/ Restore \/ ClearFile
           \/ \E n \in 1..2 : StageFiles(n) \/ NativeDrop(n) \/ NativeDropRead(n)
           \/ \E s \in sending : RestoreAnswers(s) \/ \E ok \in BOOLEAN : SubmitAnswers(s, ok)
    PROVE  FormInv'
<1>1. UNCHANGED <<chosen, mode, stored, loading, flag>> /\ (UNCHANGED doing \/ Done)
  BY DEF Submit, Restore, ClearFile, StageFiles, NativeDrop, NativeDropRead, RestoreAnswers, SubmitAnswers
<1>2. UNCHANGED row \/ \E b \in BOOLEAN : Processing(b)
  BY DEF Submit, Restore, ClearFile, StageFiles, NativeDrop, NativeDropRead, RestoreAnswers, SubmitAnswers
<1>3. RowIsTrue'
  <2>1. CASE UNCHANGED row
    BY <1>1, <2>1 DEF FormInv, RowIsTrue
  <2>2. CASE \E b \in BOOLEAN : Processing(b)
    BY <1>1, <2>2, HeldRow DEF FormInv
  <2> QED BY <1>2, <2>1, <2>2
<1>4. doing' \in FormScenesLeft /\ doing'.on = doing.on
  BY <1>1, FormSceneLeft DEF FormInv
<1> QED BY <1>1, <1>3, <1>4 DEF FormInv

(* The setting is pressed.                                                 *)
LEMMA FlagClickKeeps ==
    ASSUME NEW l, NEW on, FlagOK(flag, l, on), FlagClick PROVE FlagOK(flag', l, on)
<1>1. PICK next \in BOOLEAN : next = ~flag.pressed
  OBVIOUS
<1>2. PICK ask : ask = IF next THEN "clickon" ELSE "clickoff"
  OBVIOUS
<1>3. PICK wants \in BOOLEAN : wants <=> flag.asked \/ next
  OBVIOUS
<1>4. flag' = [flag EXCEPT !.pressed = next, !.shut = TRUE, !.asked = wants, !.asks = flag.asks \cup {ask}]
  <2>1. (flag.asked \/ ~flag.pressed) = wants
    BY <1>1, <1>3
  <2> QED BY <1>1, <1>2, <2>1 DEF FlagClick
<1>5. /\ flag' \in Flags /\ flag'.pressed = next /\ flag'.asked = wants /\ flag'.asks = flag.asks \cup {ask}
      /\ flag'.server = flag.server
  BY <1>2, <1>4 DEF FlagOK, Flags
<1> QED BY <1>1, <1>2, <1>3, <1>5 DEF FlagOK, Flags

(* A request about it is answered, or lost.                                *)
LEMMA FlagAnswersKeeps ==
    ASSUME NEW l, NEW on, FlagOK(flag, l, on), NEW ask \in flag.asks, NEW ok \in BOOLEAN,
           FlagAnswers(ask, ok)
    PROVE  FlagOK(flag', l, on)
<1>1. flag \in Flags /\ ask \in {"clickon", "clickoff", "off"}
  BY DEF FlagOK, Flags
<1>2. PICK server \in BOOLEAN : server <=> IF ok THEN ask = "clickon" ELSE flag.server
  OBVIOUS
<1>3. PICK lost \in BOOLEAN : lost <=> flag.lost \/ (ask = "off" /\ ~ok)
  OBVIOUS
<1>4. PICK shut \in BOOLEAN : shut <=> IF ask = "off" THEN flag.shut ELSE FALSE
  OBVIOUS
<1>5. PICK pressed \in BOOLEAN :
        pressed <=> IF ask = "off" THEN flag.pressed ELSE IF ok THEN ask = "clickon" ELSE ~(ask = "clickon")
  OBVIOUS
<1>6. flag' = [flag EXCEPT !.asks = flag.asks \ {ask}, !.server = server, !.lost = lost, !.shut = shut,
                           !.pressed = pressed]
  <2>1. server = IF ok THEN ask = "clickon" ELSE flag.server
    BY <1>1, <1>2 DEF Flags
  <2>2. lost = (flag.lost \/ (ask = "off" /\ ~ok))
    BY <1>3
  <2>3. shut = IF ask = "off" THEN flag.shut ELSE FALSE
    BY <1>1, <1>4 DEF Flags
  <2>4. pressed = IF ask = "off" THEN flag.pressed ELSE IF ok THEN ask = "clickon" ELSE ~(ask = "clickon")
    BY <1>1, <1>5 DEF Flags
  <2> QED BY <2>1, <2>2, <2>3, <2>4 DEF FlagAnswers
<1>7. /\ flag' \in Flags /\ flag'.asks = flag.asks \ {ask} /\ flag'.server = server /\ flag'.lost = lost
      /\ flag'.pressed = pressed /\ flag'.asked = flag.asked
  BY <1>1, <1>6 DEF Flags
<1> QED BY <1>1, <1>2, <1>3, <1>5, <1>7 DEF FlagOK

LEMMA FlagSteps ==
    ASSUME FormInv,
           \/ FlagClick \/ \E a \in flag.asks, ok \in BOOLEAN : FlagAnswers(a, ok)
           \/ \E ok \in BOOLEAN : FlagRead(ok)
    PROVE  FormInv'
<1>1. UNCHANGED <<chosen, mode, stored, row>> /\ doing' \in FormScenesLeft /\ doing'.on = doing.on
  BY FormSceneLeft DEF FormInv, FlagClick, FlagAnswers, FlagRead
<1>2. loading' = loading \/ loading' = loading \ {"flag"}
  BY DEF FlagClick, FlagAnswers, FlagRead
<1>3. FlagOK(flag', loading', doing.on)
  <2>1. CASE FlagClick
    <3>1. loading' = loading
      BY <2>1 DEF FlagClick
    <3> QED BY <2>1, <3>1, FlagClickKeeps DEF FormInv
  <2>2. CASE \E a \in flag.asks, ok \in BOOLEAN : FlagAnswers(a, ok)
    <3>1. loading' = loading
      BY <2>2 DEF FlagAnswers
    <3> QED BY <2>2, <3>1, FlagAnswersKeeps DEF FormInv
  <2>3. CASE FlagRead(FALSE)
    <3>1. flag' = [flag EXCEPT !.lost = TRUE]
      BY <2>3 DEF FlagRead
    <3>2. /\ flag' \in Flags /\ flag'.lost /\ flag'.server = flag.server /\ flag'.asked = flag.asked
          /\ flag'.pressed = flag.pressed /\ flag'.asks = flag.asks
      BY <3>1 DEF FormInv, FlagOK, Flags
    <3> QED BY <3>2 DEF FormInv, FlagOK
  <2>4. CASE FlagRead(TRUE)
    <3>1. PICK on \in {flag.server, doing.on} : flag' = ForceOff([flag EXCEPT !.pressed = on])
      BY <2>4 DEF FlagRead, FlagCleared
    <3>2. on \in BOOLEAN
      BY DEF FormInv, FlagOK, Flags, FormScenesLeft
    <3>3. PICK g : g = [flag EXCEPT !.pressed = on]
      OBVIOUS
    <3>4. /\ g \in Flags /\ g.pressed = on /\ g.server = flag.server /\ g.asked = flag.asked
          /\ g.asks = flag.asks /\ g.lost = flag.lost
      BY <3>2, <3>3 DEF FormInv, FlagOK, Flags
    <3>5. CASE on
      <4>1. flag' = [g EXCEPT !.pressed = FALSE, !.asks = g.asks \cup {"off"}]
        BY <3>1, <3>3, <3>4, <3>5 DEF ForceOff
      <4>2. /\ flag' \in Flags /\ ~flag'.pressed /\ flag'.server = flag.server /\ flag'.asked = flag.asked
            /\ flag'.asks = flag.asks \cup {"off"}
        BY <3>4, <4>1 DEF Flags
      <4> QED BY <4>2 DEF FormInv, FlagOK
    <3>6. CASE ~on
      <4>1. flag' = g
        BY <3>1, <3>3, <3>4, <3>6 DEF ForceOff
      <4>2. flag.server => flag.asked
        BY <3>1, <3>6 DEF FormInv, FlagOK
      <4> QED BY <3>4, <3>6, <4>1, <4>2 DEF FormInv, FlagOK
    <3> QED BY <3>2, <3>5, <3>6
  <2> QED BY <2>1, <2>2, <2>3, <2>4
<1>4. StartsInOrder(loading') /\ RowIsTrue'
  BY <1>1, <1>2 DEF FormInv, StartsInOrder, RowIsTrue
<1> QED BY <1>1, <1>3, <1>4 DEF FormInv

LEMMA FormInitOK == FormInit => FormInv
<1> SUFFICES ASSUME FormInit PROVE FormInv
  OBVIOUS
<1>1. doing \in FormScenesLeft
  <2>1. doing \in [does : SUBSET FormGestures, left : Nat, stems : SUBSET Stems, mode : {"all", "split"}, on : BOOLEAN]
    BY FormAssumption DEF FormInit, FormGestures
  <2> QED BY <2>1 DEF FormScenesLeft
<1>2. chosen \subseteq Stems /\ mode \in {"all", "split"} /\ stored.stems \subseteq Stems
  BY <1>1 DEF FormInit, FormScenesLeft
<1>3. StartsInOrder(loading) /\ RowIsTrue
  BY DEF FormInit, StartsInOrder, RowIsTrue
<1>4. FlagOK(flag, loading, doing.on)
  <2>1. doing.on \in BOOLEAN
    BY <1>1 DEF FormScenesLeft
  <2>2. flag \in Flags /\ flag.server = doing.on /\ ~flag.pressed /\ flag.asks = {} /\ "flag" \in loading
    BY <2>1 DEF FormInit, Flags
  <2> QED BY <2>2 DEF FlagOK
<1> QED BY <1>1, <1>2, <1>3, <1>4 DEF FormInv

LEMMA FormStepOK == FormInv /\ [FormNext]_formVars => FormInv'
<1>1. ASSUME FormInv, FormNext PROVE FormInv'
  BY <1>1, StartSteps, RowSteps, SubmitSteps, FlagSteps DEF FormNext
<1>2. ASSUME FormInv, UNCHANGED formVars PROVE FormInv'
  BY <1>2 DEF FormInv, RowIsTrue, formVars
<1> QED BY <1>1, <1>2

(* The composer's row says what will be sent, whichever of the store's     *)
(* answers came first, and a setting left on is cleared (main.js).         *)
THEOREM FormStaysTrue == FormSpec => [](FormTypeOK /\ FormIsTrue)
<1>1. FormInv => FormTypeOK /\ FormIsTrue
  BY DEF FormInv, FlagOK, Flags, StartsInOrder, FormTypeOK, FormIsTrue, NobodyAskedNothingPays
<1> QED BY <1>1, FormInitOK, FormStepOK, PTL DEF FormSpec

-----------------------------------------------------------------------------
(* The export menu.  Its busy state is the latest export's, and a file of  *)
(* the exports folder holds what its name says.                            *)

Menus ==
    [open : BOOLEAN, format : {"wav", "mp4"}, busy : BOOLEAN, picking : BOOLEAN, token : Nat, shut : BOOLEAN]
Spans == [on : BOOLEAN, tenths : Nat, fine : Nat]
Urls == [song : Songs, mix : Mixes, click : BOOLEAN, format : {"wav", "mp4"}, span : Spans]
ExportRuns == [token : Nat, url : Urls, late : BOOLEAN, stage : {"picking", "moving", "flash"}]

StudioIs ==
    /\ open \in Songs /\ heard \in [mix : Mixes, click : BOOLEAN] /\ span \in Spans

(* The menu m and the exports rs under way.                                *)
MenuFits(m, rs) ==
    /\ m \in Menus /\ rs \subseteq ExportRuns
    /\ \A r \in rs : /\ r.token <= m.token
                     /\ r.stage = "picking" => r.token = m.token
                     /\ r.token = m.token /\ r.stage = "moving" /\ ~r.late => m.busy
    /\ \A r, s \in rs : r.token = s.token => r = s
    /\ m.busy \/ m.picking \/ m.shut => \E r \in rs : r.token = m.token
    /\ m.shut => m.busy

HoldsItsName == \A f \in folder : f.name = DragName(f.holds)

ExportInv == StudioIs /\ MenuFits(menu, runs) /\ HoldsItsName /\ DraggedIsTheLoop

LEMMA StudioSteps ==
    ASSUME ExportInv,
           \/ ExportClick \/ \E t \in Songs : LoadSong(t)
           \/ \E m \in Mixes : MoveFader(m)
           \/ \E n \in 1..2, f \in 0..1 : SetSpan(n, f)
    PROVE  ExportInv'
<1>1. UNCHANGED <<menu, runs, folder, handed>>
  BY DEF ExportClick, LoadSong, MoveFader, SetSpan
<1>2. open' \in Songs
  BY DEF ExportInv, StudioIs, ExportClick, LoadSong, MoveFader, SetSpan
<1>3. heard' \in [mix : Mixes, click : BOOLEAN]
  <2>1. CASE ExportClick
    BY <2>1 DEF ExportInv, StudioIs, ExportClick
  <2>2. CASE \E t \in Songs : LoadSong(t)
    <3>1. PICK t \in Songs : LoadSong(t)
      BY <2>2
    <3>2. PICK c \in BOOLEAN : c <=> heard.click /\ t \in HasGrid
      OBVIOUS
    <3>3. heard' = [mix |-> "full", click |-> c]
      BY <3>1, <3>2 DEF LoadSong
    <3> QED BY <3>3 DEF Mixes
  <2>3. CASE \E m \in Mixes : MoveFader(m)
    BY <2>3 DEF ExportInv, StudioIs, MoveFader
  <2>4. CASE \E n \in 1..2, f \in 0..1 : SetSpan(n, f)
    BY <2>4 DEF ExportInv, StudioIs, SetSpan
  <2> QED BY <2>1, <2>2, <2>3, <2>4
<1>4. span' \in Spans
  <2>1. CASE \E n \in 1..2, f \in 0..1 : SetSpan(n, f)
    <3>1. PICK n \in 1..2, f \in 0..1 : SetSpan(n, f)
      BY <2>1
    <3>2. span' = [on |-> TRUE, tenths |-> n, fine |-> f] /\ n \in Nat /\ f \in Nat
      BY <3>1 DEF SetSpan
    <3> QED BY <3>2 DEF Spans
  <2>2. CASE span' = span \/ span' = NoLoop
    <3>1. NoLoop \in Spans
      BY DEF NoLoop, Spans
    <3>2. span \in Spans
      BY DEF ExportInv, StudioIs
    <3> QED BY <2>2, <3>1, <3>2
  <2> QED BY <2>1, <2>2 DEF ExportClick, LoadSong, MoveFader
<1>5. HoldsItsName' /\ DraggedIsTheLoop'
  BY <1>1 DEF ExportInv, HoldsItsName, DraggedIsTheLoop, DragName
<1> QED BY <1>1, <1>2, <1>3, <1>4, <1>5 DEF ExportInv, StudioIs

(* What an export is of.                                                   *)
LEMMA UrlIs ==
    ASSUME StudioIs, NEW ext \in {"wav", "mp4"}, NEW region \in BOOLEAN
    PROVE  MixdownUrl(ext, region) \in Urls
<1>1. NoLoop \in Spans
  BY DEF NoLoop, Spans
<1> QED BY <1>1 DEF StudioIs, MixdownUrl, Urls

(* The panel opened, and its format.                                       *)
LEMMA PanelSteps ==
    ASSUME ExportInv, OpenPanel \/ \E f \in {"wav", "mp4"} : SetFormat(f)
    PROVE  ExportInv'
<1>1. UNCHANGED <<open, heard, span, runs, folder, handed>>
  BY DEF OpenPanel, SetFormat
<1>2. PICK o \in BOOLEAN, f \in {"wav", "mp4"} : menu' = [menu EXCEPT !.open = o, !.format = f]
  <2>1. menu \in Menus
    BY DEF ExportInv, MenuFits
  <2>2. CASE OpenPanel
    <3>1. CASE menu.open
      <4>1. menu' = [menu EXCEPT !.open = FALSE, !.format = menu.format]
        BY <2>1, <2>2, <3>1 DEF OpenPanel, Menus
      <4> QED BY <2>1, <4>1 DEF Menus
    <3>2. CASE ~menu.open
      <4>1. PICK f : f = IF menu.format = "mp4" /\ open \notin HasVideo THEN "wav" ELSE menu.format
        OBVIOUS
      <4>2. menu' = [menu EXCEPT !.open = TRUE, !.format = f]
        BY <2>2, <3>2, <4>1 DEF OpenPanel
      <4> QED BY <2>1, <4>1, <4>2 DEF Menus
    <3> QED BY <3>1, <3>2
  <2>3. CASE \E f \in {"wav", "mp4"} : SetFormat(f)
    <3>1. PICK f \in {"wav", "mp4"} : menu' = [menu EXCEPT !.format = f]
      BY <2>3 DEF SetFormat
    <3>2. menu' = [menu EXCEPT !.open = menu.open, !.format = f]
      BY <2>1, <3>1 DEF Menus
    <3> QED BY <2>1, <3>2 DEF Menus
  <2> QED BY <2>2, <2>3
<1>3. /\ menu' \in Menus /\ menu'.busy = menu.busy /\ menu'.picking = menu.picking
      /\ menu'.shut = menu.shut /\ menu'.token = menu.token
  BY <1>2 DEF ExportInv, MenuFits, Menus
<1>4. MenuFits(menu', runs')
  BY <1>1, <1>3 DEF ExportInv, MenuFits
<1>5. HoldsItsName' /\ DraggedIsTheLoop'
  BY <1>1 DEF ExportInv, HoldsItsName, DraggedIsTheLoop, DragName
<1> QED BY <1>1, <1>4, <1>5 DEF ExportInv, StudioIs

(* An export begins: it is the latest.                                     *)
LEMMA RunStep ==
    ASSUME ExportInv, NEW what \in {"mix", "region", "stems"}, RunExport(what)
    PROVE  MenuFits(menu', runs')
<1>1. menu \in Menus /\ runs \subseteq ExportRuns /\ menu.format \in {"wav", "mp4"} /\ MenuFits(menu, runs)
  BY DEF ExportInv, MenuFits, Menus
<1>2. PICK token \in Nat : token = menu.token + 1
  BY <1>1 DEF Menus
<1>3. PICK url \in Urls : url = MixdownUrl(menu.format, what = "region")
  BY <1>1, UrlIs DEF ExportInv
<1>4. PICK m : m = [menu EXCEPT !.picking = TRUE, !.token = token]
  OBVIOUS
<1>5. m \in Menus /\ m.picking /\ m.token = token /\ m.busy = menu.busy /\ m.shut = menu.shut
  BY <1>1, <1>4 DEF Menus
<1>6. PICK r : r = [token |-> token, url |-> url, late |-> FALSE,
                    stage |-> IF use.desktop THEN "picking" ELSE "flash"]
  OBVIOUS
<1>7. r \in ExportRuns /\ r.token = token /\ r.stage # "moving"
  BY <1>6 DEF ExportRuns
<1>8. CASE UNCHANGED <<menu, runs>>
  BY <1>1, <1>8
<1>9. CASE ~UNCHANGED <<menu, runs>>
  <2>1. /\ menu' = (IF use.desktop THEN m ELSE EnterBusy(m)) /\ runs' = runs \cup {r}
        /\ \A s \in runs : s.stage # "picking"
    BY <1>2, <1>3, <1>4, <1>6, <1>9 DEF RunExport, Uses
  <2>2. ~menu.busy /\ ~menu.shut
    BY DEF RunExport
  <2>3. menu' \in Menus /\ menu'.token = token /\ (menu'.shut => menu'.busy)
    BY <1>5, <2>1, <2>2 DEF EnterBusy, Menus
  <2>4. \A s \in runs : s.token <= token /\ s.token # token
    BY <1>1, <1>2 DEF MenuFits, ExportRuns, Menus
  <2>5. \A s \in runs' : /\ s.token <= token /\ (s.stage = "picking" => s.token = token)
                         /\ ~(s.token = token /\ s.stage = "moving")
    <3>1. token <= token
      OBVIOUS
    <3> QED BY <1>7, <2>1, <2>4, <3>1
  <2>6. runs' \subseteq ExportRuns /\ \A q, s \in runs' : q.token = s.token => q = s
    BY <1>1, <1>7, <2>1, <2>4 DEF MenuFits
  <2>7. \E q \in runs' : q.token = token
    BY <1>7, <2>1
  <2> QED BY <2>3, <2>5, <2>6, <2>7 DEF MenuFits
<1> QED BY <1>8, <1>9

(* An export that is over, or is thought to be.                            *)
LEMMA FinishIs ==
    ASSUME menu \in Menus, NEW r, NEW m, m = Finish(menu, r.token)
    PROVE  /\ m \in Menus /\ m.token = menu.token /\ ~m.picking
           /\ r.token = menu.token => ~m.busy /\ ~m.shut
           /\ r.token # menu.token => m.busy = menu.busy /\ m.shut = menu.shut
<1>1. PICK q : q = [menu EXCEPT !.picking = FALSE]
  OBVIOUS
<1>2. q \in Menus /\ q.token = menu.token /\ ~q.picking /\ q.busy = menu.busy /\ q.shut = menu.shut
  BY <1>1 DEF Menus
<1>3. m = IF r.token = menu.token THEN [q EXCEPT !.busy = FALSE, !.shut = FALSE] ELSE q
  BY <1>1 DEF Finish, ResetBusy
<1> QED BY <1>2, <1>3 DEF Menus

LEMMA EndFits ==
    ASSUME MenuFits(menu, runs), NEW r \in runs, NEW m, m = Finish(menu, r.token)
    PROVE  MenuFits(m, runs \ {r})
<1>1. menu \in Menus
  BY DEF MenuFits
<1>2. /\ m \in Menus /\ m.token = menu.token /\ ~m.picking
      /\ r.token = menu.token => ~m.busy /\ ~m.shut
      /\ r.token # menu.token => m.busy = menu.busy /\ m.shut = menu.shut
  BY <1>1, FinishIs
<1> QED BY <1>2 DEF MenuFits

(* An export goes on from r as l, of the same number.                      *)
LEMMA RunMoves ==
    ASSUME MenuFits(menu, runs), NEW r \in runs, NEW l \in ExportRuns, l.token = r.token, l.stage # "picking",
           NEW m \in Menus, m.token = menu.token, m.shut => m.busy,
           l.token = m.token /\ ~l.late => m.busy,
           l.token # m.token => m.busy = menu.busy,
           m.picking /\ l.token # m.token => menu.picking
    PROVE  MenuFits(m, (runs \ {r}) \cup {l})
<1> DEFINE rs == (runs \ {r}) \cup {l}
<1>1. rs \subseteq ExportRuns
  BY DEF MenuFits
<1>2. \A s \in runs \ {r} : s.token # l.token
  BY DEF MenuFits
<1>3. \A q, s \in rs : q.token = s.token => q = s
  BY <1>2 DEF MenuFits
<1>4. \A s \in rs : s.token <= m.token /\ (s.stage = "picking" => s.token = m.token)
  BY DEF MenuFits
<1>5. ASSUME NEW s \in rs, s.token = m.token, s.stage = "moving", ~s.late PROVE m.busy
  <2>1. CASE s = l
    BY <1>5, <2>1
  <2>2. CASE s # l
    BY <1>2, <1>5, <2>2 DEF MenuFits
  <2> QED BY <2>1, <2>2
<1>6. ASSUME m.busy \/ m.picking \/ m.shut PROVE \E s \in rs : s.token = m.token
  <2>1. CASE l.token = m.token
    BY <2>1
  <2>2. CASE l.token # m.token
    <3>1. menu.busy \/ menu.picking
      BY <1>6, <2>2
    <3>2. PICK s \in runs : s.token = menu.token
      BY <3>1 DEF MenuFits
    <3>3. s # r
      BY <2>2, <3>2
    <3> QED BY <3>2, <3>3
  <2> QED BY <2>1, <2>2
<1> HIDE DEF rs
<1>7. MenuFits(m, rs)
  BY <1>1, <1>3, <1>4, <1>5, <1>6 DEF MenuFits
<1> QED BY <1>7 DEF rs

LEMMA BackstopFits ==
    ASSUME MenuFits(menu, runs), NEW r \in runs, r.stage = "moving", NEW m, m = Finish(menu, r.token),
           NEW l, l = [r EXCEPT !.late = TRUE]
    PROVE  MenuFits(m, (runs \ {r}) \cup {l})
<1>1. menu \in Menus /\ r \in ExportRuns
  BY DEF MenuFits
<1>2. /\ m \in Menus /\ m.token = menu.token /\ ~m.picking
      /\ r.token = menu.token => ~m.busy /\ ~m.shut
      /\ r.token # menu.token => m.busy = menu.busy /\ m.shut = menu.shut
  BY <1>1, FinishIs
<1>3. l \in ExportRuns /\ l.token = r.token /\ l.late /\ l.stage = "moving"
  BY <1>1 DEF ExportRuns
<1>4. m.shut => m.busy
  BY <1>2 DEF MenuFits
<1>5. (l.token = m.token /\ ~l.late => m.busy) /\ l.stage # "picking" /\ l.token = r.token
  BY <1>3
<1>6. (l.token # m.token => m.busy = menu.busy) /\ (m.picking /\ l.token # m.token => menu.picking)
  BY <1>2, <1>3
<1> QED BY <1>2, <1>3, <1>4, <1>5, <1>6, RunMoves

LEMMA PickedFits ==
    ASSUME MenuFits(menu, runs), NEW r \in runs, r.stage = "picking", NEW m, m = EnterBusy(menu),
           NEW l, l = [r EXCEPT !.stage = "moving"]
    PROVE  MenuFits(m, (runs \ {r}) \cup {l})
<1>1. menu \in Menus /\ r \in ExportRuns /\ r.token = menu.token
  BY DEF MenuFits
<1>2. m \in Menus /\ m.token = menu.token /\ m.busy /\ m.shut
  BY <1>1 DEF EnterBusy, Menus
<1>3. l \in ExportRuns /\ l.token = r.token /\ l.stage = "moving"
  BY <1>1 DEF ExportRuns
<1> QED BY <1>1, <1>2, <1>3, RunMoves

LEMMA ExportSteps ==
    ASSUME ExportInv,
           \/ \E w \in {"mix", "region", "stems"} : RunExport(w)
           \/ \E r \in runs : PickDestination(r) \/ ExportEnds(r) \/ ExportBackstop(r)
    PROVE  ExportInv'
<1>1. UNCHANGED <<open, heard, span, folder, handed>>
  BY DEF RunExport, PickDestination, ExportEnds, ExportBackstop
<1>2. MenuFits(menu', runs')
  <2>1. CASE \E w \in {"mix", "region", "stems"} : RunExport(w)
    BY <2>1, RunStep
  <2>2. ASSUME NEW r \in runs, PickDestination(r) PROVE MenuFits(menu', runs')
    <3>1. CASE menu' = EnterBusy(menu) /\ runs' = (runs \ {r}) \cup {[r EXCEPT !.stage = "moving"]}
      BY <2>2, <3>1, PickedFits DEF PickDestination, ExportInv
    <3>2. CASE menu' = Finish(menu, r.token) /\ runs' = runs \ {r}
      BY <3>2, EndFits DEF ExportInv
    <3> QED BY <2>2, <3>1, <3>2 DEF PickDestination
  <2>3. ASSUME NEW r \in runs, ExportEnds(r) PROVE MenuFits(menu', runs')
    BY <2>3, EndFits DEF ExportEnds, ExportInv
  <2>4. ASSUME NEW r \in runs, ExportBackstop(r) PROVE MenuFits(menu', runs')
    BY <2>4, BackstopFits DEF ExportBackstop, ExportInv
  <2> QED BY <2>1, <2>2, <2>3, <2>4
<1>3. HoldsItsName' /\ DraggedIsTheLoop'
  BY <1>1 DEF ExportInv, HoldsItsName, DraggedIsTheLoop, DragName
<1> QED BY <1>1, <1>2, <1>3 DEF ExportInv, StudioIs

(* Names tell the loop, the song and the lane apart.                       *)
LEMMA NamesTell ==
    ASSUME NEW u, NEW v, DragName(u) = DragName(v)
    PROVE  /\ u.song = v.song /\ u.span.tenths = v.span.tenths
           /\ u.mix = "stem" <=> v.mix = "stem"
  BY DEF DragName

LEMMA HandsKeeps ==
    ASSUME NEW url, NEW got, Hands(url, got), DragName(got) = DragName(url)
    PROVE  DraggedIsTheLoop'
<1>1. handed'.asked = url /\ handed'.got = got
  BY DEF Hands
<1> QED BY <1>1, NamesTell DEF DraggedIsTheLoop

LEMMA DragSteps ==
    ASSUME ExportInv,
           \/ DragRegion \/ DragLane \/ PrewarmMix \/ \E ok \in BOOLEAN : WarmLane(ok)
           \/ \E u \in drags, ok \in BOOLEAN : DragWritten(u, ok)
    PROVE  ExportInv'
<1>1. UNCHANGED <<open, heard, span, menu, runs>>
  BY DEF DragRegion, DragLane, StartDrag, PrewarmMix, WarmLane, DragWritten
<1>2. ASSUME NEW url, StartDrag(url) PROVE HoldsItsName' /\ DraggedIsTheLoop'
  <2>1. folder' = folder
    BY <1>2 DEF StartDrag
  <2>2. HoldsItsName'
    BY <2>1 DEF ExportInv, HoldsItsName, DragName
  <2>3. CASE \E f \in folder : f.name = DragName(url)
    <3>1. PICK f : f = CHOOSE g \in folder : g.name = DragName(url)
      OBVIOUS
    <3>2. f \in folder /\ f.name = DragName(url)
      BY <2>3, <3>1
    <3>3. Hands(url, f.holds)
      BY <1>2, <2>3, <3>1 DEF StartDrag
    <3>4. DragName(f.holds) = DragName(url)
      BY <3>2 DEF ExportInv, HoldsItsName
    <3> QED BY <2>2, <3>3, <3>4, HandsKeeps
  <2>4. CASE ~\E f \in folder : f.name = DragName(url)
    BY <1>2, <2>2, <2>4 DEF StartDrag, ExportInv, DraggedIsTheLoop
  <2> QED BY <2>3, <2>4
<1>3. ASSUME NEW u \in drags, NEW ok \in BOOLEAN, DragWritten(u, ok) PROVE HoldsItsName' /\ DraggedIsTheLoop'
  <2>1. CASE ~ok
    BY <1>3, <2>1 DEF DragWritten, ExportInv, HoldsItsName, DraggedIsTheLoop, DragName
  <2>2. CASE ok
    <3>1. Hands(u, u) /\ folder' = {f \in folder : f.name # DragName(u)} \cup {[name |-> DragName(u), holds |-> u]}
      BY <1>3, <2>2 DEF DragWritten
    <3>2. ASSUME NEW f \in folder' PROVE f.name = DragName(f.holds)
      BY <3>1 DEF ExportInv, HoldsItsName
    <3>3. HoldsItsName'
      BY <3>2 DEF HoldsItsName, DragName
    <3> QED BY <3>1, <3>3, HandsKeeps
  <2> QED BY <2>1, <2>2
<1>4. HoldsItsName' /\ DraggedIsTheLoop'
  <2>1. CASE UNCHANGED <<folder, handed>>
    BY <2>1 DEF ExportInv, HoldsItsName, DraggedIsTheLoop, DragName
  <2> QED BY <1>2, <1>3, <2>1 DEF DragRegion, DragLane, PrewarmMix, WarmLane
<1> QED BY <1>1, <1>4 DEF ExportInv, StudioIs

LEMMA ExportInitOK == ExportInit => ExportInv
<1> SUFFICES ASSUME ExportInit PROVE ExportInv
  OBVIOUS
<1>1. StudioIs
  BY DEF ExportInit, StudioIs, Mixes, NoLoop, Spans
<1>2. MenuFits(menu, runs)
  <2>1. menu \in Menus
    BY DEF ExportInit, Menus
  <2> QED BY <2>1 DEF ExportInit, MenuFits
<1>3. HoldsItsName /\ DraggedIsTheLoop
  BY DEF ExportInit, HoldsItsName, DraggedIsTheLoop
<1> QED BY <1>1, <1>2, <1>3 DEF ExportInv

LEMMA ExportStepOK == ExportInv /\ [ExportNext]_exportVars => ExportInv'
<1>1. ASSUME ExportInv, ExportNext PROVE ExportInv'
  BY <1>1, StudioSteps, PanelSteps, ExportSteps, DragSteps DEF ExportNext
<1>2. ASSUME ExportInv, UNCHANGED exportVars PROVE ExportInv'
  BY <1>2 DEF ExportInv, StudioIs, HoldsItsName, DraggedIsTheLoop, DragName, exportVars
<1> QED BY <1>1, <1>2

(* In whatever order the exports end, are given up or were cancelled, the  *)
(* menu says what is under way, and a drag hands over what was dragged     *)
(* (exportMenu.js, export_drag.rs).                                        *)
THEOREM ExportStaysTrue == ExportSpec => [](ExportTypeOK /\ ExportIsTrue)
<1>1. ExportInv => ExportTypeOK /\ ExportIsTrue
  <2> SUFFICES ASSUME ExportInv PROVE ExportTypeOK /\ ExportIsTrue
    OBVIOUS
  <2>1. ExportTypeOK
    BY DEF ExportInv, StudioIs, MenuFits, ExportRuns, ExportTypeOK
  <2>2. MenuIsTrue
    BY DEF ExportInv, MenuFits, MenuIsTrue
  <2> QED BY <2>1, <2>2 DEF ExportInv, ExportIsTrue
<1> QED BY <1>1, ExportInitOK, ExportStepOK, PTL DEF ExportSpec

-----------------------------------------------------------------------------
(* The Settings window.  An answer carries the change of the server's it   *)
(* is of, and the window shows no more than the changes it was told of.    *)

ScenesLeft ==
    [acts : SUBSET {"open", "general", "days", "network", "secret", "stems"},
     asks : SUBSET Parts, gestures : Int]
Generals == [Fields -> 0..2]
FieldNames == Fields \cup {""}
Sayings == {"", "moving", "moved", "failed", "unreachable"}
Dialogs ==
    [open : BOOLEAN, gen : Nat, wired : SUBSET Parts, general : Generals, secret : 0..2,
     network : 0..1, stems : 0..2, told : [Parts -> Int], typing : BOOLEAN, confirmed : 0..2,
     unsaid : SUBSET FieldNames, busy : SUBSET Parts, key : 0..2,
     says : Sayings]
Keeps ==
    [general : Generals, secret : 0..2, network : 0..1, stems : 0..2, version : [Parts -> Nat]]
Calls ==
    [gen : Nat, n : Int, part : Parts, kind : {"get", "post"}, field : FieldNames,
     value : 0..2, answer : {"none", "ok", "refused", "lost"}, kept : Generals \cup 0..2,
     version : Int]

(* What a part may hold.                                                   *)
ValuesOf(p) == IF p = "general" THEN Generals ELSE IF p = "network" THEN 0..1 ELSE 0..2

(* A call, or its answer, under the settings s.                            *)
CallFits(c, s) ==
    /\ c.part = "network" => c.value \in 0..1
    /\ c.part = "general" /\ c.kind = "post" => c.field \in Fields
    /\ c.answer = "ok" => c.kept \in ValuesOf(c.part)
    /\ c.version <= s.version[c.part]
    /\ c.version = s.version[c.part] => c.kept = s[c.part]

(* The window d was told no more than has happened.                        *)
ToldFits(d, s) == \A p \in Parts : d.told[p] <= s.version[p]
UpToDate(d, s, p) == d.told[p] = s.version[p]
Mine(c, d, p) == c.gen = d.gen /\ c.part = p

SecretFits(d, s) == UpToDate(d, s, "secret") => d.secret = s.secret
StemsFits(d, s) == UpToDate(d, s, "stems") => d.stems = s.stems

(* The switch waits for the answer to its last press, and nothing else is  *)
(* under way then.                                                         *)
NetworkFits(d, s, cs) ==
    /\ "network" \notin d.wired => d.told["network"] = NotTold
    /\ \A c \in cs : Mine(c, d, "network") =>
          IF c.kind = "get" THEN "network" \notin d.wired
          ELSE /\ "network" \in d.wired /\ "network" \in d.busy
               /\ UpToDate(d, s, "network") => s.network = 1 - c.value
    /\ \A c, e \in cs : Mine(c, d, "network") /\ Mine(e, d, "network") => c = e
    /\ UpToDate(d, s, "network") /\ (\A c \in cs : ~Mine(c, d, "network")) => d.network = s.network

(* A field that is not posted, not typed and did not fail in silence says  *)
(* what is kept.                                                           *)
Posted(f, d, cs) == \E c \in cs : Mine(c, d, "general") /\ c.kind = "post" /\ c.field = f
FieldFits(f, d, s, cs) ==
    f \in d.unsaid \/ (f = "days" /\ d.typing) \/ Posted(f, d, cs) \/ d.general[f] = s.general[f]
GeneralFits(d, s, cs) ==
    /\ "general" \notin d.wired => /\ d.told["general"] = NotTold /\ ~d.typing
                                  /\ \A c \in cs : Mine(c, d, "general") => c.kind = "get"
    /\ UpToDate(d, s, "general") => /\ d.confirmed = s.general["device"]
                                    /\ \A f \in Fields : FieldFits(f, d, s, cs)

WindowFits(d, s, cs) ==
    d.open => SecretFits(d, s) /\ StemsFits(d, s) /\ NetworkFits(d, s, cs) /\ GeneralFits(d, s, cs)
TypesFit(d, s, cs) == d \in Dialogs /\ s \in Keeps /\ cs \subseteq Calls
CallsFit(d, s, cs) == \A c \in cs : c.gen <= d.gen /\ CallFits(c, s)
SettingsFit(d, s, cs) ==
    TypesFit(d, s, cs) /\ CallsFit(d, s, cs) /\ ToldFits(d, s) /\ WindowFits(d, s, cs)

SettingsInv == settingsLeft \in ScenesLeft /\ SettingsFit(dialog, settings, calls)

LEMMA UnsetIs == Unset \in Generals
<1>1. 0 \in 0..2
  OBVIOUS
<1> QED BY <1>1 DEF Unset, Generals

(* A gesture of the user's.                                                *)
LEMMA ChoseLeft ==
    ASSUME settingsLeft \in ScenesLeft, Chose PROVE settingsLeft' \in ScenesLeft
<1>1. PICK n \in Int : n = settingsLeft.gestures - 1
  <2>1. settingsLeft.gestures \in Int
    BY DEF ScenesLeft
  <2> QED BY <2>1
<1>2. settingsLeft' = [settingsLeft EXCEPT !.gestures = n]
  BY <1>1 DEF Chose
<1> QED BY <1>2 DEF ScenesLeft

(* A call that is sent; a look for the g-th window.                        *)
Asking(g, n, p, k, f, v, u) ==
    [gen |-> g, n |-> n, part |-> p, kind |-> k, field |-> f,
     value |-> v, answer |-> "none", kept |-> u, version |-> -1]
LookOf(p, g) == [Call(p, "get", "", 0) EXCEPT !.gen = g]

LEMMA CallIs ==
    ASSUME settings \in Keeps,
           NEW g \in Nat, NEW n \in Int, NEW p \in Parts, NEW k \in {"get", "post"},
           NEW f \in FieldNames, NEW v \in 0..2, NEW u \in Generals, NEW c,
           c = Asking(g, n, p, k, f, v, u),
           p = "network" => v \in 0..1, p = "general" /\ k = "post" => f \in Fields
    PROVE  /\ c \in Calls /\ CallFits(c, settings)
           /\ c.gen = g /\ c.part = p /\ c.kind = k /\ c.field = f /\ c.value = v
<1>1. c \in Calls
  BY DEF Asking, Calls
<1>2. settings.version[p] \in Nat
  BY DEF Keeps
<1>3. CallFits(c, settings)
  BY <1>2 DEF Asking, CallFits
<1> QED BY <1>1, <1>3 DEF Asking

(* A look at a part, and a post.                                           *)
LEMMA LookCall ==
    ASSUME settings \in Keeps, settingsLeft \in ScenesLeft,
           NEW g \in Nat, NEW p \in Parts, NEW c, c = LookOf(p, g)
    PROVE  c \in Calls /\ c.gen = g /\ c.part = p /\ c.kind = "get" /\ CallFits(c, settings)
<1>1. PICK n \in Int : n = settingsLeft.gestures
  BY DEF ScenesLeft
<1>2. PICK u \in Generals : u = Unset
  BY UnsetIs
<1>3. PICK k, f : k = "get" /\ f = ""
  OBVIOUS
<1>4. PICK h : h = dialog.gen
  OBVIOUS
<1>5. Call(p, k, f, 0) = Asking(h, n, p, k, f, 0, u)
  BY <1>1, <1>2, <1>4 DEF Call, NotTold, Asking
<1>6. c = Asking(g, n, p, k, f, 0, u)
  <2>1. c = [Call(p, k, f, 0) EXCEPT !.gen = g]
    BY <1>3 DEF LookOf
  <2> QED BY <1>5, <2>1 DEF Asking
<1>7. /\ k \in {"get", "post"} /\ k # "post"
      /\ 0 \in 0..2 /\ 0 \in 0..1
  <2>1. k = "get"
    BY <1>3
  <2> QED BY <2>1
<1>8. f \in FieldNames
  BY <1>3, Zenon DEF FieldNames
<1>9. /\ c \in Calls /\ CallFits(c, settings)
      /\ c.gen = g /\ c.part = p /\ c.kind = k
  BY <1>6, <1>7, <1>8, CallIs
<1> QED BY <1>3, <1>9

LEMMA SentCall ==
    ASSUME dialog \in Dialogs, settings \in Keeps, settingsLeft \in ScenesLeft,
           NEW p \in Parts, NEW f \in FieldNames, NEW v \in 0..2,
           p = "network" => v \in 0..1, p = "general" => f \in Fields,
           NEW c, c = Call(p, "post", f, v)
    PROVE  /\ c \in Calls /\ c.gen = dialog.gen /\ c.part = p /\ c.kind = "post" /\ c.field = f
           /\ c.value = v /\ CallFits(c, settings)
<1>1. PICK g \in Nat : g = dialog.gen
  BY DEF Dialogs
<1>2. PICK n \in Int : n = settingsLeft.gestures
  BY DEF ScenesLeft
<1>3. PICK u \in Generals : u = Unset
  BY UnsetIs
<1>4. PICK k \in {"get", "post"} : k = "post"
  OBVIOUS
<1>5. c = Asking(g, n, p, k, f, v, u)
  BY <1>1, <1>2, <1>3, <1>4 DEF Call, NotTold, Asking
<1>6. /\ c \in Calls /\ CallFits(c, settings)
      /\ c.gen = g /\ c.part = p /\ c.kind = k /\ c.field = f /\ c.value = v
  BY <1>5, CallIs
<1> QED BY <1>1, <1>4, <1>6

(* Opened: nothing is told yet, and every call of this window is a look.   *)
LEMMA OpenKeeps ==
    ASSUME SettingsInv, OpenLibraryEditor PROVE SettingsInv'
<1>1. dialog \in Dialogs /\ settings \in Keeps /\ settingsLeft \in ScenesLeft /\ settings' = settings
  BY DEF SettingsInv, SettingsFit, TypesFit, OpenLibraryEditor
<1>2. PICK g \in Nat : g = dialog.gen + 1
  <2>1. dialog.gen \in Nat
    BY <1>1 DEF Dialogs
  <2> QED BY <2>1
<1>3. PICK d : d = NewDialog(g)
  OBVIOUS
<1>4. dialog' = d
  BY <1>2, <1>3 DEF OpenLibraryEditor
<1>5. /\ d \in Dialogs /\ d.open /\ d.gen = g /\ d.wired = {}
      /\ ~d.typing /\ \A p \in Parts : d.told[p] = -1
  <2>1. PICK u \in Generals : u = Unset
    BY UnsetIs
  <2>2. PICK t \in [Parts -> Int] : \A p \in Parts : t[p] = -1
    <3>1. [p \in Parts |-> NotTold] \in [Parts -> Int]
      BY DEF NotTold
    <3> QED BY <3>1 DEF NotTold
  <2>3. PICK w \in Sayings : w = ""
    BY Zenon DEF Sayings
  <2>4. d = [open |-> TRUE, gen |-> g, wired |-> {}, general |-> u, secret |-> 0, network |-> 0,
             stems |-> 0, told |-> [p \in Parts |-> NotTold], typing |-> FALSE, confirmed |-> 0,
             unsaid |-> {}, busy |-> {}, key |-> 0, says |-> w]
    BY <1>3, <2>1, <2>3 DEF NewDialog
  <2>5. [p \in Parts |-> NotTold] \in [Parts -> Int]
    BY DEF NotTold
  <2>6. 0 \in 0..2 /\ 0 \in 0..1 /\ {} \in SUBSET Parts /\ {} \in SUBSET FieldNames
    OBVIOUS
  <2>7. d \in Dialogs
    BY <2>4, <2>5, <2>6 DEF Dialogs
  <2> QED BY <2>4, <2>7 DEF NotTold
<1>6. ASSUME NEW c \in calls' PROVE
        \/ c \in calls /\ c.gen # g
        \/ c \in Calls /\ c.gen = g /\ c.kind = "get" /\ CallFits(c, settings) /\ c \notin calls
           /\ c = LookOf(c.part, g)
  <2>1. \A e \in calls : e.gen <= dialog.gen /\ e.gen \in Nat
    BY DEF SettingsInv, SettingsFit, CallsFit, TypesFit, Calls
  <2>2. \A e \in calls : e.gen # g
    <3>1. dialog.gen \in Nat
      BY <1>1 DEF Dialogs
    <3> QED BY <1>2, <2>1, <3>1
  <2>3. CASE c \in calls
    BY <2>2, <2>3
  <2>4. ASSUME NEW p \in settingsLeft.asks, c = LookOf(p, g)
        PROVE c \in Calls /\ c.gen = g /\ c.kind = "get" /\ CallFits(c, settings) /\ c.part = p /\ p \in Parts
    <3>1. p \in Parts
      BY <1>1 DEF ScenesLeft
    <3>2. c \in Calls /\ c.gen = g /\ c.part = p /\ c.kind = "get" /\ CallFits(c, settings)
      BY <1>1, <2>4, <3>1, LookCall
    <3> QED BY <3>1, <3>2
  <2>5. c \in calls \/ \E p \in settingsLeft.asks : c = LookOf(p, g)
    BY <1>2 DEF OpenLibraryEditor, LookOf
  <2> QED BY <2>2, <2>3, <2>4, <2>5
<1>7. \A p \in Parts : settings.version[p] \in Nat
  BY <1>1 DEF Keeps
<1>8. \A p \in Parts : ~UpToDate(d, settings, p)
  BY <1>5, <1>7 DEF UpToDate
<1>9. NetworkFits(d, settings, calls')
  <2>1. ASSUME NEW c \in calls', Mine(c, d, "network") PROVE c.kind = "get"
    BY <1>5, <1>6, <2>1 DEF Mine
  <2>2. ASSUME NEW c \in calls', NEW e \in calls', Mine(c, d, "network"), Mine(e, d, "network") PROVE c = e
    <3>1. c.gen = g /\ e.gen = g /\ c.part = e.part
      BY <1>5, <2>2 DEF Mine
    <3>2. c = LookOf(c.part, g)
      BY <1>6, <3>1
    <3>3. e = LookOf(e.part, g)
      BY <1>6, <3>1
    <3> QED BY <3>1, <3>2, <3>3
  <2>3. ~UpToDate(d, settings, "network")
    BY <1>8 DEF Parts
  <2>4. "network" \notin d.wired /\ d.told["network"] = NotTold
    BY <1>5 DEF Parts, NotTold
  <2> QED BY <2>1, <2>2, <2>3, <2>4 DEF NetworkFits
<1>10. WindowFits(d, settings, calls')
  <2>1. "general" \notin d.wired /\ d.told["general"] = NotTold /\ ~d.typing
    BY <1>5 DEF Parts, NotTold
  <2>2. \A c \in calls' : Mine(c, d, "general") => c.kind = "get"
    BY <1>5, <1>6 DEF Mine
  <2> QED BY <1>8, <1>9, <2>1, <2>2 DEF WindowFits, SecretFits, StemsFits, GeneralFits, Parts
<1>11. TypesFit(d, settings, calls')
  BY <1>1, <1>5, <1>6 DEF TypesFit, SettingsInv, SettingsFit
<1>12. CallsFit(d, settings, calls')
  <2>1. ASSUME NEW c \in calls' PROVE c.gen <= g /\ CallFits(c, settings)
    <3>1. CASE c \in calls
      <4>1. c.gen <= dialog.gen /\ c.gen \in Nat /\ CallFits(c, settings)
        BY <3>1 DEF SettingsInv, SettingsFit, CallsFit, TypesFit, Calls
      <4>2. dialog.gen \in Nat
        BY <1>1 DEF Dialogs
      <4> QED BY <1>2, <4>1, <4>2
    <3>2. CASE c \notin calls
      <4>1. c.gen = g /\ CallFits(c, settings)
        BY <1>6, <3>2
      <4> QED BY <4>1
    <3> QED BY <3>1, <3>2
  <2> QED BY <1>5, <2>1 DEF CallsFit
<1>13. ToldFits(d, settings)
  BY <1>5, <1>7 DEF ToldFits
<1>14. settingsLeft' \in ScenesLeft
  BY <1>1, ChoseLeft DEF OpenLibraryEditor
<1> QED BY <1>1, <1>4, <1>10, <1>11, <1>12, <1>13, <1>14 DEF SettingsInv, SettingsFit

(* What a step about other parts leaves true of a part.                    *)
SameOf(p, d, cs, es) == \A c : Mine(c, d, p) => (c \in cs <=> c \in es)

LEMMA NetworkFrame ==
    ASSUME NEW d, NEW e, NEW s, NEW cs, NEW es, NetworkFits(d, s, cs), SameOf("network", d, cs, es),
           e.gen = d.gen, e.network = d.network, e.told["network"] = d.told["network"],
           "network" \in e.wired <=> "network" \in d.wired,
           "network" \in e.busy <=> "network" \in d.busy
    PROVE  NetworkFits(e, s, es)
  BY DEF NetworkFits, SameOf, Mine, UpToDate

LEMMA GeneralFrame ==
    ASSUME NEW d, NEW e, NEW s, NEW cs, NEW es, GeneralFits(d, s, cs), SameOf("general", d, cs, es),
           e.gen = d.gen, e.general = d.general, e.told["general"] = d.told["general"],
           "general" \in e.wired <=> "general" \in d.wired,
           e.confirmed = d.confirmed, e.unsaid = d.unsaid, e.typing = d.typing
    PROVE  GeneralFits(e, s, es)
<1>1. \A f : Posted(f, d, cs) <=> Posted(f, e, es)
  BY DEF Posted, SameOf, Mine
<1>2. \A c \in es : Mine(c, e, "general") => c \in cs /\ Mine(c, d, "general")
  BY DEF SameOf, Mine
<1>3. "general" \notin e.wired => \A c \in es : Mine(c, e, "general") => c.kind = "get"
  BY <1>2 DEF GeneralFits
<1>4. UpToDate(e, s, "general") => UpToDate(d, s, "general")
  BY DEF UpToDate
<1>5. \A f : FieldFits(f, d, s, cs) => FieldFits(f, e, s, es)
  BY <1>1 DEF FieldFits
<1> QED BY <1>3, <1>4, <1>5 DEF GeneralFits

(* The window e after a gesture in d: it was told nothing, and the calls   *)
(* es are those of before and those of new, which are of this window.      *)
LEMMA Gestured ==
    ASSUME NEW d, NEW s, NEW cs, TypesFit(d, s, cs), CallsFit(d, s, cs), ToldFits(d, s),
           NEW e \in Dialogs, e.gen = d.gen, e.told = d.told,
           NEW new, \A c \in new : c \in Calls /\ c.gen = d.gen /\ CallFits(c, s),
           NEW es, es = cs \cup new
    PROVE  TypesFit(e, s, es) /\ CallsFit(e, s, es) /\ ToldFits(e, s)
<1>1. TypesFit(e, s, es)
  BY DEF TypesFit
<1>2. d.gen \in Nat
  BY DEF TypesFit, Dialogs
<1>3. CallsFit(e, s, es)
  BY <1>2 DEF CallsFit
<1>4. ToldFits(e, s)
  BY DEF ToldFits
<1> QED BY <1>1, <1>3, <1>4

(* Closed.                                                                 *)
LEMMA CloseKeeps ==
    ASSUME SettingsInv, CloseLibraryEditor PROVE SettingsInv'
<1>1. dialog \in Dialogs
  BY DEF SettingsInv, SettingsFit, TypesFit
<1>2. /\ dialog' \in Dialogs /\ dialog'.gen = dialog.gen /\ dialog'.told = dialog.told /\ ~dialog'.open
      /\ calls' = calls \cup {} /\ settings' = settings
  BY <1>1 DEF CloseLibraryEditor, Dialogs
<1>3. TypesFit(dialog', settings, calls') /\ CallsFit(dialog', settings, calls') /\ ToldFits(dialog', settings)
  <2>1. PICK new : new = {}
    OBVIOUS
  <2>2. \A c \in new : c \in Calls /\ c.gen = dialog.gen /\ CallFits(c, settings)
    BY <2>1
  <2>3. calls' = calls \cup new
    BY <1>2, <2>1
  <2> QED BY <1>2, <2>2, <2>3, Gestured DEF SettingsInv, SettingsFit
<1>4. WindowFits(dialog', settings, calls')
  BY <1>2 DEF WindowFits
<1> QED BY <1>2, <1>3, <1>4, ChoseLeft DEF SettingsInv, SettingsFit, CloseLibraryEditor

(* A gesture on the fields of the first part.                              *)
LEMMA GeneralGesture ==
    ASSUME SettingsInv, NEW e \in Dialogs, e.open, dialog.open, e.gen = dialog.gen, e.told = dialog.told,
           e.secret = dialog.secret, e.stems = dialog.stems, e.network = dialog.network,
           e.wired = dialog.wired, e.busy = dialog.busy,
           NEW new, NEW es, es = calls \cup new,
           \A c \in new : c \in Calls /\ c.gen = dialog.gen /\ c.part = "general" /\ CallFits(c, settings),
           e.confirmed = dialog.confirmed,
           "general" \notin dialog.wired => ~e.typing /\ new = {},
           UpToDate(dialog, settings, "general") =>
               \A f \in Fields : FieldFits(f, dialog, settings, calls) => FieldFits(f, e, settings, es)
    PROVE  SettingsFit(e, settings, es)
<1>1. TypesFit(e, settings, es) /\ CallsFit(e, settings, es) /\ ToldFits(e, settings)
  BY Gestured DEF SettingsInv, SettingsFit
<1>2. SecretFits(e, settings) /\ StemsFits(e, settings)
  BY DEF SettingsInv, SettingsFit, WindowFits, SecretFits, StemsFits, UpToDate
<1>3. SameOf("network", dialog, calls, es)
  BY DEF SameOf, Mine
<1>4. NetworkFits(e, settings, es)
  BY <1>3, NetworkFrame DEF SettingsInv, SettingsFit, WindowFits
<1>5. GeneralFits(e, settings, es)
  <2>1. GeneralFits(dialog, settings, calls)
    BY DEF SettingsInv, SettingsFit, WindowFits
  <2>2. UpToDate(e, settings, "general") <=> UpToDate(dialog, settings, "general")
    BY DEF UpToDate
  <2>3. ASSUME "general" \notin e.wired
        PROVE  /\ e.told["general"] = NotTold /\ ~e.typing
               /\ \A c \in es : Mine(c, e, "general") => c.kind = "get"
    BY <2>1, <2>3 DEF GeneralFits, Mine
  <2> QED BY <2>1, <2>2, <2>3 DEF GeneralFits
<1> QED BY <1>1, <1>2, <1>4, <1>5 DEF SettingsFit, WindowFits

LEMMA ChangeKeeps ==
    ASSUME SettingsInv, NEW f \in Fields, NEW v \in 0..2, Change(f, v) PROVE SettingsInv'
<1>1. dialog \in Dialogs /\ settings \in Keeps /\ settingsLeft \in ScenesLeft
  BY DEF SettingsInv, SettingsFit, TypesFit
<1>2. PICK g \in Generals : g = [dialog.general EXCEPT ![f] = v]
  <2>1. dialog.general \in Generals
    BY <1>1 DEF Dialogs
  <2> QED BY <2>1 DEF Generals
<1>3. \A h \in Fields : h # f => g[h] = dialog.general[h]
  BY <1>1, <1>2 DEF Dialogs, Generals
<1>4. dialog' = [dialog EXCEPT !.general = g]
  BY <1>2 DEF Change
<1>5. /\ dialog' \in Dialogs /\ dialog'.general = g /\ dialog'.open = dialog.open /\ dialog'.gen = dialog.gen
      /\ dialog'.told = dialog.told /\ dialog'.secret = dialog.secret /\ dialog'.stems = dialog.stems
      /\ dialog'.network = dialog.network /\ dialog'.wired = dialog.wired /\ dialog'.busy = dialog.busy
      /\ dialog'.confirmed = dialog.confirmed /\ dialog'.unsaid = dialog.unsaid
      /\ dialog'.typing = dialog.typing
  BY <1>1, <1>4 DEF Dialogs
<1>6. PICK c : c = Call("general", "post", f, v)
  OBVIOUS
<1>7. f \in FieldNames /\ "general" \in Parts /\ "general" # "network"
  BY DEF FieldNames, Parts
<1>8. /\ c \in Calls /\ c.gen = dialog.gen /\ c.part = "general" /\ c.kind = "post" /\ c.field = f
      /\ CallFits(c, settings)
  BY <1>1, <1>6, <1>7, SentCall
<1>9. PICK new : new = IF "general" \in dialog.wired THEN {c} ELSE {}
  OBVIOUS
<1>10. calls' = calls \cup new
  BY <1>6, <1>9 DEF Change, Sends
<1>11. ASSUME UpToDate(dialog, settings, "general"), NEW h \in Fields, FieldFits(h, dialog, settings, calls)
       PROVE  FieldFits(h, dialog', settings, calls')
  <2>1. settings.version["general"] \in Nat
    BY <1>1, <1>7 DEF Keeps
  <2>2. "general" \in dialog.wired
    BY <1>11, <2>1 DEF UpToDate, Change, SettingsInv, SettingsFit, WindowFits, GeneralFits, NotTold
  <2>3. Posted(f, dialog', calls')
    BY <1>5, <1>8, <1>9, <1>10, <2>2 DEF Posted, Mine
  <2>4. Posted(h, dialog, calls) => Posted(h, dialog', calls')
    BY <1>5, <1>10 DEF Posted, Mine
  <2> QED BY <1>3, <1>5, <1>11, <2>3, <2>4 DEF FieldFits
<1>12. dialog.open /\ settings' = settings
  BY DEF Change
<1>13. \A x \in new : x \in Calls /\ x.gen = dialog.gen /\ x.part = "general" /\ CallFits(x, settings)
  BY <1>8, <1>9
<1>14. "general" \notin dialog.wired => ~dialog'.typing /\ new = {}
  BY <1>5, <1>9, <1>12 DEF SettingsInv, SettingsFit, WindowFits, GeneralFits
<1>15. SettingsFit(dialog', settings, calls')
  BY <1>5, <1>10, <1>11, <1>12, <1>13, <1>14, GeneralGesture
<1> QED BY <1>1, <1>12, <1>15, ChoseLeft DEF SettingsInv, Change

LEMMA TypeDaysKeeps ==
    ASSUME SettingsInv, NEW v \in 0..2, TypeDays(v) PROVE SettingsInv'
<1>1. dialog \in Dialogs /\ settings \in Keeps /\ settingsLeft \in ScenesLeft
  BY DEF SettingsInv, SettingsFit, TypesFit
<1>2. PICK g \in Generals : g = [dialog.general EXCEPT !["days"] = v]
  <2>1. dialog.general \in Generals
    BY <1>1 DEF Dialogs
  <2> QED BY <2>1 DEF Generals
<1>3. \A h \in Fields : h # "days" => g[h] = dialog.general[h]
  BY <1>1, <1>2 DEF Dialogs, Generals
<1>4. dialog' = [dialog EXCEPT !.general = g, !.typing = TRUE]
  BY <1>2 DEF TypeDays
<1>5. /\ dialog' \in Dialogs /\ dialog'.general = g /\ dialog'.open = dialog.open /\ dialog'.gen = dialog.gen
      /\ dialog'.told = dialog.told /\ dialog'.secret = dialog.secret /\ dialog'.stems = dialog.stems
      /\ dialog'.network = dialog.network /\ dialog'.wired = dialog.wired /\ dialog'.busy = dialog.busy
      /\ dialog'.confirmed = dialog.confirmed /\ dialog'.unsaid = dialog.unsaid
      /\ dialog'.typing = TRUE
  BY <1>1, <1>4 DEF Dialogs
<1>6. calls' = calls \cup {} /\ dialog.open /\ settings' = settings /\ "general" \in dialog.wired
  BY DEF TypeDays
<1>7. ASSUME NEW h \in Fields, FieldFits(h, dialog, settings, calls)
      PROVE  FieldFits(h, dialog', settings, calls')
  <2>1. Posted(h, dialog, calls) => Posted(h, dialog', calls')
    BY <1>5, <1>6 DEF Posted, Mine
  <2> QED BY <1>3, <1>5, <1>7, <2>1 DEF FieldFits
<1>8. SettingsFit(dialog', settings, calls')
  <2>1. PICK new : new = {}
    OBVIOUS
  <2>2. \A c \in new : c \in Calls /\ c.gen = dialog.gen /\ c.part = "general" /\ CallFits(c, settings)
    BY <2>1
  <2>3. calls' = calls \cup new
    BY <1>6, <2>1
  <2> QED BY <1>5, <1>6, <1>7, <2>2, <2>3, GeneralGesture
<1> QED BY <1>1, <1>6, <1>8, ChoseLeft DEF SettingsInv, TypeDays

LEMMA CommitDaysKeeps ==
    ASSUME SettingsInv, CommitDays PROVE SettingsInv'
<1>1. dialog \in Dialogs /\ settings \in Keeps /\ settingsLeft \in ScenesLeft
  BY DEF SettingsInv, SettingsFit, TypesFit
<1>2. PICK v \in 0..2 : v = dialog.general["days"]
  BY <1>1 DEF Dialogs, Generals, Fields
<1>3. PICK c : c = Call("general", "post", "days", v)
  OBVIOUS
<1>4. "days" \in FieldNames /\ "days" \in Fields /\ "general" \in Parts /\ "general" # "network"
  BY DEF FieldNames, Parts, Fields
<1>5. /\ c \in Calls /\ c.gen = dialog.gen /\ c.part = "general" /\ c.kind = "post" /\ c.field = "days"
      /\ CallFits(c, settings)
  BY <1>1, <1>3, <1>4, SentCall
<1>6. calls' = calls \cup {c} /\ dialog' = [dialog EXCEPT !.typing = FALSE] /\ dialog.open
      /\ settings' = settings /\ settingsLeft' = settingsLeft
  BY <1>2, <1>3 DEF CommitDays, Sends
<1>7. /\ dialog' \in Dialogs /\ dialog'.general = dialog.general /\ dialog'.open = dialog.open
      /\ dialog'.gen = dialog.gen
      /\ dialog'.told = dialog.told /\ dialog'.secret = dialog.secret /\ dialog'.stems = dialog.stems
      /\ dialog'.network = dialog.network /\ dialog'.wired = dialog.wired /\ dialog'.busy = dialog.busy
      /\ dialog'.confirmed = dialog.confirmed /\ dialog'.unsaid = dialog.unsaid
  BY <1>1, <1>6 DEF Dialogs
<1>8. ASSUME NEW h \in Fields, FieldFits(h, dialog, settings, calls)
      PROVE  FieldFits(h, dialog', settings, calls')
  <2>1. Posted(h, dialog, calls) => Posted(h, dialog', calls')
    BY <1>6, <1>7 DEF Posted, Mine
  <2>2. Posted("days", dialog', calls')
    BY <1>5, <1>6, <1>7 DEF Posted, Mine
  <2> QED BY <1>7, <1>8, <2>1, <2>2 DEF FieldFits
<1>9. \A x \in {c} : x \in Calls /\ x.gen = dialog.gen /\ x.part = "general" /\ CallFits(x, settings)
  BY <1>5
<1>10. "general" \in dialog.wired
  BY <1>6 DEF CommitDays, SettingsInv, SettingsFit, WindowFits, GeneralFits
<1>11. SettingsFit(dialog', settings, calls')
  BY <1>6, <1>7, <1>8, <1>9, <1>10, GeneralGesture
<1> QED BY <1>1, <1>6, <1>11 DEF SettingsInv

(* A gesture on another part: its buttons wait, and a post is sent.        *)
LEMMA OtherGesture ==
    ASSUME SettingsInv, NEW e \in Dialogs, e.open, dialog.open, e.gen = dialog.gen, e.told = dialog.told,
           e.secret = dialog.secret, e.stems = dialog.stems, e.wired = dialog.wired,
           e.general = dialog.general, e.confirmed = dialog.confirmed, e.unsaid = dialog.unsaid,
           e.typing = dialog.typing,
           NEW c \in Calls, c.gen = dialog.gen, c.part # "general", CallFits(c, settings),
           NEW es, es = calls \cup {c}, NetworkFits(e, settings, es)
    PROVE  SettingsFit(e, settings, es)
<1>1. TypesFit(e, settings, es) /\ CallsFit(e, settings, es) /\ ToldFits(e, settings)
  <2>1. PICK new : new = {c}
    OBVIOUS
  <2>2. \A x \in new : x \in Calls /\ x.gen = dialog.gen /\ CallFits(x, settings)
    BY <2>1
  <2>3. es = calls \cup new
    BY <2>1
  <2> QED BY <2>2, <2>3, Gestured DEF SettingsInv, SettingsFit
<1>2. SecretFits(e, settings) /\ StemsFits(e, settings)
  BY DEF SettingsInv, SettingsFit, WindowFits, SecretFits, StemsFits, UpToDate
<1>3. SameOf("general", dialog, calls, es)
  BY DEF SameOf, Mine
<1>4. GeneralFits(e, settings, es)
  BY <1>3, GeneralFrame DEF SettingsInv, SettingsFit, WindowFits
<1> QED BY <1>1, <1>2, <1>4 DEF SettingsFit, WindowFits

(* The switch is pressed.                                                  *)
LEMMA ToggleKeeps ==
    ASSUME SettingsInv, ToggleNetwork PROVE SettingsInv'
<1>1. dialog \in Dialogs /\ settings \in Keeps /\ settingsLeft \in ScenesLeft
  BY DEF SettingsInv, SettingsFit, TypesFit
<1>2. PICK v \in 0..1 : v = 1 - dialog.network
  <2>1. dialog.network \in 0..1
    BY <1>1 DEF Dialogs
  <2> QED BY <2>1
<1>3. PICK b \in SUBSET Parts : b = dialog.busy \cup {"network"}
  BY <1>1 DEF Dialogs, Parts
<1>4. PICK c : c = Call("network", "post", "", v)
  OBVIOUS
<1>5. dialog' = [dialog EXCEPT !.network = v, !.busy = b] /\ calls' = calls \cup {c} /\ settings' = settings
  BY <1>2, <1>3, <1>4 DEF ToggleNetwork, Sends
<1>6. /\ dialog' \in Dialogs /\ dialog'.network = v /\ dialog'.open = dialog.open /\ dialog'.busy = b
      /\ dialog'.gen = dialog.gen
      /\ dialog'.told = dialog.told /\ dialog'.secret = dialog.secret /\ dialog'.stems = dialog.stems
      /\ dialog'.general = dialog.general /\ dialog'.wired = dialog.wired
      /\ dialog'.confirmed = dialog.confirmed /\ dialog'.unsaid = dialog.unsaid
      /\ dialog'.typing = dialog.typing
  BY <1>1, <1>5 DEF Dialogs
<1>7. PICK f \in FieldNames : f = ""
  BY Zenon DEF FieldNames
<1>8. "network" \in Parts /\ "network" # "general" /\ v \in 0..2
  BY DEF Parts
<1>9. c = Call("network", "post", f, v)
  BY <1>4, <1>7
<1>10. /\ c \in Calls /\ c.gen = dialog.gen /\ c.part = "network" /\ c.kind = "post"
       /\ c.value = v /\ CallFits(c, settings)
  BY <1>1, <1>8, <1>9, SentCall
<1>11. dialog.open /\ "network" \in dialog.wired /\ "network" \notin dialog.busy
  BY DEF ToggleNetwork
<1>12. NetworkFits(dialog, settings, calls)
  BY <1>11 DEF SettingsInv, SettingsFit, WindowFits
<1>13. \A e \in calls : ~Mine(e, dialog, "network")
  BY <1>11, <1>12 DEF NetworkFits
<1>14. UpToDate(dialog', settings, "network") => settings.network = 1 - v
  <2>1. UpToDate(dialog', settings, "network") => settings.network = dialog.network
    BY <1>6, <1>12, <1>13 DEF NetworkFits, UpToDate
  <2>2. dialog.network \in 0..1
    BY <1>1 DEF Dialogs
  <2> QED BY <1>2, <2>1, <2>2
<1>15. "network" \in dialog'.wired /\ "network" \in dialog'.busy
  BY <1>3, <1>6, <1>11
<1>16. \A e \in calls' : Mine(e, dialog', "network") => e = c
  BY <1>5, <1>6, <1>13 DEF Mine
<1>17. Mine(c, dialog', "network") /\ c \in calls'
  BY <1>5, <1>6, <1>10 DEF Mine
<1>18. NetworkFits(dialog', settings, calls')
  BY <1>10, <1>14, <1>15, <1>16, <1>17 DEF NetworkFits
<1>19. SettingsFit(dialog', settings, calls')
  BY <1>5, <1>6, <1>8, <1>10, <1>11, <1>18, OtherGesture
<1> QED BY <1>1, <1>5, <1>19, ChoseLeft DEF SettingsInv, ToggleNetwork

(* A secret sent or cleared, the stems moved.                              *)
Posts(p, v) == Sends(p, "", v)

LEMMA ButtonKeeps ==
    ASSUME SettingsInv, NEW p \in {"secret", "stems"}, NEW v \in 0..2, NEW k \in 0..2, NEW w \in Sayings,
           dialog.open, Chose, settings' = settings, Posts(p, v),
           dialog' = [dialog EXCEPT !.key = k, !.busy = dialog.busy \cup {p}, !.says = w]
    PROVE  SettingsInv'
<1>1. dialog \in Dialogs /\ settings \in Keeps /\ settingsLeft \in ScenesLeft
  BY DEF SettingsInv, SettingsFit, TypesFit
<1>2. p \in Parts /\ p # "network" /\ p # "general"
  BY DEF Parts
<1>3. PICK b \in SUBSET Parts : b = dialog.busy \cup {p}
  BY <1>1, <1>2 DEF Dialogs
<1>4. PICK f \in FieldNames : f = ""
  BY Zenon DEF FieldNames
<1>5. PICK c : c = Call(p, "post", "", v)
  OBVIOUS
<1>6. /\ c \in Calls /\ c.gen = dialog.gen /\ c.part = p /\ c.kind = "post"
      /\ c.value = v /\ CallFits(c, settings)
  <2>1. c = Call(p, "post", f, v)
    BY <1>4, <1>5
  <2>2. (p = "network" => v \in 0..1) /\ (p = "general" => f \in Fields)
    BY <1>2
  <2> QED BY <1>1, <1>2, <2>1, <2>2, SentCall
<1>7. calls' = calls \cup {c}
  BY <1>4, <1>5 DEF Posts, Sends
<1>8. dialog' = [dialog EXCEPT !.key = k, !.busy = b, !.says = w]
  BY <1>3
<1>9. /\ dialog' \in Dialogs /\ dialog'.network = dialog.network /\ dialog'.open = dialog.open
      /\ dialog'.busy = b /\ dialog'.gen = dialog.gen
      /\ dialog'.told = dialog.told /\ dialog'.secret = dialog.secret /\ dialog'.stems = dialog.stems
      /\ dialog'.general = dialog.general /\ dialog'.wired = dialog.wired
      /\ dialog'.confirmed = dialog.confirmed /\ dialog'.unsaid = dialog.unsaid
      /\ dialog'.typing = dialog.typing
  BY <1>1, <1>8 DEF Dialogs
<1>10. SameOf("network", dialog, calls, calls')
  BY <1>2, <1>6, <1>7 DEF SameOf, Mine
<1>11. "network" \in dialog'.busy <=> "network" \in dialog.busy
  BY <1>2, <1>3, <1>9
<1>12. NetworkFits(dialog', settings, calls')
  BY ZenonT(40), <1>9, <1>10, <1>11, NetworkFrame DEF SettingsInv, SettingsFit, WindowFits
<1>13. SettingsFit(dialog', settings, calls')
  BY <1>2, <1>6, <1>7, <1>9, <1>12, OtherGesture
<1> QED BY <1>1, <1>13, ChoseLeft DEF SettingsInv

LEMMA ButtonsKeep ==
    ASSUME SettingsInv, ClearSecret \/ \E v \in 1..2 : SendSecret(v) \/ MoveStems(v)
    PROVE  SettingsInv'
<1>1. dialog \in Dialogs
  BY DEF SettingsInv, SettingsFit, TypesFit
<1>2. PICK k \in 0..2, w \in Sayings : k = dialog.key /\ w = dialog.says
  BY <1>1 DEF Dialogs
<1>3. CASE ClearSecret
  <2>1. PICK b : b = dialog.busy \cup {"secret"}
    OBVIOUS
  <2>2. dialog' = [dialog EXCEPT !.busy = b]
    BY <1>3, <2>1 DEF ClearSecret
  <2>3. dialog' = [dialog EXCEPT !.key = k, !.busy = b, !.says = w]
    BY <1>1, <1>2, <2>2 DEF Dialogs
  <2>4. 0 \in 0..2
    OBVIOUS
  <2> QED BY <1>3, <2>1, <2>3, <2>4, ButtonKeeps DEF Posts, ClearSecret
<1>4. ASSUME NEW v \in 1..2, SendSecret(v) PROVE SettingsInv'
  <2>1. PICK b : b = dialog.busy \cup {"secret"}
    OBVIOUS
  <2>2. dialog' = [dialog EXCEPT !.key = v, !.busy = b]
    BY <1>4, <2>1 DEF SendSecret
  <2>3. dialog' = [dialog EXCEPT !.key = v, !.busy = b, !.says = w]
    BY <1>1, <1>2, <2>2 DEF Dialogs
  <2>4. v \in 0..2
    OBVIOUS
  <2> QED BY <1>4, <2>1, <2>3, <2>4, ButtonKeeps DEF Posts, SendSecret
<1>5. ASSUME NEW v \in 1..2, MoveStems(v) PROVE SettingsInv'
  <2>1. PICK b : b = dialog.busy \cup {"stems"}
    OBVIOUS
  <2>2. dialog' = [dialog EXCEPT !.busy = b, !.says = "moving"]
    BY <1>5, <2>1 DEF MoveStems
  <2>3. dialog' = [dialog EXCEPT !.key = k, !.busy = b, !.says = "moving"]
    BY <1>1, <1>2, <2>2 DEF Dialogs
  <2>4. v \in 0..2 /\ "moving" \in Sayings
    <3>1. "moving" \in Sayings
      BY Zenon DEF Sayings
    <3> QED BY <3>1
  <2> QED BY <1>5, <2>1, <2>3, <2>4, ButtonKeeps DEF Posts, MoveStems
<1> QED BY <1>3, <1>4, <1>5

(* What reaches the server: one part changes, or none, and the call c goes *)
(* on as l.                                                                *)
Moves(s, z) ==
    \A p \in Parts : \/ z.version[p] = s.version[p] /\ z[p] = s[p]
                    \/ z.version[p] = s.version[p] + 1

LEMMA Answered ==
    ASSUME NEW d, NEW s, NEW cs, SettingsFit(d, s, cs), NEW c \in cs,
           NEW l \in Calls, l.gen = c.gen, l.part = c.part, l.kind = c.kind, l.field = c.field,
           l.value = c.value, NEW z \in Keeps, Moves(s, z), CallFits(l, z),
           NEW es, es = (cs \ {c}) \cup {l}
    PROVE  SettingsFit(d, z, es)
<1>1. d \in Dialogs /\ s \in Keeps /\ cs \subseteq Calls
  BY DEF SettingsFit, TypesFit
<1>2. ASSUME NEW p \in Parts
      PROVE  /\ s.version[p] \in Nat /\ z.version[p] \in Nat /\ d.told[p] \in Int
             /\ d.told[p] <= s.version[p]
             /\ \/ z.version[p] = s.version[p] /\ z[p] = s[p]
                \/ z.version[p] = s.version[p] + 1
  <2>1. s.version[p] \in Nat /\ z.version[p] \in Nat /\ d.told[p] \in Int
    BY <1>1 DEF Keeps, Dialogs
  <2> QED BY <2>1 DEF SettingsFit, ToldFits, Moves
<1>3. ASSUME NEW p \in Parts, UpToDate(d, z, p) PROVE UpToDate(d, s, p) /\ z[p] = s[p]
  BY <1>2, <1>3 DEF UpToDate
<1>4. ToldFits(d, z)
  BY <1>2 DEF ToldFits
<1>5. TypesFit(d, z, es)
  BY <1>1 DEF TypesFit
<1>6. CallsFit(d, z, es)
  <2>1. ASSUME NEW x \in cs PROVE CallFits(x, z)
    <3>1. x \in Calls /\ CallFits(x, s)
      BY <1>1 DEF SettingsFit, CallsFit
    <3>2. x.part \in Parts /\ x.version \in Int
      BY <3>1 DEF Calls
    <3>3. x.version <= z.version[x.part] /\ (x.version = z.version[x.part] => x.kept = z[x.part])
      BY <1>2, <3>1, <3>2 DEF CallFits
    <3> QED BY <3>1, <3>3 DEF CallFits
  <2> QED BY <2>1 DEF CallsFit, SettingsFit
<1>7. "secret" \in Parts /\ "stems" \in Parts /\ "network" \in Parts /\ "general" \in Parts
  BY DEF Parts
<1>8. ASSUME d.open PROVE SecretFits(d, z) /\ StemsFits(d, z)
  <2>1. SecretFits(d, s) /\ StemsFits(d, s)
    BY <1>8 DEF SettingsFit, WindowFits
  <2> QED BY <1>3, <1>7, <2>1 DEF SecretFits, StemsFits
<1>9. ASSUME d.open PROVE NetworkFits(d, z, es)
  <2>1. NetworkFits(d, s, cs)
    BY <1>9 DEF SettingsFit, WindowFits
  <2>2. UpToDate(d, z, "network") => UpToDate(d, s, "network") /\ z.network = s.network
    BY <1>3, <1>7
  <2>3. \A x \in es : Mine(x, d, "network") =>
           x \in cs \/ (x = l /\ Mine(c, d, "network"))
    BY DEF Mine
  <2>4. ASSUME NEW x \in es, Mine(x, d, "network")
        PROVE  IF x.kind = "get" THEN "network" \notin d.wired
               ELSE /\ "network" \in d.wired /\ "network" \in d.busy
                    /\ UpToDate(d, z, "network") => z.network = 1 - x.value
    <3>1. PICK y \in cs : Mine(y, d, "network") /\ y.kind = x.kind /\ y.value = x.value
      BY <2>3, <2>4
    <3> QED BY <2>1, <2>2, <3>1 DEF NetworkFits
  <2>5. ASSUME NEW x \in es, NEW y \in es, Mine(x, d, "network"), Mine(y, d, "network") PROVE x = y
    BY <2>1, <2>5 DEF NetworkFits, Mine
  <2>6. (\A x \in es : ~Mine(x, d, "network")) => \A x \in cs : ~Mine(x, d, "network")
    BY DEF Mine
  <2> QED BY <2>1, <2>2, <2>4, <2>5, <2>6 DEF NetworkFits
<1>10. ASSUME d.open PROVE GeneralFits(d, z, es)
  <2>1. GeneralFits(d, s, cs)
    BY <1>10 DEF SettingsFit, WindowFits
  <2>2. UpToDate(d, z, "general") => UpToDate(d, s, "general") /\ z.general = s.general
    BY <1>3, <1>7
  <2>3. \A f : Posted(f, d, cs) => Posted(f, d, es)
    BY DEF Posted, Mine
  <2>4. ASSUME "general" \notin d.wired, NEW x \in es, Mine(x, d, "general") PROVE x.kind = "get"
    BY <2>1, <2>4 DEF GeneralFits, Mine
  <2> QED BY <2>1, <2>2, <2>3, <2>4 DEF GeneralFits, FieldFits
<1> QED BY <1>4, <1>5, <1>6, <1>8, <1>9, <1>10 DEF SettingsFit, WindowFits

LEMMA NeverSentKeeps ==
    ASSUME SettingsInv, NEW c \in calls, NeverSent(c) PROVE SettingsInv'
<1>1. c \in Calls /\ settings \in Keeps /\ CallFits(c, settings)
  BY DEF SettingsInv, SettingsFit, TypesFit, CallsFit
<1>2. PICK l : l = [c EXCEPT !.answer = "lost"]
  OBVIOUS
<1>3. /\ l \in Calls /\ l.gen = c.gen /\ l.part = c.part /\ l.kind = c.kind /\ l.field = c.field
      /\ l.value = c.value /\ l.answer = "lost" /\ l.version = c.version /\ l.kept = c.kept
  BY <1>1, <1>2 DEF Calls
<1>4. CallFits(l, settings)
  BY <1>1, <1>3 DEF CallFits
<1>5. Moves(settings, settings)
  BY DEF Moves
<1>6. calls' = (calls \ {c}) \cup {l} /\ UNCHANGED <<dialog, settings, settingsLeft>>
  BY <1>2 DEF NeverSent
<1>7. SettingsFit(dialog, settings, calls')
  BY <1>1, <1>3, <1>4, <1>5, <1>6, Answered DEF SettingsInv
<1> QED BY <1>6, <1>7 DEF SettingsInv

(* What a post makes of a part.                                            *)
LEMMA KeptIs ==
    ASSUME settings \in Keeps, NEW c \in Calls, CallFits(c, settings)
    PROVE  /\ KeptOf(c) \in ValuesOf(c.part)
           /\ c.kind = "get" \/ Refused(c) => KeptOf(c) = settings[c.part]
<1>1. settings[c.part] \in ValuesOf(c.part)
  <2>1. settings.general \in Generals /\ settings.network \in 0..1 /\ settings.secret \in 0..2
        /\ settings.stems \in 0..2
    BY DEF Keeps
  <2>2. c.part \in Parts
    BY DEF Calls
  <2> QED BY <2>1, <2>2 DEF ValuesOf, Parts
<1>2. ASSUME c.kind # "get", ~Refused(c) PROVE KeptOf(c) \in ValuesOf(c.part)
  <2>1. CASE c.part = "general"
    <3>1. c.field \in Fields /\ c.value \in 0..2 /\ c.kind = "post"
      BY <1>2, <2>1 DEF Calls, CallFits
    <3>2. PICK v \in 0..2 : v = ServerClamp(c.field, c.value)
      <4>1. Most[c.field] \in 0..2
        BY <3>1 DEF Most, Fields
      <4> QED BY <3>1, <4>1 DEF ServerClamp
    <3>3. KeptOf(c) = [settings.general EXCEPT ![c.field] = v]
      BY <1>2, <2>1, <3>2 DEF KeptOf
    <3>4. settings.general \in Generals
      BY DEF Keeps
    <3> QED BY <2>1, <3>1, <3>3, <3>4 DEF ValuesOf, Generals
  <2>2. CASE c.part # "general"
    <3>1. KeptOf(c) = c.value /\ c.value \in 0..2
      BY <1>2, <2>2 DEF KeptOf, Calls
    <3> QED BY <2>2, <3>1 DEF ValuesOf, CallFits
  <2> QED BY <2>1, <2>2
<1>3. c.kind = "get" \/ Refused(c) => KeptOf(c) = settings[c.part]
  BY DEF KeptOf
<1> QED BY <1>1, <1>2, <1>3

LEMMA TakesKeeps ==
    ASSUME SettingsInv, NEW c \in calls, NEW lost \in BOOLEAN, ServerTakes(c, lost) PROVE SettingsInv'
<1>1. c \in Calls /\ settings \in Keeps /\ CallFits(c, settings)
  BY DEF SettingsInv, SettingsFit, TypesFit, CallsFit
<1>2. PICK kept : kept = KeptOf(c)
  OBVIOUS
<1>3. kept \in ValuesOf(c.part) /\ (c.kind = "get" \/ Refused(c) => kept = settings[c.part])
  BY <1>1, <1>2, KeptIs
<1>4. PICK p \in Parts : p = c.part
  BY <1>1 DEF Calls
<1>5. settings.version[p] \in Nat
  BY <1>1 DEF Keeps
<1>6. PICK n : n = settings.version[c.part] + (IF c.kind = "get" \/ Refused(c) THEN 0 ELSE 1)
  OBVIOUS
<1>7. /\ n \in Nat
      /\ \/ n = settings.version[p] /\ kept = settings[p]
         \/ n = settings.version[p] + 1
  BY <1>3, <1>4, <1>5, <1>6
<1>8. PICK a \in {"ok", "refused", "lost"} :
         a = IF lost THEN "lost" ELSE IF Refused(c) THEN "refused" ELSE "ok"
  OBVIOUS
<1>9. PICK l : l = [c EXCEPT !.answer = a, !.kept = kept, !.version = n]
  OBVIOUS
<1>10. PICK z : z = [settings EXCEPT ![p] = kept, !.version[p] = n]
  OBVIOUS
<1>11. calls' = (calls \ {c}) \cup {l} /\ settings' = z /\ UNCHANGED <<dialog, settingsLeft>>
  BY <1>2, <1>4, <1>6, <1>8, <1>9, <1>10 DEF ServerTakes
<1>12. z \in Keeps /\ z.version[p] = n /\ z[p] = kept
       /\ \A q \in Parts : q # p => z.version[q] = settings.version[q] /\ z[q] = settings[q]
  <2>1. PICK w \in [Parts -> Nat] : w = [settings.version EXCEPT ![p] = n]
    <3>1. settings.version \in [Parts -> Nat]
      BY <1>1 DEF Keeps
    <3> QED BY <1>7, <3>1
  <2>2. w[p] = n /\ \A q \in Parts : q # p => w[q] = settings.version[q]
    BY <1>1, <2>1 DEF Keeps
  <2>3. z = [settings EXCEPT ![p] = kept, !.version = w]
    BY <1>1, <1>4, <1>10, <2>1 DEF Keeps, Parts
  <2>4. CASE p = "general"
    BY <1>1, <1>3, <1>4, <2>2, <2>3, <2>4 DEF Keeps, Parts, ValuesOf
  <2>5. CASE p = "secret"
    BY <1>1, <1>3, <1>4, <2>2, <2>3, <2>5 DEF Keeps, Parts, ValuesOf
  <2>6. CASE p = "network"
    BY <1>1, <1>3, <1>4, <2>2, <2>3, <2>6 DEF Keeps, Parts, ValuesOf
  <2>7. CASE p = "stems"
    BY <1>1, <1>3, <1>4, <2>2, <2>3, <2>7 DEF Keeps, Parts, ValuesOf
  <2> QED BY <2>4, <2>5, <2>6, <2>7 DEF Parts
<1>13. Moves(settings, z)
  BY <1>7, <1>12 DEF Moves
<1>14. /\ l \in Calls /\ l.gen = c.gen /\ l.part = c.part /\ l.kind = c.kind /\ l.field = c.field
       /\ l.value = c.value /\ l.answer = a /\ l.version = n /\ l.kept = kept
  <2>1. kept \in Generals \cup 0..2
    BY <1>3 DEF ValuesOf
  <2>2. a \in {"none", "ok", "refused", "lost"} /\ n \in Int
    BY <1>7
  <2> QED BY <1>1, <1>9, <2>1, <2>2 DEF Calls
<1>15. CallFits(l, z)
  BY <1>1, <1>3, <1>4, <1>7, <1>12, <1>14 DEF CallFits
<1>16. SettingsFit(dialog, z, calls')
  BY <1>11, <1>12, <1>13, <1>14, <1>15, Answered DEF SettingsInv
<1> QED BY <1>11, <1>16 DEF SettingsInv

(* An answer of the part p lands in the window d and makes e of it.        *)
LandsIn(p, d, e) ==
    /\ e.open = d.open /\ e.gen = d.gen
    /\ \A q \in Parts : q # p => /\ e.told[q] = d.told[q]
                               /\ (q \in e.wired <=> q \in d.wired)
                               /\ (q \in e.busy <=> q \in d.busy)
    /\ p # "general" => /\ e.general = d.general /\ e.confirmed = d.confirmed
                        /\ e.unsaid = d.unsaid /\ e.typing = d.typing
    /\ p # "secret" => e.secret = d.secret
    /\ p # "network" => e.network = d.network
    /\ p # "stems" => e.stems = d.stems

LEMMA LandedFits ==
    ASSUME NEW d, NEW s, NEW cs, SettingsFit(d, s, cs), NEW c \in cs, NEW p, p = c.part,
           NEW e \in Dialogs, LandsIn(p, d, e), d.open, c.gen = d.gen,
           e.told[p] = d.told[p] \/ e.told[p] = c.version,
           NEW es, es = cs \ {c},
           p = "general" => GeneralFits(e, s, es), p = "secret" => SecretFits(e, s),
           p = "network" => NetworkFits(e, s, es), p = "stems" => StemsFits(e, s)
    PROVE  SettingsFit(e, s, es)
<1>1. d \in Dialogs /\ s \in Keeps /\ cs \subseteq Calls /\ c \in Calls /\ CallFits(c, s)
  BY DEF SettingsFit, TypesFit, CallsFit
<1>2. TypesFit(e, s, es)
  BY <1>1 DEF TypesFit
<1>3. CallsFit(e, s, es)
  BY DEF LandsIn, SettingsFit, CallsFit
<1>4. ToldFits(e, s)
  BY <1>1 DEF LandsIn, SettingsFit, ToldFits, CallFits
<1>5. "secret" \in Parts /\ "stems" \in Parts /\ "network" \in Parts /\ "general" \in Parts
  BY DEF Parts
<1>6. \A q : q # p => SameOf(q, d, cs, es)
  BY DEF SameOf, Mine
<1>7. SecretFits(e, s)
  BY <1>5 DEF LandsIn, SettingsFit, WindowFits, SecretFits, UpToDate
<1>8. StemsFits(e, s)
  BY <1>5 DEF LandsIn, SettingsFit, WindowFits, StemsFits, UpToDate
<1>9. NetworkFits(e, s, es)
  <2>1. CASE p # "network"
    <3>1. SameOf("network", d, cs, es) /\ NetworkFits(d, s, cs)
      BY <1>6, <2>1 DEF SettingsFit, WindowFits
    <3> QED BY <1>5, <2>1, <3>1, NetworkFrame DEF LandsIn
  <2> QED BY <2>1
<1>10. GeneralFits(e, s, es)
  <2>1. CASE p # "general"
    <3>1. SameOf("general", d, cs, es) /\ GeneralFits(d, s, cs)
      BY <1>6, <2>1 DEF SettingsFit, WindowFits
    <3> QED BY <1>5, <2>1, <3>1, GeneralFrame DEF LandsIn
  <2> QED BY <2>1
<1> QED BY <1>2, <1>3, <1>4, <1>7, <1>8, <1>9, <1>10 DEF SettingsFit, WindowFits

(* The parts of the window an answer leaves alone, of records written out. *)
LEMMA SecretLands ==
    ASSUME NEW d, NEW s, NEW cs, SettingsFit(d, s, cs), NEW c \in cs, c.part = "secret",
           d.open, c.gen = d.gen, NEW e, e = SecretAnswer(d, c)
    PROVE  SettingsFit(e, s, cs \ {c})
<1>1. d \in Dialogs /\ s \in Keeps /\ c \in Calls /\ CallFits(c, s)
  BY DEF SettingsFit, TypesFit, CallsFit
<1>2. PICK v \in 0..2 : v = IF c.answer = "ok" THEN c.kept ELSE d.secret
  BY <1>1 DEF Dialogs, CallFits, ValuesOf
<1>3. PICK t \in [Parts -> Int] :
         t = [d.told EXCEPT !["secret"] = IF c.answer = "ok" THEN c.version ELSE d.told["secret"]]
  <2>1. d.told \in [Parts -> Int] /\ c.version \in Int
    BY <1>1 DEF Dialogs, Calls
  <2>2. PICK n \in Int : n = IF c.answer = "ok" THEN c.version ELSE d.told["secret"]
    BY <2>1 DEF Parts
  <2> QED BY <2>1, <2>2
<1>4. PICK k \in 0..2 : k = IF c.kind = "post" /\ c.answer = "ok" THEN 0 ELSE d.key
  BY <1>1 DEF Dialogs
<1>5. PICK b \in SUBSET Parts : b = IF c.kind = "post" THEN d.busy \ {"secret"} ELSE d.busy
  BY <1>1 DEF Dialogs
<1>6. e = [d EXCEPT !.secret = v, !.told = t, !.key = k, !.busy = b]
  BY <1>1, <1>2, <1>3, <1>4, <1>5 DEF SecretAnswer, Dialogs
<1>7. /\ e \in Dialogs /\ e.secret = v /\ e.told = t /\ e.busy = b /\ e.open = d.open /\ e.gen = d.gen
      /\ e.wired = d.wired /\ e.general = d.general /\ e.confirmed = d.confirmed
      /\ e.unsaid = d.unsaid /\ e.typing = d.typing /\ e.network = d.network /\ e.stems = d.stems
  BY ZenonT(40), <1>1, <1>6 DEF Dialogs
<1>8. /\ \A q \in Parts : q # "secret" => t[q] = d.told[q]
      /\ t["secret"] = IF c.answer = "ok" THEN c.version ELSE d.told["secret"]
  BY <1>1, <1>3 DEF Dialogs, Parts
<1>9. LandsIn("secret", d, e)
  BY <1>5, <1>7, <1>8 DEF LandsIn
<1>10. SecretFits(e, s)
  <2>1. SecretFits(d, s)
    BY DEF SettingsFit, WindowFits
  <2> QED BY <1>1, <1>2, <1>7, <1>8, <2>1 DEF SecretFits, UpToDate, CallFits
<1>11. PICK p : p = "secret"
  OBVIOUS
<1>12. e.told[p] = d.told[p] \/ e.told[p] = c.version
  BY <1>7, <1>8, <1>11
<1> QED BY <1>7, <1>9, <1>10, <1>11, <1>12, LandedFits

LEMMA StemsLands ==
    ASSUME NEW d, NEW s, NEW cs, SettingsFit(d, s, cs), NEW c \in cs, c.part = "stems",
           d.open, c.gen = d.gen, NEW e, e = StemsAnswer(d, c)
    PROVE  SettingsFit(e, s, cs \ {c})
<1>1. d \in Dialogs /\ s \in Keeps /\ c \in Calls /\ CallFits(c, s)
  BY DEF SettingsFit, TypesFit, CallsFit
<1>2. PICK v \in 0..2 : v = IF c.answer = "ok" THEN c.kept ELSE d.stems
  BY <1>1 DEF Dialogs, CallFits, ValuesOf
<1>3. PICK t \in [Parts -> Int] :
         t = [d.told EXCEPT !["stems"] = IF c.answer = "ok" THEN c.version ELSE d.told["stems"]]
  <2>1. d.told \in [Parts -> Int] /\ c.version \in Int
    BY <1>1 DEF Dialogs, Calls
  <2>2. PICK n \in Int : n = IF c.answer = "ok" THEN c.version ELSE d.told["stems"]
    BY <2>1 DEF Parts
  <2> QED BY <2>1, <2>2
<1>4. PICK w \in SUBSET Parts : w = IF c.kind = "get" /\ c.answer = "ok" THEN d.wired \cup {"stems"} ELSE d.wired
  BY <1>1 DEF Dialogs, Parts
<1>5. PICK b \in SUBSET Parts : b = IF c.kind = "get" THEN d.busy ELSE d.busy \ {"stems"}
  BY <1>1 DEF Dialogs
<1>6. PICK z \in Sayings : z = CASE c.answer = "ok" -> "moved" [] c.answer = "refused" -> "failed"
                                  [] OTHER -> "unreachable"
  <2>1. "moved" \in Sayings /\ "failed" \in Sayings /\ "unreachable" \in Sayings
    BY Zenon DEF Sayings
  <2> QED BY <2>1
<1>7. PICK y \in Sayings : y = IF c.kind = "get" THEN d.says ELSE z
  BY <1>1 DEF Dialogs
<1>8. e = [d EXCEPT !.stems = v, !.told = t, !.wired = w, !.busy = b, !.says = y]
  <2>1. CASE c.kind = "get" /\ c.answer # "ok"
    <3>1. d.told = [d.told EXCEPT !["stems"] = d.told["stems"]]
      BY <1>1 DEF Dialogs
    <3>2. e = d /\ v = d.stems /\ t = d.told /\ w = d.wired /\ b = d.busy /\ y = d.says
      BY <1>2, <1>3, <1>4, <1>5, <1>7, <2>1, <3>1 DEF StemsAnswer
    <3> QED BY <1>1, <3>2 DEF Dialogs
  <2>2. CASE c.kind = "get" /\ c.answer = "ok"
    <3>1. t = [d.told EXCEPT !["stems"] = c.version] /\ v = c.kept /\ w = d.wired \cup {"stems"}
      BY <1>2, <1>3, <1>4, <2>2
    <3>2. e = [d EXCEPT !.stems = v, !.told = t, !.wired = w]
      BY <1>1, <2>2, <3>1 DEF StemsAnswer, Dialogs
    <3>3. b = d.busy /\ y = d.says
      BY <1>5, <1>7, <2>2
    <3> QED BY <1>1, <3>2, <3>3 DEF Dialogs
  <2>3. CASE c.kind # "get"
    <3>1. e = [d EXCEPT !.stems = v, !.told = t, !.says = z, !.busy = b]
      BY <1>1, <1>2, <1>3, <1>5, <1>6, <2>3 DEF StemsAnswer, Dialogs
    <3>2. w = d.wired /\ y = z
      BY <1>4, <1>7, <2>3
    <3> QED BY <1>1, <3>1, <3>2 DEF Dialogs
  <2> QED BY <2>1, <2>2, <2>3
<1>9. /\ e \in Dialogs /\ e.stems = v /\ e.told = t /\ e.busy = b /\ e.open = d.open /\ e.gen = d.gen
      /\ e.wired = w /\ e.general = d.general /\ e.confirmed = d.confirmed
      /\ e.unsaid = d.unsaid /\ e.typing = d.typing /\ e.network = d.network /\ e.secret = d.secret
  BY ZenonT(40), <1>1, <1>8 DEF Dialogs
<1>10. /\ \A q \in Parts : q # "stems" => t[q] = d.told[q]
       /\ t["stems"] = IF c.answer = "ok" THEN c.version ELSE d.told["stems"]
  BY <1>1, <1>3 DEF Dialogs, Parts
<1>11. LandsIn("stems", d, e)
  BY <1>4, <1>5, <1>9, <1>10 DEF LandsIn
<1>12. StemsFits(e, s)
  <2>1. StemsFits(d, s)
    BY DEF SettingsFit, WindowFits
  <2> QED BY <1>1, <1>2, <1>9, <1>10, <2>1 DEF StemsFits, UpToDate, CallFits
<1>13. PICK p : p = "stems"
  OBVIOUS
<1>14. e.told[p] = d.told[p] \/ e.told[p] = c.version
  BY <1>9, <1>10, <1>13
<1> QED BY <1>9, <1>11, <1>12, <1>13, <1>14, LandedFits

LEMMA NetworkLands ==
    ASSUME NEW d, NEW s, NEW cs, SettingsFit(d, s, cs), NEW c \in cs, c.part = "network",
           d.open, c.gen = d.gen, NEW e, e = NetworkAnswer(d, c)
    PROVE  SettingsFit(e, s, cs \ {c})
<1>1. d \in Dialogs /\ s \in Keeps /\ c \in Calls /\ CallFits(c, s) /\ NetworkFits(d, s, cs)
  BY DEF SettingsFit, TypesFit, CallsFit, WindowFits
<1>2. c.value \in 0..1 /\ (c.answer = "ok" => c.kept \in 0..1)
  BY <1>1 DEF CallFits, ValuesOf
<1>3. PICK v \in 0..1 : v = IF c.answer = "ok" THEN c.kept ELSE IF c.kind = "get" THEN 0 ELSE 1 - c.value
  BY <1>2
<1>4. PICK t \in [Parts -> Int] :
         t = [d.told EXCEPT !["network"] = IF c.answer = "ok" THEN c.version ELSE d.told["network"]]
  <2>1. d.told \in [Parts -> Int] /\ c.version \in Int
    BY <1>1 DEF Dialogs, Calls
  <2>2. PICK n \in Int : n = IF c.answer = "ok" THEN c.version ELSE d.told["network"]
    BY <2>1 DEF Parts
  <2> QED BY <2>1, <2>2
<1>5. PICK w \in SUBSET Parts : w = d.wired \cup {"network"}
  BY <1>1 DEF Dialogs, Parts
<1>6. PICK b \in SUBSET Parts : b = IF c.kind = "get" THEN d.busy ELSE d.busy \ {"network"}
  BY <1>1 DEF Dialogs
<1>7. Mine(c, d, "network") /\ (c.kind # "get" => "network" \in d.wired)
  BY <1>1 DEF Mine, NetworkFits
<1>8. e = [d EXCEPT !.network = v, !.told = t, !.wired = w, !.busy = b]
  <2>1. CASE c.kind = "get"
    <3>1. e = [d EXCEPT !.network = v, !.wired = w, !.told = t]
      BY <1>1, <1>3, <1>4, <1>5, <2>1 DEF NetworkAnswer, Dialogs
    <3>2. b = d.busy
      BY <1>6, <2>1
    <3> QED BY <1>1, <3>1, <3>2 DEF Dialogs
  <2>2. CASE c.kind # "get"
    <3>1. e = [d EXCEPT !.network = v, !.told = t, !.busy = b]
      BY <1>1, <1>3, <1>4, <1>6, <2>2 DEF NetworkAnswer, Dialogs
    <3>2. w = d.wired
      BY <1>5, <1>7, <2>2
    <3> QED BY <1>1, <3>1, <3>2 DEF Dialogs
  <2> QED BY <2>1, <2>2
<1>9. /\ e \in Dialogs /\ e.network = v /\ e.told = t /\ e.busy = b /\ e.open = d.open /\ e.gen = d.gen
      /\ e.wired = w /\ e.general = d.general /\ e.confirmed = d.confirmed
      /\ e.unsaid = d.unsaid /\ e.typing = d.typing /\ e.secret = d.secret /\ e.stems = d.stems
  BY <1>1, <1>8 DEF Dialogs
<1>10. /\ \A q \in Parts : q # "network" => t[q] = d.told[q]
       /\ t["network"] = IF c.answer = "ok" THEN c.version ELSE d.told["network"]
  BY <1>1, <1>4 DEF Dialogs, Parts
<1>11. LandsIn("network", d, e)
  BY <1>5, <1>6, <1>9, <1>10 DEF LandsIn
<1>12. UpToDate(e, s, "network") => e.network = s.network
  <2>1. CASE c.answer = "ok"
    BY <1>1, <1>3, <1>9, <1>10, <2>1 DEF UpToDate, CallFits
  <2>2. CASE c.answer # "ok" /\ c.kind = "get"
    <3>1. d.told["network"] = -1
      BY <1>1, <1>7, <2>2 DEF NetworkFits, NotTold
    <3>2. s.version["network"] \in Nat
      BY <1>1 DEF Keeps, Parts
    <3>3. ~UpToDate(e, s, "network")
      BY <1>9, <1>10, <2>2, <3>1, <3>2 DEF UpToDate
    <3> QED BY <3>3
  <2>3. CASE c.answer # "ok" /\ c.kind # "get"
    <3>1. UpToDate(d, s, "network") => s.network = 1 - c.value
      BY <1>1, <1>7, <2>3 DEF NetworkFits
    <3>2. e.network = 1 - c.value
      BY <1>3, <1>9, <2>3
    <3> QED BY <1>9, <1>10, <2>3, <3>1, <3>2 DEF UpToDate
  <2> QED BY <2>1, <2>2, <2>3
<1>13. \A x \in cs \ {c} : ~Mine(x, e, "network")
  <2>1. \A x \in cs : Mine(x, d, "network") => x = c
    BY <1>1, <1>7 DEF NetworkFits
  <2> QED BY <1>9, <2>1 DEF Mine
<1>14. NetworkFits(e, s, cs \ {c})
  BY <1>5, <1>9, <1>12, <1>13 DEF NetworkFits
<1>15. PICK p : p = "network"
  OBVIOUS
<1>16. e.told[p] = d.told[p] \/ e.told[p] = c.version
  BY <1>9, <1>10, <1>15
<1> QED BY <1>9, <1>11, <1>14, <1>15, <1>16, LandedFits

(* Every field says what was kept, but for days being typed.               *)
LEMMA AppliedIs ==
    ASSUME NEW d \in Dialogs, NEW c \in Calls, c.kept \in Generals, NEW e, e = Applied(d, c)
    PROVE  /\ e \in Dialogs /\ e.open = d.open /\ e.gen = d.gen /\ e.wired = d.wired /\ e.busy = d.busy
           /\ e.secret = d.secret /\ e.network = d.network /\ e.stems = d.stems
           /\ e.unsaid = {} /\ e.typing = d.typing /\ e.confirmed = c.kept["device"]
           /\ e.told["general"] = c.version /\ \A q \in Parts : q # "general" => e.told[q] = d.told[q]
           /\ \A f \in Fields : (f = "days" /\ d.typing) \/ e.general[f] = c.kept[f]
<1>1. d.general \in Generals
  BY DEF Dialogs
<1>2. PICK g \in Generals : g = [f \in Fields |-> IF f = "days" /\ d.typing THEN d.general[f] ELSE c.kept[f]]
  <2>1. \A f \in Fields : (IF f = "days" /\ d.typing THEN d.general[f] ELSE c.kept[f]) \in 0..2
    BY <1>1 DEF Generals
  <2>2. [f \in Fields |-> IF f = "days" /\ d.typing THEN d.general[f] ELSE c.kept[f]] \in [Fields -> 0..2]
    BY <2>1
  <2> QED BY <2>2 DEF Generals
<1>3. \A f \in Fields : (f = "days" /\ d.typing) \/ g[f] = c.kept[f]
  BY <1>2
<1>4. PICK k \in 0..2 : k = c.kept["device"]
  BY DEF Generals, Fields
<1>5. PICK n \in Int : n = c.version
  BY DEF Calls
<1>6. PICK t \in [Parts -> Int] : t = [d.told EXCEPT !["general"] = n]
  BY <1>5 DEF Dialogs
<1>7. t["general"] = n /\ \A q \in Parts : q # "general" => t[q] = d.told[q]
  BY <1>6 DEF Dialogs, Parts
<1>8. PICK u \in SUBSET FieldNames : u = {}
  OBVIOUS
<1>9. e = [d EXCEPT !.general = g, !.confirmed = k, !.unsaid = u, !.told = t]
  BY <1>2, <1>4, <1>5, <1>6, <1>8 DEF Applied, Dialogs
<1>10. /\ e \in Dialogs /\ e.open = d.open /\ e.gen = d.gen /\ e.wired = d.wired /\ e.busy = d.busy
       /\ e.secret = d.secret /\ e.network = d.network /\ e.stems = d.stems
       /\ e.unsaid = u /\ e.typing = d.typing /\ e.confirmed = k /\ e.told = t /\ e.general = g
  BY <1>9 DEF Dialogs
<1> QED BY <1>3, <1>4, <1>5, <1>7, <1>8, <1>10

(* What an answer of the first part makes of the window: what is kept, or  *)
(* nothing but a field given up or a device put back.                      *)
GeneralLanding(d, c, e) ==
    /\ e \in Dialogs /\ e.open = d.open /\ e.gen = d.gen /\ e.busy = d.busy
    /\ e.secret = d.secret /\ e.network = d.network /\ e.stems = d.stems
    /\ e.wired = IF c.kind = "get" THEN d.wired \cup {"general"} ELSE d.wired
    /\ \A q \in Parts : q # "general" => e.told[q] = d.told[q]
    /\ (e.typing => d.typing) /\ (c.answer # "ok" => e.typing = d.typing)
    /\ IF c.answer = "ok"
       THEN /\ e.told["general"] = c.version /\ e.confirmed = c.kept["device"]
            /\ \A f \in Fields : (f = "days" /\ e.typing) \/ e.general[f] = c.kept[f]
       ELSE /\ e.told["general"] = d.told["general"] /\ e.confirmed = d.confirmed
            /\ \A f \in Fields : \/ e.general[f] = d.general[f] /\ (f \in d.unsaid => f \in e.unsaid)
                                      /\ (c.kind = "get" \/ c.field # f \/ f \in e.unsaid)
                                 \/ f = "device" /\ e.general[f] = d.confirmed

LEMMA GeneralAnswerIs ==
    ASSUME NEW d \in Dialogs, NEW c \in Calls, c.part = "general", c.answer = "ok" => c.kept \in Generals,
           NEW e, e = GeneralAnswer(d, c)
    PROVE  GeneralLanding(d, c, e)
<1>1. CASE c.kind = "get"
  <2>1. PICK a : a = IF c.answer = "ok" THEN Applied(d, c) ELSE d
    OBVIOUS
  <2>2. e = [a EXCEPT !.wired = a.wired \cup {"general"}]
    BY <1>1, <2>1 DEF GeneralAnswer
  <2>3. CASE c.answer = "ok"
    <3>1. a = Applied(d, c) /\ c.kept \in Generals
      BY <2>1, <2>3
    <3>2. /\ a \in Dialogs /\ a.open = d.open /\ a.gen = d.gen /\ a.wired = d.wired /\ a.busy = d.busy
          /\ a.secret = d.secret /\ a.network = d.network /\ a.stems = d.stems
          /\ a.unsaid = {} /\ a.typing = d.typing /\ a.confirmed = c.kept["device"]
          /\ a.told["general"] = c.version /\ \A q \in Parts : q # "general" => a.told[q] = d.told[q]
          /\ \A f \in Fields : (f = "days" /\ d.typing) \/ a.general[f] = c.kept[f]
      BY <3>1, AppliedIs
    <3>3. PICK w \in SUBSET Parts : w = a.wired \cup {"general"}
      BY <3>2 DEF Dialogs, Parts
    <3>4. e = [a EXCEPT !.wired = w]
      BY <2>2, <3>3
    <3>5. /\ e \in Dialogs /\ e.wired = w /\ e.open = a.open /\ e.gen = a.gen /\ e.busy = a.busy
          /\ e.secret = a.secret /\ e.network = a.network /\ e.stems = a.stems /\ e.told = a.told
          /\ e.typing = a.typing /\ e.confirmed = a.confirmed /\ e.general = a.general
      BY <3>2, <3>4 DEF Dialogs
    <3> QED BY <1>1, <2>3, <3>2, <3>3, <3>5 DEF GeneralLanding
  <2>4. CASE c.answer # "ok"
    <3>1. PICK w \in SUBSET Parts : w = d.wired \cup {"general"}
      BY DEF Dialogs, Parts
    <3>2. e = [d EXCEPT !.wired = w]
      BY <2>1, <2>2, <2>4, <3>1
    <3>3. /\ e \in Dialogs /\ e.wired = w /\ e.open = d.open /\ e.gen = d.gen /\ e.busy = d.busy
          /\ e.secret = d.secret /\ e.network = d.network /\ e.stems = d.stems /\ e.told = d.told
          /\ e.typing = d.typing /\ e.confirmed = d.confirmed /\ e.general = d.general
          /\ e.unsaid = d.unsaid
      BY <3>2 DEF Dialogs
    <3> QED BY <1>1, <2>4, <3>1, <3>3 DEF GeneralLanding
  <2> QED BY <2>3, <2>4
<1>2. CASE c.kind # "get" /\ c.answer # "ok"
  <2>1. e = NotChanged(d, c)
    BY <1>2 DEF GeneralAnswer
  <2>2. CASE c.field = "device"
    <3>1. PICK g \in Generals : g = [d.general EXCEPT !["device"] = d.confirmed]
      BY DEF Dialogs, Generals
    <3>2. g["device"] = d.confirmed /\ \A f \in Fields : f # "device" => g[f] = d.general[f]
      BY <3>1 DEF Dialogs, Generals, Fields
    <3>3. e = [d EXCEPT !.general = g]
      BY <2>1, <2>2, <3>1 DEF NotChanged
    <3>4. /\ e \in Dialogs /\ e.wired = d.wired /\ e.open = d.open /\ e.gen = d.gen /\ e.busy = d.busy
          /\ e.secret = d.secret /\ e.network = d.network /\ e.stems = d.stems /\ e.told = d.told
          /\ e.typing = d.typing /\ e.confirmed = d.confirmed /\ e.general = g
          /\ e.unsaid = d.unsaid
      BY <3>3 DEF Dialogs
    <3> QED BY <1>2, <2>2, <3>2, <3>4 DEF GeneralLanding
  <2>3. CASE c.field # "device"
    <3>1. PICK u \in SUBSET FieldNames : u = d.unsaid \cup {c.field}
      BY DEF Dialogs, Calls
    <3>2. e = [d EXCEPT !.unsaid = u]
      BY <2>1, <2>3, <3>1 DEF NotChanged
    <3>3. /\ e \in Dialogs /\ e.wired = d.wired /\ e.open = d.open /\ e.gen = d.gen /\ e.busy = d.busy
          /\ e.secret = d.secret /\ e.network = d.network /\ e.stems = d.stems /\ e.told = d.told
          /\ e.typing = d.typing /\ e.confirmed = d.confirmed /\ e.general = d.general
          /\ e.unsaid = u
      BY <3>2 DEF Dialogs
    <3> QED BY <1>2, <3>1, <3>3 DEF GeneralLanding
  <2> QED BY <2>2, <2>3
<1>3. CASE c.kind # "get" /\ c.answer = "ok"
  <2>1. PICK a : a = Applied(d, c)
    OBVIOUS
  <2>2. /\ a \in Dialogs /\ a.open = d.open /\ a.gen = d.gen /\ a.wired = d.wired /\ a.busy = d.busy
        /\ a.secret = d.secret /\ a.network = d.network /\ a.stems = d.stems
        /\ a.unsaid = {} /\ a.typing = d.typing /\ a.confirmed = c.kept["device"]
        /\ a.told["general"] = c.version /\ \A q \in Parts : q # "general" => a.told[q] = d.told[q]
        /\ \A f \in Fields : (f = "days" /\ d.typing) \/ a.general[f] = c.kept[f]
    BY <1>3, <2>1, AppliedIs
  <2>3. CASE c.field = "days"
    <3>1. c.kept \in Generals /\ a.general \in Generals
      BY <1>3, <2>2 DEF Dialogs
    <3>2. PICK g \in Generals : g = [a.general EXCEPT !["days"] = c.kept["days"]]
      <4>1. c.kept["days"] \in 0..2
        BY <3>1 DEF Generals, Fields
      <4> QED BY <3>1, <4>1 DEF Generals
    <3>3. g["days"] = c.kept["days"] /\ \A f \in Fields : f # "days" => g[f] = a.general[f]
      BY <3>1, <3>2 DEF Generals, Fields
    <3>4. e = [a EXCEPT !.general = g, !.typing = FALSE]
      BY <1>3, <2>1, <2>3, <3>2 DEF GeneralAnswer
    <3>5. /\ e \in Dialogs /\ e.wired = a.wired /\ e.open = a.open /\ e.gen = a.gen /\ e.busy = a.busy
          /\ e.secret = a.secret /\ e.network = a.network /\ e.stems = a.stems /\ e.told = a.told
          /\ e.typing = FALSE /\ e.confirmed = a.confirmed /\ e.general = g
      BY <2>2, <3>4 DEF Dialogs
    <3>6. \A f \in Fields : e.general[f] = c.kept[f]
      BY <2>2, <3>3, <3>5
    <3> QED BY <1>3, <2>2, <3>5, <3>6 DEF GeneralLanding
  <2>4. CASE c.field # "days"
    <3>1. e = a
      BY <1>3, <2>1, <2>4 DEF GeneralAnswer
    <3> QED BY <1>3, <2>2, <3>1 DEF GeneralLanding
  <2> QED BY <2>3, <2>4
<1> QED BY <1>1, <1>2, <1>3

LEMMA GeneralLands ==
    ASSUME NEW d, NEW s, NEW cs, SettingsFit(d, s, cs), NEW c \in cs, c.part = "general",
           d.open, c.gen = d.gen, NEW e, e = GeneralAnswer(d, c)
    PROVE  SettingsFit(e, s, cs \ {c})
<1>1. d \in Dialogs /\ s \in Keeps /\ c \in Calls /\ CallFits(c, s) /\ GeneralFits(d, s, cs)
  BY DEF SettingsFit, TypesFit, CallsFit, WindowFits
<1>2. GeneralLanding(d, c, e)
  <2>1. c.answer = "ok" => c.kept \in Generals
    BY <1>1 DEF CallFits, ValuesOf
  <2> QED BY <1>1, <2>1, GeneralAnswerIs
<1>3. LandsIn("general", d, e)
  BY <1>2 DEF LandsIn, GeneralLanding
<1>4. e.told["general"] = d.told["general"] \/ e.told["general"] = c.version
  BY <1>2 DEF GeneralLanding
<1>5. Mine(c, d, "general")
  BY DEF Mine
<1>6. "general" \in e.wired
  BY <1>1, <1>2, <1>5 DEF GeneralLanding, GeneralFits
<1>7. ASSUME UpToDate(e, s, "general")
      PROVE  e.confirmed = s.general["device"] /\ \A f \in Fields : FieldFits(f, e, s, cs \ {c})
  <2>1. CASE c.answer = "ok"
    <3>1. c.kept = s.general
      BY <1>1, <1>2, <1>7, <2>1 DEF UpToDate, CallFits, GeneralLanding
    <3> QED BY <1>2, <2>1, <3>1 DEF FieldFits, GeneralLanding
  <2>2. CASE c.answer # "ok"
    <3>1. UpToDate(d, s, "general")
      BY <1>2, <1>7, <2>2 DEF UpToDate, GeneralLanding
    <3>2. d.confirmed = s.general["device"] /\ \A f \in Fields : FieldFits(f, d, s, cs)
      BY <1>1, <3>1 DEF GeneralFits
    <3>3. ASSUME NEW f \in Fields PROVE FieldFits(f, e, s, cs \ {c})
      <4>1. CASE f = "device" /\ e.general[f] = d.confirmed
        BY <3>2, <4>1 DEF FieldFits
      <4>2. CASE e.general[f] = d.general[f] /\ (f \in d.unsaid => f \in e.unsaid)
                   /\ (c.kind = "get" \/ c.field # f \/ f \in e.unsaid)
        <5>1. e.typing = d.typing /\ e.gen = d.gen
          BY <1>2, <2>2 DEF GeneralLanding
        <5>2. f \notin e.unsaid /\ Posted(f, d, cs) => Posted(f, e, cs \ {c})
          BY <4>2, <5>1 DEF Posted, Mine
        <5> QED BY <3>2, <4>2, <5>1, <5>2 DEF FieldFits
      <4> QED BY <1>2, <2>2, <4>1, <4>2 DEF GeneralLanding
    <3>4. e.confirmed = d.confirmed
      BY <1>2, <2>2 DEF GeneralLanding
    <3> QED BY <3>2, <3>3, <3>4
  <2> QED BY <2>1, <2>2
<1>8. GeneralFits(e, s, cs \ {c})
  BY <1>6, <1>7 DEF GeneralFits
<1>9. PICK p : p = "general"
  OBVIOUS
<1>10. e \in Dialogs
  BY <1>2 DEF GeneralLanding
<1> QED BY <1>3, <1>4, <1>8, <1>9, <1>10, LandedFits

LEMMA LandsKeeps ==
    ASSUME SettingsInv, NEW c \in calls, AnswerLands(c) PROVE SettingsInv'
<1>1. settings' = settings /\ settingsLeft' = settingsLeft /\ calls' = calls \ {c}
  BY DEF AnswerLands
<1>2. c.part \in Parts
  BY DEF SettingsInv, SettingsFit, TypesFit, Calls
<1>3. SettingsFit(dialog', settings, calls')
  <2>1. CASE c.gen # dialog.gen \/ ~dialog.open
    <3>1. dialog' = dialog
      BY <2>1 DEF AnswerLands
    <3>2. TypesFit(dialog, settings, calls') /\ CallsFit(dialog, settings, calls')
      BY <1>1 DEF SettingsInv, SettingsFit, TypesFit, CallsFit
    <3>3. ASSUME dialog.open PROVE NetworkFits(dialog, settings, calls') /\ GeneralFits(dialog, settings, calls')
      <4>1. SameOf("network", dialog, calls, calls') /\ SameOf("general", dialog, calls, calls')
        BY <1>1, <2>1, <3>3 DEF SameOf, Mine
      <4>2. NetworkFits(dialog, settings, calls) /\ GeneralFits(dialog, settings, calls)
        BY <3>3 DEF SettingsInv, SettingsFit, WindowFits
      <4> QED BY <4>1, <4>2, NetworkFrame, GeneralFrame
    <3> QED BY <3>1, <3>2, <3>3 DEF SettingsInv, SettingsFit, WindowFits
  <2>2. CASE c.gen = dialog.gen /\ dialog.open
    <3>1. CASE c.part = "general"
      <4>1. dialog' = GeneralAnswer(dialog, c)
        BY <2>2, <3>1 DEF AnswerLands
      <4> QED BY <1>1, <2>2, <3>1, <4>1, GeneralLands DEF SettingsInv
    <3>2. CASE c.part = "secret"
      <4>1. dialog' = SecretAnswer(dialog, c)
        BY <2>2, <3>2 DEF AnswerLands
      <4> QED BY <1>1, <2>2, <3>2, <4>1, SecretLands DEF SettingsInv
    <3>3. CASE c.part = "network"
      <4>1. dialog' = NetworkAnswer(dialog, c)
        BY <2>2, <3>3 DEF AnswerLands
      <4> QED BY <1>1, <2>2, <3>3, <4>1, NetworkLands DEF SettingsInv
    <3>4. CASE c.part = "stems"
      <4>1. dialog' = StemsAnswer(dialog, c)
        BY <2>2, <3>4 DEF AnswerLands
      <4> QED BY <1>1, <2>2, <3>4, <4>1, StemsLands DEF SettingsInv
    <3> QED BY <1>2, <3>1, <3>2, <3>3, <3>4 DEF Parts
  <2> QED BY <2>1, <2>2
<1> QED BY <1>1, <1>3 DEF SettingsInv

LEMMA SettingsInitOK == SettingsInit => SettingsInv
<1> SUFFICES ASSUME SettingsInit PROVE SettingsInv
  OBVIOUS
<1>1. settingsLeft \in ScenesLeft
  BY SettingsAssumption DEF SettingsInit, ScenesLeft
<1>2. PICK u \in Generals : u = Unset
  BY UnsetIs
<1>3. PICK w \in Sayings : w = ""
  BY Zenon DEF Sayings
<1>4. PICK t \in [Parts -> Int] : t = [p \in Parts |-> NotTold]
  <2>1. [p \in Parts |-> NotTold] \in [Parts -> Int]
    BY DEF NotTold
  <2> QED BY <2>1
<1>5. dialog = [open |-> FALSE, gen |-> 0, wired |-> {}, general |-> u, secret |-> 0, network |-> 0,
                stems |-> 0, told |-> t, typing |-> FALSE, confirmed |-> 0,
                unsaid |-> {}, busy |-> {}, key |-> 0, says |-> w]
  BY <1>2, <1>3, <1>4 DEF SettingsInit, NewDialog
<1>6. 0 \in 0..2 /\ 0 \in 0..1 /\ {} \in SUBSET Parts /\ {} \in SUBSET FieldNames
  OBVIOUS
<1>7. dialog \in Dialogs /\ ~dialog.open /\ dialog.told = t
  BY <1>5, <1>6 DEF Dialogs
<1>8. PICK g \in Generals : g = [u EXCEPT !["deletes"] = 1]
  <2>1. 1 \in 0..2
    OBVIOUS
  <2> QED BY <2>1 DEF Generals
<1>9. PICK v \in [Parts -> Nat] : v = [p \in Parts |-> 0]
  <2>1. [p \in Parts |-> 0] \in [Parts -> Nat]
    OBVIOUS
  <2> QED BY <2>1
<1>10. settings = [general |-> g, secret |-> 0, network |-> 0, stems |-> 0, version |-> v]
  BY <1>2, <1>8, <1>9 DEF SettingsInit
<1>11. settings \in Keeps /\ settings.version = v
  BY <1>6, <1>10 DEF Keeps
<1>12. calls = {}
  BY DEF SettingsInit
<1>13. ToldFits(dialog, settings)
  <2>1. \A p \in Parts : t[p] = -1 /\ v[p] = 0
    BY <1>4, <1>9 DEF NotTold
  <2> QED BY <1>7, <1>11, <2>1 DEF ToldFits
<1> QED BY <1>1, <1>7, <1>11, <1>12, <1>13
        DEF SettingsInv, SettingsFit, TypesFit, CallsFit, WindowFits

LEMMA SettingsStepOK == SettingsInv /\ [SettingsNext]_settingsVars => SettingsInv'
<1>1. ASSUME SettingsInv, SettingsNext PROVE SettingsInv'
  <2>1. CASE OpenLibraryEditor \/ CloseLibraryEditor \/ CommitDays \/ ToggleNetwork
    BY <1>1, <2>1, OpenKeeps, CloseKeeps, CommitDaysKeeps, ToggleKeeps
  <2>2. CASE ClearSecret \/ \E v \in 1..2 : SendSecret(v) \/ MoveStems(v)
    BY <1>1, <2>2, ButtonsKeep
  <2>3. CASE \E f \in Fields, v \in 0..2 : Change(f, v)
    BY <1>1, <2>3, ChangeKeeps
  <2>4. CASE \E v \in 0..2 : TypeDays(v)
    BY <1>1, <2>4, TypeDaysKeeps
  <2>5. CASE \E c \in calls : NeverSent(c) \/ AnswerLands(c) \/ \E lost \in BOOLEAN : ServerTakes(c, lost)
    BY <1>1, <2>5, NeverSentKeeps, LandsKeeps, TakesKeeps
  <2> QED BY <1>1, <2>1, <2>2, <2>3, <2>4, <2>5 DEF SettingsNext
<1>2. ASSUME SettingsInv, UNCHANGED settingsVars PROVE SettingsInv'
  <2>1. dialog' = dialog /\ settings' = settings /\ calls' = calls /\ settingsLeft' = settingsLeft
    BY <1>2 DEF settingsVars
  <2> QED BY <1>2, <2>1 DEF SettingsInv
<1> QED BY <1>1, <1>2

(* Whatever is changed, clamped, refused, lost or answered out of order, a *)
(* part of the window that heard of the server's last change says what is  *)
(* kept (settingsDialog.js).                                               *)
THEOREM SettingsStayTrue == SettingsSpec => []SettingsSayWhatIsKept
<1>1. SettingsInv => SettingsSayWhatIsKept
  <2> SUFFICES ASSUME SettingsInv, dialog.open, NEW p \in Parts, UpToDate(dialog, settings, p),
                      \A c \in calls : c.part # p \/ c.gen # dialog.gen
               PROVE  IF p = "general"
                      THEN \A f \in Fields \ dialog.unsaid :
                              (f = "days" /\ dialog.typing) \/ dialog.general[f] = settings.general[f]
                      ELSE dialog[p] = settings[p]
    BY DEF SettingsSayWhatIsKept, UpToDate
  <2>1. /\ SecretFits(dialog, settings) /\ StemsFits(dialog, settings)
        /\ NetworkFits(dialog, settings, calls) /\ GeneralFits(dialog, settings, calls)
    BY DEF SettingsInv, SettingsFit, WindowFits
  <2>2. \A c \in calls : ~Mine(c, dialog, p)
    BY DEF Mine
  <2>3. CASE p = "general"
    <3>1. \A f : ~Posted(f, dialog, calls)
      BY <2>2, <2>3 DEF Posted
    <3> QED BY <2>1, <2>3, <3>1 DEF GeneralFits, FieldFits
  <2>4. CASE p = "secret"
    BY <2>1, <2>4 DEF SecretFits
  <2>5. CASE p = "network"
    BY <2>1, <2>2, <2>5 DEF NetworkFits
  <2>6. CASE p = "stems"
    BY <2>1, <2>6 DEF StemsFits
  <2> QED BY <2>3, <2>4, <2>5, <2>6 DEF Parts
<1> QED BY <1>1, SettingsInitOK, SettingsStepOK, PTL DEF SettingsSpec

-----------------------------------------------------------------------------
(* The queue view.  What the page hears of is a queue, and the rows are    *)
(* those of the latest one unless a frame was let go for a drag.           *)

Lines == [running : QueueJobs \cup {NoQueueJob}, queued : Seq(QueueJobs), paused : BOOLEAN]

(* A row and a view, whatever they say; an ask, whatever it is for.        *)
IsRow(r) ==
    r = [id |-> r.id, drags |-> r.drags, top |-> r.top, bar |-> r.bar, label |-> r.label,
         place |-> r.place]
IsView(v) ==
    /\ v = [on |-> v.on, rows |-> v.rows, banner |-> v.banner, drag |-> v.drag, behind |-> v.behind]
    /\ \E D : /\ v.rows = [i \in D |-> v.rows[i]]
              /\ \A i \in D : IsRow(v.rows[i])
IsAsk(c) ==
    /\ c = [n |-> c.n, kind |-> c.kind, id |-> c.id, after |-> c.after, stage |-> c.stage,
            answer |-> c.answer]
    /\ c.answer \in Lines

(* The rows v are those of the queue s.                                    *)
RowsAre(v, s) ==
    /\ DOMAIN v.rows = DOMAIN QueueEntries(s)
    /\ v.banner = IsPaused(s)
    /\ \A i \in DOMAIN v.rows : /\ v.rows[i].id = QueueEntries(s)[i]
                                /\ v.rows[i].label = Label(s, v.rows[i].id)
                                /\ v.rows[i].place = i

ViewFits(v, s) == IsView(v) /\ (v.on /\ ~v.behind => RowsAre(v, s))

QueueViewInv ==
    /\ line \in Lines /\ snap \in Lines /\ ViewFits(view, snap)
    /\ \A c \in queueAsks : IsAsk(c)

(* deque.remove().                                                         *)
LEMMA RemoveFirstIs ==
    ASSUME NEW S, NEW q \in Seq(S), NEW e PROVE RemoveFirst(q, e) \in Seq(S)
<1>1. CASE \E i \in 1..Len(q) : q[i] = e
  <2>1. PICK P : P = {i \in 1..Len(q) : q[i] = e}
    OBVIOUS
  <2>2. P # {} /\ P \in SUBSET Nat /\ P \subseteq 1..Len(q)
    BY <1>1, <2>1
  <2>3. PICK k : k = Min(P)
    OBVIOUS
  <2>4. k \in 1..Len(q)
    BY <2>2, <2>3, LeastIn
  <2>5. RemoveFirst(q, e) = RemoveAt(q, k)
    BY <1>1, <2>1, <2>2, <2>3 DEF RemoveFirst, SelectInSeq
  <2> QED BY <2>4, <2>5, RemoveAtShape
<1>2. CASE ~\E i \in 1..Len(q) : q[i] = e
  BY <1>2 DEF RemoveFirst
<1> QED BY <1>1, <1>2

(* What the server makes of the queue.                                     *)
LEMMA ServerLineIs ==
    ASSUME line \in Lines, NEW c PROVE ServerLine(c) \in Lines
<1>1. line.queued \in Seq(QueueJobs) /\ line.running \in QueueJobs \cup {NoQueueJob}
  BY DEF Lines
<1>2. CASE c.kind = "start"
  BY <1>2 DEF ServerLine, Lines
<1>3. CASE c.kind = "cancel"
  <2>1. PICK q \in Seq(QueueJobs) : q = RemoveFirst(line.queued, c.id)
    BY <1>1, RemoveFirstIs
  <2>2. PICK r \in QueueJobs \cup {NoQueueJob} : r = IF line.running = c.id THEN NoQueueJob ELSE line.running
    BY <1>1
  <2>3. ServerLine(c) = [line EXCEPT !.queued = q, !.running = r]
    BY <1>3, <2>1, <2>2 DEF ServerLine, Lines
  <2> QED BY <2>3 DEF Lines
<1>4. CASE c.kind = "reorder"
  <2>1. CASE c.id \in ToSet(line.queued)
    <3>1. c.id \in QueueJobs
      BY <1>1, <2>1 DEF ToSet
    <3>2. PICK rest \in Seq(QueueJobs) : rest = RemoveFirst(line.queued, c.id)
      BY <1>1, RemoveFirstIs
    <3>3. Reordered(c) \in Seq(QueueJobs)
      <4>1. CASE c.after = NoQueueJob
        <5>1. Reordered(c) = <<c.id>> \o rest
          BY <3>2, <4>1 DEF Reordered
        <5>2. <<c.id>> \o rest \in Seq(QueueJobs)
          BY <3>1
        <5> QED BY <5>1, <5>2
      <4>2. CASE c.after # NoQueueJob /\ c.after \in ToSet(rest)
        <5>1. PICK k : k = CHOOSE j \in DOMAIN rest : rest[j] = c.after
          OBVIOUS
        <5>2. k \in DOMAIN rest
          BY <4>2, <5>1 DEF ToSet
        <5>3. k + 1 \in 1..(Len(rest) + 1)
          BY <5>2, LenProperties
        <5>4. InsertAt(rest, k + 1, c.id) \in Seq(QueueJobs)
          BY <3>1, <5>3, InsertAtShape
        <5>5. Reordered(c) = InsertAt(rest, k + 1, c.id)
          BY <3>2, <4>2, <5>1 DEF Reordered
        <5> QED BY <5>4, <5>5
      <4>3. CASE c.after # NoQueueJob /\ c.after \notin ToSet(rest)
        <5>1. Reordered(c) = Append(rest, c.id)
          BY <3>2, <4>3 DEF Reordered
        <5>2. Append(rest, c.id) \in Seq(QueueJobs)
          BY <3>1
        <5> QED BY <5>1, <5>2
      <4> QED BY <4>1, <4>2, <4>3
    <3>4. PICK q \in Seq(QueueJobs) : q = Reordered(c)
      BY <3>3
    <3>5. ServerLine(c) = [line EXCEPT !.queued = q]
      BY <1>4, <2>1, <3>4 DEF ServerLine
    <3> QED BY <3>5 DEF Lines
  <2>2. CASE c.id \notin ToSet(line.queued)
    BY <1>4, <2>2 DEF ServerLine
  <2> QED BY <2>1, <2>2
<1>5. CASE c.kind \notin {"start", "cancel", "reorder"}
  BY <1>5 DEF ServerLine
<1> QED BY <1>2, <1>3, <1>4, <1>5

LEMMA EntriesAre ==
    ASSUME NEW s \in Lines PROVE QueueEntries(s) \in Seq(QueueJobs)
<1>1. s.queued \in Seq(QueueJobs) /\ s.running \in QueueJobs \cup {NoQueueJob}
  BY DEF Lines
<1>2. CASE s.running = NoQueueJob
  BY <1>1, <1>2 DEF QueueEntries
<1>3. CASE s.running # NoQueueJob
  BY <1>1, <1>3 DEF QueueEntries
<1> QED BY <1>2, <1>3

(* The list drawn anew, and patched in place.                              *)
LEMMA RenderIs ==
    ASSUME NEW s \in Lines, NEW v, v = RenderQueueList(s)
    PROVE  IsView(v) /\ v.on /\ RowsAre(v, s) /\ v.drag = NoQueueJob
<1>1. PICK D : D = DOMAIN QueueEntries(s)
  OBVIOUS
<1>2. PICK b : b = IsPaused(s)
  OBVIOUS
<1>3. PICK rows : rows = [i \in D |-> Row(s, i)]
  OBVIOUS
<1>4. v = [on |-> TRUE, rows |-> rows, banner |-> b, drag |-> NoQueueJob, behind |-> FALSE]
  BY <1>1, <1>2, <1>3 DEF RenderQueueList
<1>5. ASSUME NEW i \in D
      PROVE  /\ IsRow(rows[i]) /\ rows[i].id = QueueEntries(s)[i]
             /\ rows[i].label = Label(s, rows[i].id) /\ rows[i].place = i
  <2>1. rows[i] = Row(s, i)
    BY <1>3
  <2>2. PICK j : j = QueueEntries(s)[i]
    OBVIOUS
  <2>3. PICK l : l = Label(s, j)
    OBVIOUS
  <2>4. PICK d, t, u : d = (j # s.running) /\ t = (j # s.running /\ i > 2) /\ u = ~(j # s.running)
    OBVIOUS
  <2>5. rows[i] = [id |-> j, drags |-> d, top |-> t, bar |-> u, label |-> l, place |-> i]
    BY <2>1, <2>2, <2>3, <2>4 DEF Row
  <2> QED BY <2>2, <2>3, <2>5 DEF IsRow
<1>6. IsView(v)
  <2>1. v.rows = [i \in D |-> v.rows[i]] /\ \A i \in D : IsRow(v.rows[i])
    BY <1>3, <1>4, <1>5
  <2> QED BY <1>4, <2>1 DEF IsView
<1>7. RowsAre(v, s)
  BY <1>1, <1>2, <1>3, <1>4, <1>5 DEF RowsAre
<1> QED BY <1>4, <1>6, <1>7

LEMMA PatchedIs ==
    ASSUME IsView(view), NEW s \in Lines, SameRows(s), NEW v, v = Patched(s)
    PROVE  IsView(v) /\ v.on = view.on /\ RowsAre(v, s)
<1>1. PICK D : /\ view.rows = [i \in D |-> view.rows[i]]
               /\ \A i \in D : IsRow(view.rows[i])
  BY DEF IsView
<1>2. DOMAIN view.rows = D
  BY <1>1
<1>3. PICK rows : rows = [i \in D |-> [view.rows[i] EXCEPT !.label = Label(s, QueueEntries(s)[i]), !.place = i]]
  OBVIOUS
<1>4. v = [view EXCEPT !.behind = FALSE, !.rows = rows]
  BY <1>2, <1>3 DEF Patched
<1>5. IsView(view) /\ view = [on |-> view.on, rows |-> view.rows, banner |-> view.banner, drag |-> view.drag,
                             behind |-> view.behind]
  BY DEF IsView
<1>6. /\ v = [on |-> v.on, rows |-> v.rows, banner |-> v.banner, drag |-> v.drag, behind |-> v.behind]
      /\ v.rows = rows /\ v.on = view.on /\ v.banner = view.banner
  BY <1>4, <1>5
<1>7. ASSUME NEW i \in D
      PROVE  /\ IsRow(rows[i]) /\ rows[i].id = view.rows[i].id
             /\ rows[i].label = Label(s, QueueEntries(s)[i]) /\ rows[i].place = i
  <2>1. PICK l : l = Label(s, QueueEntries(s)[i])
    OBVIOUS
  <2>2. rows[i] = [view.rows[i] EXCEPT !.label = l, !.place = i]
    BY <1>3, <2>1
  <2>3. PICK r : r = view.rows[i] /\ IsRow(r)
    BY <1>1
  <2> QED BY <2>1, <2>2, <2>3 DEF IsRow
<1>8. ShownIds = QueueEntries(s) /\ view.banner = IsPaused(s)
  BY DEF SameRows
<1>9. DOMAIN QueueEntries(s) = D /\ \A i \in D : view.rows[i].id = QueueEntries(s)[i]
  <2>1. ShownIds = [i \in D |-> view.rows[i].id]
    BY <1>2 DEF ShownIds
  <2> QED BY <1>8, <2>1
<1>10. DOMAIN rows = D
  BY <1>3
<1>11. RowsAre(v, s)
  BY <1>6, <1>7, <1>8, <1>9, <1>10 DEF RowsAre
<1>12. IsView(v)
  <2>1. v.rows = [i \in D |-> v.rows[i]]
    BY <1>3, <1>6
  <2> QED BY <1>6, <1>7, <2>1 DEF IsView
<1> QED BY <1>6, <1>11, <1>12

(* Only what is dragged, or whether a frame was let go, is another.        *)
LEMMA SameList ==
    ASSUME NEW v, IsView(v), NEW d, NEW b,
           NEW w, w = [v EXCEPT !.drag = d] \/ w = [v EXCEPT !.behind = b]
    PROVE  /\ IsView(w) /\ w.on = v.on /\ \A s : RowsAre(v, s) => RowsAre(w, s)
           /\ w = [v EXCEPT !.drag = d] => w.behind = v.behind
           /\ w = [v EXCEPT !.behind = b] => w.behind = b
<1>1. PICK o, r, n, e, h : v = [on |-> o, rows |-> r, banner |-> n, drag |-> e, behind |-> h]
  BY DEF IsView
<1>2. PICK f, g : w = [on |-> o, rows |-> r, banner |-> n, drag |-> f, behind |-> g]
  BY <1>1
<1>3. w.rows = v.rows /\ w.on = v.on /\ w.banner = v.banner
  BY <1>1, <1>2
<1>4. IsView(w)
  BY <1>2, <1>3 DEF IsView
<1>5. \A s : RowsAre(v, s) => RowsAre(w, s)
  BY <1>3 DEF RowsAre
<1>6. w = [v EXCEPT !.drag = d] => w.behind = v.behind
  BY <1>1
<1>7. w = [v EXCEPT !.behind = b] => w.behind = b
  BY <1>1
<1> QED BY <1>3, <1>4, <1>5, <1>6, <1>7

LEMMA HiddenIs == IsView(Hidden) /\ ~Hidden.on
<1>1. IsView(Hidden)
  <2>1. PICK r : r = <<>>
    OBVIOUS
  <2>2. r = [i \in {} |-> r[i]]
    BY <2>1
  <2>3. Hidden = [on |-> FALSE, rows |-> r, banner |-> FALSE, drag |-> NoQueueJob, behind |-> FALSE]
    BY <2>1 DEF Hidden
  <2> QED BY <2>2, <2>3 DEF IsView
<1> QED BY <1>1 DEF Hidden

(* A snapshot comes.                                                       *)
LEMMA PublishIs ==
    ASSUME QueueViewInv, NEW s \in Lines, Publish(s)
    PROVE  snap' \in Lines /\ ViewFits(view', snap')
<1>1. snap' = s /\ view' = OnQueueFrame(s) /\ IsView(view)
  BY DEF Publish, QueueViewInv, ViewFits
<1>2. CASE view' = Hidden
  BY <1>1, <1>2, HiddenIs DEF ViewFits
<1>3. CASE view' = [Hidden EXCEPT !.drag = view.drag]
  <2>1. PICK h : h = Hidden /\ IsView(h) /\ ~h.on
    BY HiddenIs
  <2>2. view' = [h EXCEPT !.drag = view.drag]
    BY <1>3, <2>1
  <2>3. IsView(view') /\ ~view'.on
    BY <2>1, <2>2, SameList
  <2> QED BY <1>1, <2>3 DEF ViewFits
<1>4. CASE view' = [view EXCEPT !.behind = TRUE]
  <2>1. IsView(view') /\ view'.behind = TRUE
    BY <1>1, <1>4, SameList
  <2> QED BY <1>1, <2>1 DEF ViewFits
<1>5. CASE SameRows(s) /\ view' = Patched(s)
  BY <1>1, <1>5, PatchedIs DEF ViewFits
<1>6. CASE view' = RenderQueueList(s)
  BY <1>1, <1>6, RenderIs DEF ViewFits
<1> QED BY <1>1, <1>2, <1>3, <1>4, <1>5, <1>6 DEF OnQueueFrame

(* A request sent, and answered.                                           *)
LEMMA AskIs ==
    ASSUME QueueViewInv, NEW k, NEW j, NEW a, AskServer(k, j, a) PROVE \A c \in queueAsks' : IsAsk(c)
<1>1. PICK e \in Lines : e = Empty
  <2>1. Empty \in Lines
    BY DEF Empty, Line, Lines
  <2> QED BY <2>1
<1>2. PICK n : n = queueLeft.gestures
  OBVIOUS
<1>3. PICK t : t = "sent"
  OBVIOUS
<1>4. PICK c : c = [n |-> n, kind |-> k, id |-> j, after |-> a, stage |-> t, answer |-> e]
  OBVIOUS
<1>5. IsAsk(c)
  BY <1>1, <1>4 DEF IsAsk
<1>6. queueAsks' = queueAsks \cup {c}
  BY <1>1, <1>2, <1>3, <1>4 DEF AskServer
<1> QED BY <1>5, <1>6 DEF QueueViewInv

LEMMA LookIs ==
    ASSUME NEW c, IsAsk(c), NEW l, l = [c EXCEPT !.kind = "look"] PROVE IsAsk(l)
<1>1. PICK n, k, i, a, t, e : c = [n |-> n, kind |-> k, id |-> i, after |-> a, stage |-> t, answer |-> e] /\ e \in Lines
  BY DEF IsAsk
<1>2. l = [n |-> n, kind |-> "look", id |-> i, after |-> a, stage |-> t, answer |-> e]
  BY <1>1
<1> QED BY <1>1, <1>2 DEF IsAsk

LEMMA AnsweredIs ==
    ASSUME NEW c, IsAsk(c), NEW s \in Lines, NEW l, l = [c EXCEPT !.stage = "answered", !.answer = s]
    PROVE  IsAsk(l)
<1>1. PICK n, k, i, a, t, e : c = [n |-> n, kind |-> k, id |-> i, after |-> a, stage |-> t, answer |-> e]
  BY DEF IsAsk
<1>2. l = [n |-> n, kind |-> k, id |-> i, after |-> a, stage |-> "answered", answer |-> s]
  BY <1>1
<1> QED BY <1>1, <1>2 DEF IsAsk

(* The user's gestures.                                                    *)
LEMMA ViewSteps ==
    ASSUME QueueViewInv,
           \/ OpenQueueView \/ DragEnd \/ PressStart
           \/ \E i \in DOMAIN view.rows : DragStart(i) \/ PressTop(i) \/ PressCancel(i)
           \/ \E above \in 0..Len(view.rows) : Drop(above)
    PROVE  QueueViewInv'
<1>1. line' = line /\ snap' = snap
  BY DEF OpenQueueView, DragEnd, PressStart, DragStart, PressTop, PressCancel, Drop
<1>2. \A c \in queueAsks' : IsAsk(c)
  <2>1. CASE queueAsks' = queueAsks
    BY <2>1 DEF QueueViewInv
  <2>2. CASE \E k, j, a : AskServer(k, j, a)
    BY <2>2, AskIs
  <2> QED BY <2>1, <2>2 DEF OpenQueueView, DragEnd, PressStart, DragStart, PressTop, PressCancel, Drop
<1>3. IsView(view) /\ ViewFits(view, snap) /\ snap \in Lines
  BY DEF QueueViewInv, ViewFits
<1>4. ViewFits(view', snap)
  <2>1. CASE view' = view
    BY <1>3, <2>1
  <2>2. ASSUME NEW d, view' = [view EXCEPT !.drag = d] PROVE ViewFits(view', snap)
    <3>1. IsView(view') /\ view'.on = view.on /\ view'.behind = view.behind
          /\ (RowsAre(view, snap) => RowsAre(view', snap))
      BY <1>3, <2>2, SameList
    <3> QED BY <1>3, <3>1 DEF ViewFits
  <2>3. CASE OpenQueueView
    <3>1. PICK v : v = RenderQueueList(snap) /\ IsView(v) /\ v.on /\ RowsAre(v, snap)
      BY <1>3, RenderIs
    <3>2. view' = [v EXCEPT !.drag = view.drag]
      BY <2>3, <3>1 DEF OpenQueueView
    <3>3. IsView(view') /\ (RowsAre(v, snap) => RowsAre(view', snap))
      BY <3>1, <3>2, SameList
    <3> QED BY <3>1, <3>3 DEF ViewFits
  <2>4. ASSUME NEW i \in DOMAIN view.rows, PressTop(i) PROVE ViewFits(view', snap)
    <3>1. PICK D : /\ view.rows = [k \in D |-> view.rows[k]]
                   /\ \A k \in D : IsRow(view.rows[k])
      BY <1>3 DEF IsView
    <3>2. DOMAIN view.rows = D
      BY <3>1
    <3>3. PICK pressed : pressed = [view.rows[i] EXCEPT !.top = FALSE]
      OBVIOUS
    <3>4. IsRow(view.rows[i])
      BY <3>1, <3>2
    <3>5. /\ IsRow(pressed) /\ pressed.id = view.rows[i].id /\ pressed.label = view.rows[i].label
          /\ pressed.place = view.rows[i].place
      BY <3>3, <3>4 DEF IsRow
    <3>6. PICK rows : rows = [view.rows EXCEPT ![i] = pressed]
      OBVIOUS
    <3>7. view' = [view EXCEPT !.rows = rows]
      BY <2>4, <3>3, <3>6 DEF PressTop
    <3>8. /\ view' = [on |-> view'.on, rows |-> view'.rows, banner |-> view'.banner, drag |-> view'.drag,
                     behind |-> view'.behind]
          /\ view'.rows = rows /\ view'.on = view.on /\ view'.banner = view.banner
          /\ view'.behind = view.behind
      BY <1>3, <3>7 DEF IsView
    <3>9. rows = [k \in D |-> rows[k]] /\ DOMAIN rows = D
      BY <3>2, <3>6
    <3>10. \A k \in D : /\ IsRow(rows[k]) /\ rows[k].id = view.rows[k].id
                        /\ rows[k].label = view.rows[k].label /\ rows[k].place = view.rows[k].place
      BY <3>1, <3>2, <3>5, <3>6
    <3>11. IsView(view')
      BY <3>8, <3>9, <3>10 DEF IsView
    <3>12. RowsAre(view, snap) => RowsAre(view', snap)
      BY <3>2, <3>8, <3>9, <3>10 DEF RowsAre
    <3> QED BY <1>3, <3>8, <3>11, <3>12 DEF ViewFits
  <2> QED BY <2>1, <2>2, <2>3, <2>4 DEF DragEnd, PressStart, DragStart, PressCancel, Drop
<1> QED BY <1>1, <1>2, <1>4 DEF QueueViewInv

(* The server's steps and its answers.                                     *)
LEMMA ServerSteps ==
    ASSUME QueueViewInv,
           \/ NextStarts \/ RunningEnds \/ \E c \in queueAsks : ServerHandles(c) \/ AskFails(c)
    PROVE  QueueViewInv'
<1>1. snap' = snap /\ view' = view
  BY DEF NextStarts, RunningEnds, ServerHandles, AskFails
<1>2. line.queued \in Seq(QueueJobs) /\ line \in Lines
  BY DEF QueueViewInv, Lines
<1>3. CASE NextStarts
  <2>1. PICK all \in Seq(QueueJobs) : all = line.queued
    BY <1>2
  <2>2. all # <<>>
    BY <1>3, <2>1 DEF NextStarts
  <2>3. Head(all) \in QueueJobs
    BY <2>2, HeadTailProperties
  <2>4. Tail(all) \in Seq(QueueJobs)
    BY <2>2, HeadTailProperties
  <2>5. PICK h \in QueueJobs, q \in Seq(QueueJobs) : h = Head(line.queued) /\ q = Tail(line.queued)
    BY <2>1, <2>3, <2>4
  <2>6. line' = [line EXCEPT !.running = h, !.queued = q]
    BY <1>3, <2>5 DEF NextStarts
  <2>7. line' \in Lines
    BY <1>2, <2>6 DEF Lines
  <2> QED BY <1>1, <1>3, <2>7 DEF QueueViewInv, NextStarts
<1>4. CASE RunningEnds
  <2>1. line' \in Lines
    BY <1>2, <1>4 DEF RunningEnds, Lines
  <2> QED BY <1>1, <1>4, <2>1 DEF QueueViewInv, RunningEnds
<1>5. ASSUME NEW c \in queueAsks, ServerHandles(c) PROVE QueueViewInv'
  <2>1. PICK s \in Lines : s = ServerLine(c)
    BY <1>2, ServerLineIs
  <2>2. PICK l : l = [c EXCEPT !.kind = "look"]
    OBVIOUS
  <2>3. PICK e : e = [c EXCEPT !.stage = "answered", !.answer = s]
    OBVIOUS
  <2>4. IsAsk(c)
    BY DEF QueueViewInv
  <2>5. IsAsk(l) /\ IsAsk(e)
    BY <2>2, <2>3, <2>4, LookIs, AnsweredIs
  <2>6. line' = s /\ queueAsks' \subseteq queueAsks \cup {l, e}
    BY <1>5, <2>1, <2>2, <2>3 DEF ServerHandles
  <2> QED BY <1>1, <2>5, <2>6 DEF QueueViewInv
<1>6. ASSUME NEW c \in queueAsks, AskFails(c) PROVE QueueViewInv'
  <2>1. PICK l : l = [c EXCEPT !.kind = "look"]
    OBVIOUS
  <2>2. IsAsk(l)
    BY <2>1, LookIs DEF QueueViewInv
  <2>3. line' = line /\ queueAsks' \subseteq queueAsks \cup {l}
    BY <1>6, <2>1 DEF AskFails
  <2> QED BY <1>1, <2>2, <2>3 DEF QueueViewInv
<1> QED BY <1>3, <1>4, <1>5, <1>6

LEMMA FrameSteps ==
    ASSUME QueueViewInv, QueueFrame \/ \E c \in queueAsks : QueueAnswers(c) PROVE QueueViewInv'
<1>1. CASE QueueFrame
  <2>1. snap' \in Lines /\ ViewFits(view', snap')
    BY <1>1, PublishIs DEF QueueFrame, QueueViewInv
  <2> QED BY <1>1, <2>1 DEF QueueFrame, QueueViewInv
<1>2. ASSUME NEW c \in queueAsks, QueueAnswers(c) PROVE QueueViewInv'
  <2>1. c.answer \in Lines
    BY DEF QueueViewInv, IsAsk
  <2>2. snap' \in Lines /\ ViewFits(view', snap')
    BY <1>2, <2>1, PublishIs DEF QueueAnswers
  <2> QED BY <1>2, <2>2 DEF QueueAnswers, QueueViewInv
<1> QED BY <1>1, <1>2

LEMMA QueueViewInitOK == QueueViewInit => QueueViewInv
<1> SUFFICES ASSUME QueueViewInit PROVE QueueViewInv
  OBVIOUS
<1>1. queueLeft.queued \in Seq(QueueJobs) /\ queueLeft.paused \in BOOLEAN
  BY QueueViewAssumption DEF QueueViewInit
<1>2. line \in Lines
  BY <1>1 DEF QueueViewInit, Line, Lines
<1>3. snap \in Lines
  BY DEF QueueViewInit, Empty, Line, Lines
<1>4. ViewFits(view, snap)
  BY HiddenIs DEF QueueViewInit, ViewFits
<1> QED BY <1>2, <1>3, <1>4 DEF QueueViewInv, QueueViewInit

LEMMA QueueViewStepOK == QueueViewInv /\ [QueueViewNext]_queueViewVars => QueueViewInv'
<1>1. ASSUME QueueViewInv, QueueViewNext PROVE QueueViewInv'
  BY <1>1, ViewSteps, ServerSteps, FrameSteps DEF QueueViewNext
<1>2. ASSUME QueueViewInv, UNCHANGED queueViewVars PROVE QueueViewInv'
  BY <1>2 DEF QueueViewInv, queueViewVars
<1> QED BY <1>1, <1>2

(* Patched, drawn anew, dragged or pressed, whatever the server does: the  *)
(* rows are those of the last snapshot (catalog.js, jobqueue.py).          *)
THEOREM QueueRowsStayTheQueue == QueueViewSpec => []QueueRowsAreTheQueue
<1>1. QueueViewInv => QueueRowsAreTheQueue
  <2> SUFFICES ASSUME QueueViewInv, view.on, ~view.behind
               PROVE  /\ ShownIds = QueueEntries(snap)
                      /\ view.banner = IsPaused(snap)
                      /\ \A i \in DOMAIN view.rows : /\ view.rows[i].label = Label(snap, view.rows[i].id)
                                                     /\ view.rows[i].place = i
    BY DEF QueueRowsAreTheQueue
  <2>1. RowsAre(view, snap) /\ snap \in Lines
    BY DEF QueueViewInv, ViewFits
  <2>2. PICK q \in Seq(QueueJobs) : q = QueueEntries(snap)
    BY <2>1, EntriesAre
  <2>3. ShownIds = q
    <3>1. DOMAIN view.rows = DOMAIN q /\ \A i \in DOMAIN view.rows : view.rows[i].id = q[i]
      BY <2>1, <2>2 DEF RowsAre
    <3>2. q = [i \in DOMAIN q |-> q[i]]
      BY <2>2
    <3> QED BY <3>1, <3>2 DEF ShownIds
  <2> QED BY <2>1, <2>2, <2>3 DEF RowsAre
<1> QED BY <1>1, QueueViewInitOK, QueueViewStepOK, PTL DEF QueueViewSpec

-----------------------------------------------------------------------------
(* The notification centre.  Every list of failures is newest first and    *)
(* without repetitions, and the lists agree about what a failure is: the   *)
(* store's copy can be merged with the cards whenever it comes.            *)

(* A failure, and a list of them.                                          *)
Failure == [id : Nat, at : Nat, kind : Kinds, job : NoticeJobs \cup {NoNoticeJob}, tail : BOOLEAN]

ListOK(list) ==
    /\ list \in Seq(Failure)
    /\ \A i, k \in DOMAIN list : i < k => list[i].id # list[k].id /\ list[i].at > list[k].at

(* Two records of one failure have one id.                                 *)
OneId(S) ==
    \A r, s \in S :
        r.at = s.at \/ (r.kind = s.kind /\ r.job = s.job /\ r.job \in NoticeJobs) => r.id = s.id

(* The lists hold what was reported by now.                                *)
Past(S, now) == \A r \in S : r.id \in 1..now /\ r.at \in 1..now

Remembered == ToSet(cards) \cup ToSet(saved) \cup ToSet(boot.list)

ListsOK ==
    /\ ListOK(cards) /\ ListOK(saved) /\ ListOK(boot.list)
    /\ Len(cards) <= MaxFailures /\ Len(saved) <= MaxFailures
    /\ OneId(Remembered) /\ Past(Remembered, count.reported)

NoticesInv ==
    /\ ListsOK
    /\ count = [reported |-> count.reported, left |-> count.left] /\ count.reported \in Nat
    /\ boot.stage \in {"asked", "answered", "done"}
    /\ boot.stage = "done" => boot.list = <<>>
    /\ \A q \in asked : q.what \in {"failure", "diagnostics", "logs"}

(* What a list of failures is made of.                                     *)
LEMMA InList ==
    ASSUME NEW list \in Seq(Failure)
    PROVE  /\ Len(list) \in Nat /\ DOMAIN list = 1..Len(list)
           /\ \A i \in DOMAIN list : list[i] \in Failure /\ list[i].at \in Nat /\ list[i].id \in Nat
<1>1. Len(list) \in Nat /\ DOMAIN list = 1..Len(list)
  OBVIOUS
<1>2. \A i \in DOMAIN list : list[i] \in Failure
  OBVIOUS
<1>3. \A r \in Failure : r.at \in Nat /\ r.id \in Nat
  BY DEF Failure
<1> QED BY <1>1, <1>2, <1>3

LEMMA MadeOf ==
    ASSUME NEW m \in Nat, NEW list \in [1..m -> Failure]
    PROVE  list \in Seq(Failure) /\ Len(list) = m /\ DOMAIN list = 1..m
OBVIOUS

(* An order of finitely many positions: the n-th is listed as the n-th.    *)
LEMMA ListedIs ==
    ASSUME NEW P, IsFiniteSet(P), NEW upTo,
           \A i \in P : i \in upTo[i] /\ upTo[i] \subseteq P,
           \A i, k \in P : i \in upTo[k] => upTo[i] \subseteq upTo[k],
           \A i, k \in P : i # k => (i \in upTo[k] <=> k \notin upTo[i]),
           NEW places, places = Listed(P, upTo)
    PROVE  /\ Cardinality(P) \in Nat /\ places \in [1..Cardinality(P) -> P]
           /\ \A n, m \in 1..Cardinality(P) :
                 n < m => places[n] # places[m] /\ places[n] \in upTo[places[m]]
<1> DEFINE N == Cardinality(P)
           rank == [i \in P |-> Cardinality(upTo[i])]
<1>1. N \in Nat
  BY FS_CardinalityType
<1>2. ASSUME NEW i \in P PROVE IsFiniteSet(upTo[i]) /\ rank[i] \in 1..N
  <2>1. IsFiniteSet(upTo[i]) /\ Cardinality(upTo[i]) \in Nat /\ Cardinality(upTo[i]) <= N
    BY FS_Subset, FS_CardinalityType
  <2>2. Cardinality(upTo[i]) # 0
    BY <2>1, FS_EmptySet
  <2> QED BY <1>1, <2>1, <2>2
<1>3. ASSUME NEW i \in P, NEW k \in P, i # k, i \in upTo[k] PROVE rank[i] < rank[k]
  <2>1. upTo[i] \subseteq upTo[k] /\ k \notin upTo[i] /\ k \in upTo[k]
    BY <1>3
  <2>2. upTo[i] # upTo[k]
    BY <2>1
  <2>3. Cardinality(upTo[i]) < Cardinality(upTo[k])
    BY <1>2, <2>1, <2>2, FS_Subset, FS_CardinalityType
  <2> QED BY <2>3
<1>4. \A i, k \in P : i # k => rank[i] # rank[k]
  <2> SUFFICES ASSUME NEW i \in P, NEW k \in P, i # k PROVE rank[i] # rank[k]
    OBVIOUS
  <2>1. i \in upTo[k] \/ k \in upTo[i]
    OBVIOUS
  <2>2. rank[i] \in Nat /\ rank[k] \in Nat
    BY <1>2
  <2>3. rank[i] < rank[k] \/ rank[k] < rank[i]
    BY <1>3, <2>1
  <2> QED BY <2>2, <2>3
<1>5. rank \in [P -> 1..N]
  BY <1>2
<1> HIDE DEF rank
<1>6. rank \in Injection(P, 1..N)
  BY <1>4, <1>5 DEF Injection, IsInjective
<1>7. IsFiniteSet(1..N) /\ Cardinality(1..N) = N
  BY <1>1, FS_Interval
<1>8. rank \in Surjection(P, 1..N)
  BY <1>6, <1>7, FS_Injection
<1>9. \A n \in 1..N : \E i \in P : rank[i] = n
  BY <1>8 DEF Surjection
<1>10. \A i \in P : rank[i] = Cardinality(upTo[i])
  BY DEF rank
<1>11. places = [n \in 1..N |-> CHOOSE i \in P : Cardinality(upTo[i]) = n]
  BY DEF Listed
<1> HIDE DEF N
<1>12. \A n \in 1..N : places[n] \in P /\ rank[places[n]] = n
  <2> SUFFICES ASSUME NEW n \in 1..N PROVE places[n] \in P /\ rank[places[n]] = n
    OBVIOUS
  <2>1. PICK i \in P : Cardinality(upTo[i]) = n
    BY <1>9, <1>10
  <2>2. places[n] = CHOOSE x \in P : Cardinality(upTo[x]) = n
    BY <1>11
  <2>3. places[n] \in P /\ Cardinality(upTo[places[n]]) = n
    BY <2>1, <2>2, Zenon
  <2> QED BY <1>10, <2>3
<1>13. places \in [1..N -> P]
  BY <1>11, <1>12
<1>14. ASSUME NEW n \in 1..N, NEW m \in 1..N, n < m
       PROVE  places[n] # places[m] /\ places[n] \in upTo[places[m]]
  <2>1. places[n] \in P /\ rank[places[n]] = n /\ places[m] \in P /\ rank[places[m]] = m
    BY <1>12
  <2>2. places[n] # places[m]
    BY <1>1, <1>14, <2>1
  <2>3. places[m] \notin upTo[places[n]]
    <3>1. ~(m < n)
      BY <1>1, <1>14
    <3> QED BY <1>3, <2>1, <2>2, <3>1
  <2> QED BY <2>1, <2>2, <2>3
<1> QED BY <1>1, <1>13, <1>14 DEF N

(* Part of a list, in the same order.                                      *)
PartOf(part, list) ==
    /\ part \in Seq(Failure)
    /\ \E f \in [DOMAIN part -> DOMAIN list] :
          /\ \A n \in DOMAIN part : part[n] = list[f[n]]
          /\ \A n, m \in DOMAIN part : n < m => f[n] < f[m]

LEMMA PartIsOK ==
    ASSUME NEW list, ListOK(list), NEW part, PartOf(part, list)
    PROVE  ListOK(part) /\ ToSet(part) \subseteq ToSet(list)
<1>1. PICK f \in [DOMAIN part -> DOMAIN list] :
        /\ \A n \in DOMAIN part : part[n] = list[f[n]]
        /\ \A n, m \in DOMAIN part : n < m => f[n] < f[m]
  BY DEF PartOf
<1>2. ListOK(part)
  <2> SUFFICES ASSUME NEW n \in DOMAIN part, NEW m \in DOMAIN part, n < m
               PROVE  part[n].id # part[m].id /\ part[n].at > part[m].at
    BY DEF ListOK, PartOf
  <2>1. part[n] = list[f[n]] /\ part[m] = list[f[m]] /\ f[n] < f[m]
    BY <1>1
  <2> QED BY <2>1 DEF ListOK
<1>3. ToSet(part) \subseteq ToSet(list)
  BY <1>1 DEF ToSet
<1> QED BY <1>2, <1>3

(* Array.filter().                                                         *)
LEMMA FilterIs ==
    ASSUME NEW list \in Seq(Failure), NEW P \in SUBSET DOMAIN list, NEW part, part = Kept(list, P)
    PROVE  /\ PartOf(part, list) /\ Len(part) <= Len(list)
           /\ \A r \in ToSet(part) : \E i \in P : r = list[i]
<1>1. DOMAIN list = 1..Len(list) /\ Len(list) \in Nat
  OBVIOUS
<1>2. IsFiniteSet(P) /\ Cardinality(P) \in Nat /\ Cardinality(P) <= Len(list)
  <2>1. PICK m \in Nat : m = Len(list)
    BY <1>1
  <2>2. IsFiniteSet(1..m) /\ Cardinality(1..m) = m
    BY FS_Interval
  <2>3. P \subseteq 1..m
    BY <1>1, <2>1
  <2>4. IsFiniteSet(P) /\ Cardinality(P) <= m
    BY <2>2, <2>3, FS_Subset
  <2> QED BY <2>1, <2>4, FS_CardinalityType
<1> DEFINE upTo == [i \in P |-> {k \in P : k <= i}]
           places == Listed(P, upTo)
<1>3. \A i \in P : i \in upTo[i] /\ upTo[i] \subseteq P
  BY <1>1
<1>4. \A i, k \in P : i \in upTo[k] => upTo[i] \subseteq upTo[k]
  BY <1>1
<1>5. \A i, k \in P : i # k => (i \in upTo[k] <=> k \notin upTo[i])
  BY <1>1
<1>6. \A i, k \in P : i \in upTo[k] => i <= k
  BY <1>1
<1>7. part = [n \in 1..Cardinality(P) |-> list[places[n]]]
  BY DEF Kept
<1> HIDE DEF upTo
<1>8. /\ places \in [1..Cardinality(P) -> P]
      /\ \A n, m \in 1..Cardinality(P) :
            n < m => places[n] # places[m] /\ places[n] \in upTo[places[m]]
  BY <1>2, <1>3, <1>4, <1>5, ListedIs
<1> HIDE DEF places
<1>9. \A n, m \in 1..Cardinality(P) : n < m => places[n] < places[m]
  BY <1>1, <1>6, <1>8
<1>10. part \in Seq(Failure) /\ Len(part) = Cardinality(P) /\ DOMAIN part = 1..Cardinality(P)
  <2>1. part \in [1..Cardinality(P) -> Failure]
    BY <1>7, <1>8
  <2> QED BY <1>2, <2>1
<1>11. places \in [DOMAIN part -> DOMAIN list]
  BY <1>8, <1>10
<1>12. PartOf(part, list)
  BY <1>7, <1>9, <1>10, <1>11 DEF PartOf
<1>13. \A r \in ToSet(part) : \E i \in P : r = list[i]
  BY <1>7, <1>8, <1>10 DEF ToSet
<1> QED BY <1>2, <1>10, <1>12, <1>13

(* slice(0, MAX_FAILURES).                                                 *)
LEMMA CappedIs ==
    ASSUME NEW list \in Seq(Failure), NEW part, part = Capped(list)
    PROVE  PartOf(part, list) /\ Len(part) <= MaxFailures
<1>1. MaxFailures \in Nat /\ Len(list) \in Nat
  BY NoticeAssumption
<1>2. PICK n \in Nat : n = IF Len(list) < MaxFailures THEN Len(list) ELSE MaxFailures
  BY <1>1
<1>3. n <= Len(list) /\ n <= MaxFailures
  BY <1>1, <1>2
<1>4. part = SubSeq(list, 1, n)
  BY <1>2 DEF Capped
<1>5. part \in Seq(Failure) /\ Len(part) = n /\ \A k \in 1..n : part[k] = list[k]
  BY <1>3, <1>4
<1>6. DOMAIN part = 1..n /\ DOMAIN list = 1..Len(list)
  BY <1>5
<1> DEFINE f == [k \in 1..n |-> k]
<1>7. f \in [DOMAIN part -> DOMAIN list]
  BY <1>1, <1>3, <1>6
<1>8. \A k, m \in DOMAIN part : k < m => f[k] < f[m]
  BY <1>6
<1>9. \A k \in DOMAIN part : part[k] = list[f[k]]
  BY <1>5, <1>6
<1> HIDE DEF f
<1> QED BY <1>3, <1>5, <1>7, <1>8, <1>9 DEF PartOf

(* splice(d, 1).                                                           *)
LEMMA RemoveAtIs ==
    ASSUME NEW list, ListOK(list), NEW d \in DOMAIN list, NEW part, part = RemoveAt(list, d)
    PROVE  PartOf(part, list) /\ \A r \in ToSet(part) : r.id # list[d].id
<1>1. list \in Seq(Failure) /\ DOMAIN list = 1..Len(list) /\ Len(list) \in Nat
  BY DEF ListOK
<1>2. d \in 1..Len(list)
  BY <1>1
<1>3. PICK front : front = SubSeq(list, 1, d - 1)
  OBVIOUS
<1>4. PICK back : back = SubSeq(list, d + 1, Len(list))
  OBVIOUS
<1>5. front \in Seq(Failure) /\ Len(front) = d - 1 /\ \A k \in 1..(d - 1) : front[k] = list[k]
  BY <1>1, <1>2, <1>3
<1>6. /\ back \in Seq(Failure) /\ Len(back) = Len(list) - d
      /\ \A k \in 1..(Len(list) - d) : back[k] = list[k + d]
  BY <1>1, <1>2, <1>4
<1>7. part = front \o back
  BY <1>3, <1>4 DEF RemoveAt
<1>8. part \in Seq(Failure) /\ Len(part) = Len(list) - 1
  <2>1. part \in Seq(Failure) /\ Len(part) = Len(front) + Len(back)
    BY <1>5, <1>6, <1>7, ConcatProperties
  <2>2. PICK m \in Nat : m = Len(list)
    BY <1>1
  <2>3. d \in 1..m /\ Len(front) = d - 1 /\ Len(back) = m - d
    BY <1>2, <1>5, <1>6, <2>2
  <2> QED BY <2>1, <2>2, <2>3
<1>9. DOMAIN part = 1..(Len(list) - 1)
  BY <1>8
<1> DEFINE f == [k \in 1..(Len(list) - 1) |-> IF k < d THEN k ELSE k + 1]
<1>10. ASSUME NEW k \in 1..(Len(list) - 1) PROVE part[k] = list[f[k]] /\ f[k] \in 1..Len(list) /\ f[k] # d
  <2>1. CASE k < d
    BY <1>1, <1>2, <1>5, <1>6, <1>7, <2>1
  <2>2. CASE k >= d
    <3>1. part[k] = back[k - (d - 1)]
      <4>1. PICK m \in Nat : m = Len(list)
        BY <1>1
      <4>2. d \in 1..m /\ Len(front) = d - 1 /\ Len(back) = m - d /\ k \in 1..(m - 1)
        BY <1>2, <1>5, <1>6, <4>1
      <4>3. k \in 1..(Len(front) + Len(back)) /\ ~(k <= Len(front))
        BY <2>2, <4>2
      <4>4. part[k] = back[k - Len(front)]
        BY SMTT(60), <1>5, <1>6, <1>7, <4>3, ConcatProperties
      <4> QED BY <4>2, <4>4
    <3>2. k - (d - 1) \in 1..(Len(list) - d)
      BY <1>1, <1>2, <2>2
    <3>3. back[k - (d - 1)] = list[k + 1]
      BY <1>1, <1>2, <1>6, <3>2
    <3> QED BY <1>1, <1>2, <2>2, <3>1, <3>3
  <2> QED BY <1>1, <1>2, <2>1, <2>2
<1>11. f \in [DOMAIN part -> DOMAIN list]
  BY <1>1, <1>9, <1>10
<1>12. \A k, m \in DOMAIN part : k < m => f[k] < f[m]
  BY <1>1, <1>2, <1>9
<1> HIDE DEF f
<1>13. PartOf(part, list)
  BY <1>8, <1>9, <1>10, <1>11, <1>12 DEF PartOf
<1>14. ASSUME NEW k \in DOMAIN part PROVE part[k].id # list[d].id
  <2>1. part[k] = list[f[k]] /\ f[k] \in 1..Len(list) /\ f[k] # d
    BY <1>9, <1>10
  <2>2. f[k] < d \/ d < f[k]
    BY <1>2, <2>1
  <2> QED BY <1>1, <2>1, <2>2 DEF ListOK
<1> QED BY <1>13, <1>14 DEF ToSet

(* unshift().                                                              *)
LEMMA PrependedIs ==
    ASSUME NEW list, ListOK(list), NEW r \in Failure,
           \A s \in ToSet(list) : s.id # r.id /\ s.at < r.at,
           NEW all, all = <<r>> \o list
    PROVE  ListOK(all) /\ ToSet(all) \subseteq {r} \cup ToSet(list)
<1>1. list \in Seq(Failure) /\ DOMAIN list = 1..Len(list) /\ Len(list) \in Nat
  BY DEF ListOK
<1>2. /\ all \in Seq(Failure) /\ Len(all) = Len(list) + 1 /\ all[1] = r
      /\ \A k \in 2..(Len(list) + 1) : all[k] = list[k - 1]
  BY <1>1
<1>3. DOMAIN all = 1..(Len(list) + 1)
  BY <1>2
<1>4. \A k \in 2..(Len(list) + 1) : k - 1 \in DOMAIN list
  BY <1>1
<1>5. \A k \in DOMAIN all : all[k] = r \/ all[k] \in ToSet(list)
  BY <1>1, <1>2, <1>3, <1>4 DEF ToSet
<1>6. ASSUME NEW i \in DOMAIN all, NEW k \in DOMAIN all, i < k
      PROVE  all[i].id # all[k].id /\ all[i].at > all[k].at
  <2>1. k \in 2..(Len(list) + 1) /\ all[k] = list[k - 1] /\ k - 1 \in DOMAIN list
    BY <1>1, <1>2, <1>3, <1>4, <1>6
  <2>2. CASE i = 1
    <3>1. all[k] \in ToSet(list)
      BY <2>1 DEF ToSet
    <3>2. all[k] \in Failure
      BY <1>2
    <3> QED BY <1>2, <2>2, <3>1, <3>2 DEF Failure
  <2>3. CASE i # 1
    <3>1. i \in 2..(Len(list) + 1) /\ all[i] = list[i - 1] /\ i - 1 \in DOMAIN list
      BY <1>1, <1>2, <1>3, <1>4, <2>3
    <3>2. i - 1 < k - 1
      BY <1>1, <1>3, <1>6
    <3> QED BY <2>1, <3>1, <3>2 DEF ListOK
  <2> QED BY <2>2, <2>3
<1> QED BY <1>2, <1>5, <1>6 DEF ListOK, ToSet

(* sort() of a list in which no two records are of one time.               *)
LEMMA NewestFirstIs ==
    ASSUME NEW list \in Seq(Failure),
           \A i, k \in DOMAIN list : i # k => list[i].id # list[k].id /\ list[i].at # list[k].at,
           NEW all, all = NewestFirst(list)
    PROVE  ListOK(all) /\ ToSet(all) \subseteq ToSet(list)
<1>1. PICK m \in Nat : m = Len(list)
  OBVIOUS
<1>2. PICK P : P = DOMAIN list
  OBVIOUS
<1>3. P = 1..m /\ \A i \in P : list[i] \in Failure /\ list[i].at \in Nat
  BY <1>1, <1>2, InList
<1>4. IsFiniteSet(P) /\ Cardinality(P) = m
  BY <1>3, FS_Interval
<1> DEFINE upTo == [i \in P |-> {k \in P : list[k].at > list[i].at
                                           \/ (list[k].at = list[i].at /\ k <= i)}]
           places == Listed(P, upTo)
<1>5. \A i \in P : i \in upTo[i] /\ upTo[i] \subseteq P
  BY <1>3
<1>6. \A i, k \in P : i # k => (i \in upTo[k] <=> list[i].at > list[k].at)
  BY <1>2, <1>3
<1>7. \A i, k \in P : i \in upTo[k] => upTo[i] \subseteq upTo[k]
  BY <1>3
<1>8. \A i, k \in P : i # k => (i \in upTo[k] <=> k \notin upTo[i])
  BY <1>2, <1>3, <1>6
<1>9. all = [n \in 1..Cardinality(P) |-> list[places[n]]]
  BY <1>2 DEF NewestFirst
<1> HIDE DEF upTo
<1>10. /\ places \in [1..Cardinality(P) -> P]
       /\ \A n, k \in 1..Cardinality(P) :
             n < k => places[n] # places[k] /\ places[n] \in upTo[places[k]]
  BY <1>4, <1>5, <1>7, <1>8, ListedIs
<1> HIDE DEF places
<1>11. all = [n \in 1..m |-> list[places[n]]] /\ places \in [1..m -> P]
  BY <1>4, <1>9, <1>10
<1>12. all \in Seq(Failure) /\ DOMAIN all = 1..m
  <2>1. all \in [1..m -> Failure]
    BY <1>3, <1>11
  <2> QED BY <2>1
<1>13. ASSUME NEW n \in 1..m, NEW k \in 1..m, n < k
       PROVE  all[n].id # all[k].id /\ all[n].at > all[k].at
  <2>1. places[n] \in P /\ places[k] \in P /\ places[n] # places[k] /\ places[n] \in upTo[places[k]]
    BY <1>4, <1>10, <1>13
  <2>2. all[n] = list[places[n]] /\ all[k] = list[places[k]]
    BY <1>11
  <2> QED BY <1>2, <1>6, <2>1, <2>2
<1>14. ToSet(all) \subseteq ToSet(list)
  BY <1>2, <1>11, <1>12 DEF ToSet
<1> QED BY <1>12, <1>13, <1>14 DEF ListOK

(* The store's list merged with what was reported while it was read.       *)
LEMMA MergedIs ==
    ASSUME NEW live, ListOK(live), NEW fromStore, ListOK(fromStore),
           OneId(ToSet(live) \cup ToSet(fromStore)), NEW all, all = Merged(live, fromStore)
    PROVE  ListOK(all) /\ Len(all) <= MaxFailures /\ ToSet(all) \subseteq ToSet(live) \cup ToSet(fromStore)
<1>1. PICK P : P = {i \in DOMAIN fromStore : \A l \in ToSet(live) : l.id # fromStore[i].id}
  OBVIOUS
<1>2. PICK new : new = Kept(fromStore, P)
  OBVIOUS
<1>3. PICK both : both = live \o new
  OBVIOUS
<1>4. PICK sorted : sorted = NewestFirst(both)
  OBVIOUS
<1>5. all = Capped(sorted)
  BY <1>1, <1>2, <1>3, <1>4 DEF Merged
<1>6. live \in Seq(Failure) /\ fromStore \in Seq(Failure) /\ P \in SUBSET DOMAIN fromStore
  BY <1>1 DEF ListOK
<1>7. PartOf(new, fromStore) /\ \A r \in ToSet(new) : \E i \in P : r = fromStore[i]
  BY <1>2, <1>6, FilterIs
<1>8. ListOK(new) /\ ToSet(new) \subseteq ToSet(fromStore)
  BY <1>7, PartIsOK
<1>9. \A r \in ToSet(new) : \A l \in ToSet(live) : l.id # r.id /\ l.at # r.at
  <2> SUFFICES ASSUME NEW r \in ToSet(new), NEW l \in ToSet(live) PROVE l.id # r.id /\ l.at # r.at
    OBVIOUS
  <2>1. l.id # r.id
    BY <1>1, <1>7
  <2>2. l.at = r.at => l.id = r.id
    BY <1>8 DEF OneId
  <2> QED BY <2>1, <2>2
<1>10. PICK m \in Nat, k \in Nat : m = Len(live) /\ k = Len(new)
  BY <1>6, <1>8 DEF ListOK
<1>11. /\ both \in Seq(Failure) /\ Len(both) = m + k
       /\ \A i \in 1..(m + k) : both[i] = IF i <= m THEN live[i] ELSE new[i - m]
  BY <1>3, <1>6, <1>8, <1>10, ConcatProperties DEF ListOK
<1>12. \A i \in 1..m : live[i] \in ToSet(live) /\ i \in DOMAIN live
  BY <1>6, <1>10 DEF ToSet
<1>13. \A i \in 1..k : new[i] \in ToSet(new) /\ i \in DOMAIN new
  BY <1>8, <1>10 DEF ToSet, ListOK
<1>14. ASSUME NEW i \in 1..(m + k), NEW j \in 1..(m + k), i < j
       PROVE  both[i].id # both[j].id /\ both[i].at # both[j].at
  <2>1. CASE j <= m
    <3>1. both[i] = live[i] /\ both[j] = live[j] /\ i \in DOMAIN live /\ j \in DOMAIN live
      BY <1>11, <1>12, <1>14, <2>1
    <3>2. live[i].id # live[j].id /\ live[i].at > live[j].at
      BY <1>14, <3>1 DEF ListOK
    <3>3. live[i].at \in Nat /\ live[j].at \in Nat
      BY <1>6, <3>1, InList
    <3> QED BY <3>1, <3>2, <3>3
  <2>2. CASE i <= m /\ j > m
    <3>1. both[i] = live[i] /\ both[j] = new[j - m] /\ i \in 1..m /\ j - m \in 1..k
      BY <1>11, <1>14, <2>2
    <3> QED BY <1>9, <1>12, <1>13, <3>1
  <2>3. CASE i > m
    <3>1. both[i] = new[i - m] /\ both[j] = new[j - m] /\ i - m \in 1..k /\ j - m \in 1..k /\ i - m < j - m
      BY <1>11, <1>14, <2>3
    <3>2. PICK p \in 1..k, q \in 1..k : p = i - m /\ q = j - m
      BY <3>1
    <3>3. p \in DOMAIN new /\ q \in DOMAIN new /\ p < q
      BY <1>13, <3>1, <3>2
    <3>4. new[p].id # new[q].id /\ new[p].at > new[q].at
      BY <1>8, <3>3 DEF ListOK
    <3>5. new[p].at \in Nat /\ new[q].at \in Nat
      BY <1>8, <3>3, InList DEF ListOK
    <3> QED BY <3>1, <3>2, <3>4, <3>5
  <2> QED BY <1>10, <1>14, <2>1, <2>2, <2>3
<1>15. DOMAIN both = 1..(m + k)
  BY <1>11
<1>16. \A i, j \in DOMAIN both : i # j => both[i].id # both[j].id /\ both[i].at # both[j].at
  <2> SUFFICES ASSUME NEW i \in DOMAIN both, NEW j \in DOMAIN both, i # j
               PROVE  both[i].id # both[j].id /\ both[i].at # both[j].at
    OBVIOUS
  <2>1. i < j \/ j < i
    BY <1>10, <1>15
  <2> QED BY <1>14, <1>15, <2>1
<1>17. ToSet(both) \subseteq ToSet(live) \cup ToSet(fromStore)
  <2> SUFFICES ASSUME NEW i \in 1..(m + k) PROVE both[i] \in ToSet(live) \cup ToSet(new)
    BY <1>8, <1>15 DEF ToSet
  <2>1. CASE i <= m
    BY <1>10, <1>11, <1>12, <2>1
  <2>2. CASE i > m
    <3>1. both[i] = new[i - m] /\ i - m \in 1..k
      BY <1>10, <1>11, <2>2
    <3> QED BY <1>13, <3>1
  <2> QED BY <1>10, <2>1, <2>2
<1>18. ListOK(sorted) /\ ToSet(sorted) \subseteq ToSet(both)
  BY <1>4, <1>11, <1>16, NewestFirstIs
<1>19. PartOf(all, sorted) /\ Len(all) <= MaxFailures
  BY <1>5, <1>18, CappedIs DEF ListOK
<1> QED BY <1>17, <1>18, <1>19, PartIsOK

(* A list with the traceback on one of its records.                        *)
WithTail(list, of, told) == [i \in DOMAIN list |-> IF list[i] = of THEN told ELSE list[i]]

LEMMA ToldIs ==
    ASSUME NEW list, ListOK(list), NEW of, NEW told, told = [of EXCEPT !.tail = TRUE],
           NEW all, all = WithTail(list, of, told)
    PROVE  /\ ListOK(all) /\ Len(all) = Len(list)
           /\ \A r \in ToSet(all) : \E s \in ToSet(list) :
                 r.id = s.id /\ r.at = s.at /\ r.kind = s.kind /\ r.job = s.job
<1>1. list \in Seq(Failure) /\ DOMAIN list = 1..Len(list) /\ Len(list) \in Nat
  BY DEF ListOK
<1>2. \A i \in DOMAIN list : list[i] \in Failure
  BY <1>1
<1>3. of \in Failure => /\ told \in Failure /\ told.id = of.id /\ told.at = of.at /\ told.kind = of.kind
                        /\ told.job = of.job
  BY DEF Failure
<1>4. ASSUME NEW i \in DOMAIN list
      PROVE  /\ all[i] \in Failure /\ all[i].id = list[i].id /\ all[i].at = list[i].at
             /\ all[i].kind = list[i].kind /\ all[i].job = list[i].job
  BY <1>2, <1>3 DEF WithTail
<1>5. all \in Seq(Failure) /\ Len(all) = Len(list) /\ DOMAIN all = DOMAIN list
  <2>1. PICK m \in Nat : m = Len(list)
    BY <1>1
  <2>2. all \in [1..m -> Failure]
    BY <1>1, <1>4, <2>1 DEF WithTail
  <2> QED BY <1>1, <2>1, <2>2, MadeOf
<1>6. ASSUME NEW i \in DOMAIN list, NEW k \in DOMAIN list, i < k
      PROVE  all[i].id # all[k].id /\ all[i].at > all[k].at
  <2>1. list[i].id # list[k].id /\ list[i].at > list[k].at
    BY <1>6 DEF ListOK
  <2> QED BY <1>4, <2>1
<1>7. ListOK(all)
  BY <1>5, <1>6 DEF ListOK
<1>8. ASSUME NEW r \in ToSet(all)
      PROVE  \E s \in ToSet(list) : r.id = s.id /\ r.at = s.at /\ r.kind = s.kind /\ r.job = s.job
  <2>1. PICK i \in DOMAIN list : r = all[i]
    BY <1>5 DEF ToSet
  <2>2. list[i] \in ToSet(list)
    BY DEF ToSet
  <2> QED BY <1>4, <2>1, <2>2
<1> QED BY <1>5, <1>7, <1>8

(* Records that say of a failure what other records say of it.             *)
Tells(S, T) ==
    \A r \in S : \E s \in T : r.id = s.id /\ r.at = s.at /\ r.kind = s.kind /\ r.job = s.job

LEMMA TellsIs ==
    ASSUME NEW T, OneId(T), NEW now, Past(T, now), NEW S, Tells(S, T)
    PROVE  OneId(S) /\ Past(S, now)
<1>1. Past(S, now)
  BY DEF Past, Tells
<1>2. ASSUME NEW r \in S, NEW s \in S,
             r.at = s.at \/ (r.kind = s.kind /\ r.job = s.job /\ r.job \in NoticeJobs)
      PROVE  r.id = s.id
  <2>1. PICK x \in T : r.id = x.id /\ r.at = x.at /\ r.kind = x.kind /\ r.job = x.job
    BY DEF Tells
  <2>2. PICK y \in T : s.id = y.id /\ s.at = y.at /\ s.kind = y.kind /\ s.job = y.job
    BY DEF Tells
  <2>3. x.at = y.at \/ (x.kind = y.kind /\ x.job = y.job /\ x.job \in NoticeJobs)
    BY <1>2, <2>1, <2>2
  <2>4. x.id = y.id
    BY <2>3 DEF OneId
  <2> QED BY <2>1, <2>2, <2>4
<1> QED BY <1>1, <1>2 DEF OneId

(* A report is a failure of its own, or the one that is on a card already. *)
LEMMA NotifyStepOK ==
    ASSUME NoticesInv, NEW k \in Kinds, NEW j \in NoticeJobs \cup {NoNoticeJob}, NEW same,
           same = 0 \/ same \in {r.id : r \in ToSet(cards)}, NotifyFailure(k, j, same)
    PROVE  NoticesInv'
<1> DEFINE dupes == {i \in DOMAIN cards : IsDupe(cards[i], k, j, same)}
<1>1. PICK now \in Nat : now = count.reported + 1
  BY DEF NoticesInv
<1>2. PICK fresh : fresh = [id |-> now, at |-> now, kind |-> k, job |-> j, tail |-> FALSE]
  OBVIOUS
<1>3. PICK d : d = CHOOSE i \in dupes : \A m \in dupes : i <= m
  OBVIOUS
<1>4. PICK told : told = [fresh EXCEPT !.id = cards[d].id, !.job = cards[d].job, !.tail = cards[d].tail]
  OBVIOUS
<1>5. PICK less : less = RemoveAt(cards, d)
  OBVIOUS
<1>6. /\ CanReport(j) /\ count' = [count EXCEPT !.reported = now] /\ UNCHANGED <<boot, asked>>
      /\ dupes = {} => Keep(Capped(<<fresh>> \o cards))
      /\ dupes # {} => Keep(Capped(<<told>> \o less))
  BY <1>1, <1>2, <1>3, <1>4, <1>5 DEF NotifyFailure
<1>7. /\ cards \in Seq(Failure) /\ ListOK(cards) /\ OneId(Remembered)
      /\ Past(Remembered, count.reported) /\ now = count.reported + 1 /\ count.reported \in Nat
      /\ ToSet(cards) \subseteq Remembered
  BY <1>1 DEF NoticesInv, ListsOK, ListOK, Remembered
<1>8. fresh \in Failure /\ fresh.id = now /\ fresh.at = now /\ fresh.kind = k /\ fresh.job = j
  BY <1>1, <1>2 DEF Failure
<1>9. \A r \in Remembered : r.id \in 1..(now - 1) /\ r.at \in 1..(now - 1)
  BY <1>1, <1>7 DEF Past
<1>10. count' = [reported |-> count'.reported, left |-> count'.left] /\ count'.reported = now
  BY <1>6 DEF NoticesInv
<1>11. ASSUME NEW r \in Failure, NEW rest, ListOK(rest), ToSet(rest) \subseteq ToSet(cards),
              \A s \in ToSet(rest) : s.id # r.id /\ s.at < r.at, Keep(Capped(<<r>> \o rest)),
              OneId({r} \cup ToSet(cards) \cup ToSet(boot.list)), r.id \in 1..now, r.at \in 1..now
       PROVE  NoticesInv'
  <2>1. PICK all : all = <<r>> \o rest
    OBVIOUS
  <2>2. PICK part : part = Capped(all)
    OBVIOUS
  <2>3. ListOK(all) /\ ToSet(all) \subseteq {r} \cup ToSet(rest)
    BY <1>11, <2>1, PrependedIs
  <2>4. PartOf(part, all) /\ Len(part) <= MaxFailures
    BY <2>2, <2>3, CappedIs DEF ListOK
  <2>5. ListOK(part) /\ ToSet(part) \subseteq ToSet(all)
    BY <2>3, <2>4, PartIsOK
  <2>6. cards' = part /\ saved' = part /\ boot' = boot
    BY <1>6, <1>11, <2>1, <2>2 DEF Keep
  <2>7. Remembered' \subseteq {r} \cup ToSet(cards) \cup ToSet(boot.list)
    BY <1>11, <2>3, <2>5, <2>6 DEF Remembered
  <2>8. OneId(Remembered')
    BY <1>11, <2>7 DEF OneId
  <2>9. \A s \in ToSet(cards) \cup ToSet(boot.list) : s.id \in 1..now /\ s.at \in 1..now
    BY <1>1, <1>9 DEF Remembered
  <2>10. Past(Remembered', now)
    BY <1>11, <2>7, <2>9 DEF Past
  <2>11. ListsOK'
    BY <1>10, <2>4, <2>5, <2>6, <2>8, <2>10 DEF ListsOK, NoticesInv
  <2> QED BY <1>6, <1>10, <2>11 DEF NoticesInv
<1>12. CASE dupes = {}
  <2>1. \A s \in ToSet(cards) : s.id # fresh.id /\ s.at < fresh.at
    BY <1>1, <1>7, <1>8, <1>9
  <2>2. ASSUME NEW s \in ToSet(cards) \cup ToSet(boot.list), s.kind = k, s.job = j, j \in NoticeJobs
        PROVE  FALSE
    <3>1. CASE s \in ToSet(cards)
      <4>1. PICK i \in DOMAIN cards : s = cards[i]
        BY <3>1 DEF ToSet
      <4>2. j # NoNoticeJob
        BY <2>2, NoticeAssumption
      <4>3. IsDupe(cards[i], k, j, same)
        BY <2>2, <4>1, <4>2 DEF IsDupe
      <4> QED BY <1>12, <4>3
    <3>2. CASE s \in ToSet(boot.list)
      <4>1. boot.stage # "done"
        BY <3>2 DEF NoticesInv, ToSet
      <4> QED BY <1>6, <2>2, <3>2, <4>1, NoticeAssumption DEF CanReport
    <3> QED BY <3>1, <3>2
  <2>3. OneId({fresh} \cup ToSet(cards) \cup ToSet(boot.list))
    <3>1. \A s \in ToSet(cards) \cup ToSet(boot.list) :
             s.at # fresh.at /\ ~(s.kind = fresh.kind /\ s.job = fresh.job /\ s.job \in NoticeJobs)
      BY <1>1, <1>8, <1>9, <2>2 DEF Remembered
    <3>2. \A r, s \in ToSet(cards) \cup ToSet(boot.list) :
             r.at = s.at \/ (r.kind = s.kind /\ r.job = s.job /\ r.job \in NoticeJobs) => r.id = s.id
      BY <1>7 DEF OneId, Remembered
    <3> QED BY <3>1, <3>2 DEF OneId
  <2>4. fresh.id \in 1..now /\ fresh.at \in 1..now
    BY <1>7, <1>8
  <2> QED BY <1>6, <1>7, <1>8, <1>11, <1>12, <2>1, <2>3, <2>4
<1>13. CASE dupes # {}
  <2>1. d \in dupes
    <3>1. dupes \in SUBSET Nat
      BY <1>7, InList
    <3>2. PICK m \in dupes : \A i \in dupes : m <= i
      BY <1>13, <3>1, LeastOf
    <3> QED BY <1>3, <3>2, Zenon
  <2>2. d \in DOMAIN cards /\ IsDupe(cards[d], k, j, same)
    BY <2>1
  <2>3. cards[d] \in Failure /\ cards[d] \in ToSet(cards) /\ cards[d].kind = k
    BY <1>7, <2>2, InList DEF ToSet, IsDupe
  <2>4. /\ told \in Failure /\ told.id = cards[d].id /\ told.at = now /\ told.kind = k
        /\ told.job = cards[d].job
    BY <1>2, <1>4, <1>8, <2>3 DEF Failure
  <2>5. PartOf(less, cards) /\ \A r \in ToSet(less) : r.id # cards[d].id
    BY <1>5, <1>7, <2>2, RemoveAtIs
  <2>6. ListOK(less) /\ ToSet(less) \subseteq ToSet(cards)
    BY <1>7, <2>5, PartIsOK
  <2>7. \A s \in ToSet(less) : s.id # told.id /\ s.at < told.at
    BY <1>1, <1>7, <1>9, <2>4, <2>5, <2>6
  <2>8. OneId({told} \cup ToSet(cards) \cup ToSet(boot.list))
    <3>1. \A r, s \in ToSet(cards) \cup ToSet(boot.list) :
             r.at = s.at \/ (r.kind = s.kind /\ r.job = s.job /\ r.job \in NoticeJobs) => r.id = s.id
      BY <1>7 DEF OneId, Remembered
    <3>2. \A s \in ToSet(cards) \cup ToSet(boot.list) : s.at # told.at
      BY <1>1, <1>9, <2>4 DEF Remembered
    <3>3. \A s \in ToSet(cards) \cup ToSet(boot.list) :
             s.kind = told.kind /\ s.job = told.job /\ s.job \in NoticeJobs => s.id = told.id
      BY <2>3, <2>4, <3>1
    <3> QED BY <3>1, <3>2, <3>3 DEF OneId
  <2>9. told.id \in 1..now /\ told.at \in 1..now
    BY <1>7, <1>9, <2>3, <2>4
  <2> QED BY <1>6, <1>11, <1>13, <2>4, <2>6, <2>7, <2>8, <2>9
<1> QED BY <1>12, <1>13

(* A filter of the cards, kept.                                            *)
LEMMA FilterStepOK ==
    ASSUME NoticesInv, OnCards, NEW P \in SUBSET DOMAIN cards, Keep(Kept(cards, P)), UNCHANGED <<boot, asked>>
    PROVE  NoticesInv'
<1>1. PICK part : part = Kept(cards, P)
  OBVIOUS
<1>2. ListOK(cards) /\ cards \in Seq(Failure) /\ Len(cards) <= MaxFailures
  BY DEF NoticesInv, ListsOK, ListOK
<1>3. PartOf(part, cards) /\ Len(part) <= Len(cards)
  BY <1>1, <1>2, FilterIs
<1>4. ListOK(part) /\ ToSet(part) \subseteq ToSet(cards)
  BY <1>2, <1>3, PartIsOK
<1>5. Len(part) <= MaxFailures
  BY <1>2, <1>3, <1>4, NoticeAssumption, InList DEF ListOK
<1>6. cards' = part /\ saved' = part /\ boot' = boot
  BY <1>1 DEF Keep
<1>7. Remembered' \subseteq Remembered
  BY <1>4, <1>6 DEF Remembered
<1>8. /\ count' = [reported |-> count'.reported, left |-> count'.left]
      /\ count'.reported = count.reported
  BY DEF OnCards, NoticesInv
<1>9. ListsOK'
  BY <1>4, <1>5, <1>6, <1>7, <1>8 DEF ListsOK, NoticesInv, OneId, Past
<1> QED BY <1>8, <1>9 DEF NoticesInv

LEMMA DismissStepsOK ==
    ASSUME NoticesInv, \/ \E r \in ToSet(cards) : DismissFailure(r.id)
                       \/ \E j \in NoticeJobs, ks \in {Kinds, {"export"}} : DismissFailuresByJobId(j, ks)
                       \/ \E k \in Kinds : DismissFailuresByKind(k)
    PROVE  NoticesInv'
<1>1. ASSUME NEW r \in ToSet(cards), DismissFailure(r.id) PROVE NoticesInv'
  BY <1>1, FilterStepOK DEF DismissFailure
<1>2. ASSUME NEW j \in NoticeJobs, NEW ks, DismissFailuresByJobId(j, ks) PROVE NoticesInv'
  BY <1>2, FilterStepOK DEF DismissFailuresByJobId
<1>3. ASSUME NEW k \in Kinds, DismissFailuresByKind(k) PROVE NoticesInv'
  BY <1>3, FilterStepOK DEF DismissFailuresByKind
<1> QED BY <1>1, <1>2, <1>3

(* No card at all.                                                         *)
LEMMA NoList == ListOK(<<>>) /\ Len(<<>>) <= MaxFailures /\ ToSet(<<>>) = {}
<1>1. <<>> \in Seq(Failure) /\ DOMAIN <<>> = {} /\ Len(<<>>) = 0
  OBVIOUS
<1> QED BY <1>1, NoticeAssumption DEF ListOK, ToSet

LEMMA RestoreStepsOK ==
    ASSUME NoticesInv, ClearFailures \/ ReloadNotices \/ StoreAnswers \/ RestoreList
    PROVE  NoticesInv'
<1>1. ListsOK
  BY DEF NoticesInv
<1>2. CASE ClearFailures
  <2>1. cards' = <<>> /\ saved' = <<>> /\ boot' = boot /\ asked' = asked
    BY <1>2 DEF ClearFailures, Keep
  <2>2. /\ count' = [reported |-> count'.reported, left |-> count'.left]
        /\ count'.reported = count.reported
    BY <1>2 DEF ClearFailures, OnCards, NoticesInv
  <2>3. Remembered' \subseteq Remembered
    BY <2>1, NoList DEF Remembered
  <2>4. ListsOK'
    BY <1>1, <2>1, <2>2, <2>3, NoList DEF ListsOK, OneId, Past
  <2> QED BY <2>1, <2>2, <2>4 DEF NoticesInv
<1>3. CASE ReloadNotices
  <2>1. cards' = <<>> /\ saved' = saved /\ boot' = [stage |-> "asked", list |-> <<>>] /\ asked' = {}
    BY <1>3 DEF ReloadNotices
  <2>2. /\ count' = [reported |-> count'.reported, left |-> count'.left]
        /\ count'.reported = count.reported
    BY <1>3 DEF ReloadNotices, OnCards, NoticesInv
  <2>3. boot'.stage = "asked" /\ boot'.list = <<>>
    BY <2>1
  <2>4. Remembered' \subseteq Remembered
    BY <2>1, <2>3, NoList DEF Remembered
  <2>5. ListsOK'
    BY <1>1, <2>1, <2>2, <2>3, <2>4, NoList DEF ListsOK, OneId, Past
  <2> QED BY <2>1, <2>2, <2>3, <2>5 DEF NoticesInv
<1>4. CASE StoreAnswers
  <2>1. cards' = cards /\ saved' = saved /\ asked' = asked /\ count' = count
    BY <1>4 DEF StoreAnswers
  <2>2. boot'.stage = "answered" /\ boot'.list = saved
    BY <1>4 DEF StoreAnswers
  <2>3. Remembered' \subseteq Remembered
    BY <2>1, <2>2 DEF Remembered
  <2>4. ListsOK'
    BY <1>1, <2>1, <2>2, <2>3 DEF ListsOK, OneId, Past
  <2> QED BY <2>1, <2>2, <2>4 DEF NoticesInv
<1>5. CASE RestoreList
  <2>1. saved' = saved /\ asked' = asked /\ count' = count /\ cards' = Merged(cards, boot.list)
    BY <1>5 DEF RestoreList
  <2>2. boot'.stage = "done" /\ boot'.list = <<>>
    BY <1>5 DEF RestoreList, NotBooting
  <2>3. OneId(ToSet(cards) \cup ToSet(boot.list))
    BY <1>1 DEF ListsOK, OneId, Remembered
  <2>4. ListOK(cards') /\ Len(cards') <= MaxFailures /\ ToSet(cards') \subseteq ToSet(cards) \cup ToSet(boot.list)
    BY <1>1, <2>1, <2>3, MergedIs DEF ListsOK
  <2>5. Remembered' \subseteq Remembered
    BY <2>1, <2>2, <2>4, NoList DEF Remembered
  <2>6. ListsOK'
    BY <1>1, <2>1, <2>2, <2>4, <2>5, NoList DEF ListsOK, OneId, Past
  <2> QED BY <2>1, <2>2, <2>6 DEF NoticesInv
<1> QED BY <1>2, <1>3, <1>4, <1>5

(* The dialog writes on a record, or has the cards stored again.           *)
LEMMA DialogStepsOK ==
    ASSUME NoticesInv,
           \/ \E r \in ToSet(cards) : OpenFailureDialog(r)
           \/ HideDialog \/ IncludeLogs
           \/ \E q \in asked : (\E ok \in BOOLEAN : FailureComes(q, ok)) \/ DiagnosticsCome(q) \/ LogsCome(q)
    PROVE  NoticesInv'
<1>1. ListsOK /\ \A q \in asked : q.what \in {"failure", "diagnostics", "logs"}
  BY DEF NoticesInv
<1>2. ASSUME UNCHANGED <<cards, boot>>, saved' \in {cards, saved},
             count' = count \/ OnCards, \A q \in asked' : q.what \in {"failure", "diagnostics", "logs"}
      PROVE  NoticesInv'
  <2>1. Remembered' \subseteq Remembered
    BY <1>2 DEF Remembered
  <2>2. /\ count' = [reported |-> count'.reported, left |-> count'.left]
        /\ count'.reported = count.reported
    BY <1>2 DEF OnCards, NoticesInv
  <2>3. ListsOK'
    BY <1>1, <1>2, <2>1, <2>2 DEF ListsOK, OneId, Past
  <2> QED BY <1>2, <2>2, <2>3 DEF NoticesInv
<1>3. ASSUME NEW r, OpenFailureDialog(r) PROVE NoticesInv'
  <2>1. PICK what : what = IF ~r.tail /\ r.job # NoNoticeJob THEN "failure" ELSE "diagnostics"
    OBVIOUS
  <2>2. what \in {"failure", "diagnostics"}
    BY <2>1
  <2>3. PICK q : q = [what |-> what, of |-> r]
    OBVIOUS
  <2>4. q.what = what
    BY <2>3
  <2>5. asked' = asked \cup {q}
    BY <1>3, <2>1, <2>3 DEF OpenFailureDialog
  <2>6. \A p \in asked' : p.what \in {"failure", "diagnostics", "logs"}
    BY <1>1, <2>2, <2>4, <2>5
  <2> QED BY <1>2, <1>3, <2>6 DEF OpenFailureDialog
<1>4. CASE HideDialog
  BY <1>1, <1>2, <1>4 DEF HideDialog
<1>5. CASE IncludeLogs
  <2>1. PICK q : q.what = "logs" /\ asked' = asked \cup {q}
    BY <1>5 DEF IncludeLogs
  <2> QED BY <1>1, <1>2, <1>5, <2>1 DEF IncludeLogs
<1>6. ASSUME NEW q \in asked, DiagnosticsCome(q) \/ LogsCome(q) PROVE NoticesInv'
  BY <1>1, <1>2, <1>6 DEF DiagnosticsCome, LogsCome
<1>7. ASSUME NEW q \in asked, NEW ok \in BOOLEAN, FailureComes(q, ok) PROVE NoticesInv'
  <2> PICK of : of = q.of
    OBVIOUS
  <2>1. PICK told : told = [of EXCEPT !.tail = TRUE]
    OBVIOUS
  <2>2. PICK all : all = WithTail(cards, of, told)
    OBVIOUS
  <2>3. /\ cards' = all /\ saved' \in {all, saved} /\ boot' = boot /\ count' = count
        /\ asked' = (asked \ {q}) \cup {[what |-> "diagnostics", of |-> told]}
    BY <1>7, <2>1, <2>2 DEF FailureComes, WithTail
  <2>4. /\ ListOK(all) /\ Len(all) = Len(cards)
        /\ \A r \in ToSet(all) : \E s \in ToSet(cards) :
              r.id = s.id /\ r.at = s.at /\ r.kind = s.kind /\ r.job = s.job
    BY <1>1, <2>1, <2>2, ToldIs DEF ListsOK
  <2>5. \A r \in Remembered' : r \in ToSet(all) \/ r \in Remembered
    BY <2>3 DEF Remembered
  <2>6. Tells(Remembered', Remembered)
    BY <2>4, <2>5 DEF Tells, Remembered
  <2>7. OneId(Remembered') /\ Past(Remembered', count.reported)
    BY <1>1, <2>6, TellsIs DEF ListsOK
  <2>8. ListsOK'
    BY <1>1, <2>3, <2>4, <2>7 DEF ListsOK
  <2>9. \A p \in asked' : p.what \in {"failure", "diagnostics", "logs"}
    BY <1>1, <2>3
  <2> QED BY <2>3, <2>8, <2>9 DEF NoticesInv
<1> QED BY <1>3, <1>4, <1>5, <1>6, <1>7

LEMMA NoticesInitOK == NoticesInit => NoticesInv
<1> SUFFICES ASSUME NoticesInit PROVE NoticesInv
  OBVIOUS
<1>1. cards = <<>> /\ saved = <<>> /\ boot.stage = "asked" /\ boot.list = <<>> /\ asked = {}
  BY DEF NoticesInit
<1>2. Remembered = {}
  BY <1>1, NoList DEF Remembered
<1>3. ListsOK
  BY <1>1, <1>2, NoList DEF ListsOK, OneId, Past
<1> QED BY <1>1, <1>3 DEF NoticesInv, NoticesInit

LEMMA NoticesStepOK == NoticesInv /\ [NoticesNext]_noticeVars => NoticesInv'
<1>1. ASSUME NoticesInv, NoticesNext PROVE NoticesInv'
  BY <1>1, NotifyStepOK, DismissStepsOK, RestoreStepsOK, DialogStepsOK DEF NoticesNext
<1>2. ASSUME NoticesInv, UNCHANGED noticeVars PROVE NoticesInv'
  BY <1>2 DEF NoticesInv, ListsOK, Remembered, noticeVars
<1> QED BY <1>1, <1>2

(* One failure has one card, whichever path saw it and however often,      *)
(* across reloads, and the newest is first (notifications.js).             *)
THEOREM FailuresStayOne == NoticesSpec => [](NoticesTypeOK /\ OneFailureOneCard)
<1>1. NoticesInv => NoticesTypeOK /\ OneFailureOneCard
  <2> SUFFICES ASSUME NoticesInv PROVE NoticesTypeOK /\ OneFailureOneCard
    OBVIOUS
  <2>1. NoticesTypeOK
    BY DEF NoticesInv, ListsOK, NoticesTypeOK
  <2>2. \A i \in DOMAIN cards : cards[i] \in Remembered
    BY DEF Remembered, ToSet
  <2>3. OneFailureOneCard
    BY <2>2 DEF NoticesInv, ListsOK, ListOK, OneId, OneFailureOneCard
  <2> QED BY <2>1, <2>3
<1> QED BY <1>1, NoticesInitOK, NoticesStepOK, PTL DEF NoticesSpec

-----------------------------------------------------------------------------
(* The panels together.                                                    *)

(* Every panel's state is of its types, whatever the others do.            *)
THEOREM PanelTypesCorrect == PanelsSpec => []PanelTypesOK
<1>1. PhoneTypeOK /\ ArtistTypeOK /\ NoticesTypeOK /\ FormTypeOK /\ ExportTypeOK => PanelTypesOK
  BY DEF PanelTypesOK
<1> QED BY <1>1, PhoneStaysTrue, BandsStayTheirTracks, FailuresStayOne, FormStaysTrue, ExportStaysTrue, PTL
        DEF PanelsSpec

(* What failed, is selected, exported, kept and waiting is what is shown.  *)
THEOREM ShownStaysTrue == PanelsSpec => []ShownIsTrue
<1>1. /\ OneFailureOneCard /\ FormIsTrue /\ ExportIsTrue /\ SettingsSayWhatIsKept /\ QueueRowsAreTheQueue
      => ShownIsTrue
  BY DEF ShownIsTrue
<1> QED BY <1>1, FailuresStayOne, FormStaysTrue, ExportStaysTrue, SettingsStayTrue, QueueRowsStayTheQueue, PTL
        DEF PanelsSpec
=============================================================================

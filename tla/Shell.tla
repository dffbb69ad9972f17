--------------------------------- MODULE Shell ---------------------------------
(***************************************************************************)
(* What the desktop shell (desktop/src-tauri) does for its two windows:    *)
(* the first run's and the update's.  They share no state.                 *)
(***************************************************************************)
EXTENDS AppUpdate, SetupWizard

ShellSpec == UpdateSpec /\ SetupSpec

(* The shell installs and opens only what was checked.                     *)
ShellIsSound == UpdatesAreSafe /\ SetupIsSound
=============================================================================

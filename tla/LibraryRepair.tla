------------------------------ MODULE LibraryRepair ------------------------------
(***************************************************************************)
(* "Resync out of sync tracks": each press looks what the server lost and  *)
(* imports it again from its link, one track after another, while the      *)
(* window can be opened and the button pressed again.                      *)
(***************************************************************************)
EXTENDS Integers, FiniteSets

CONSTANTS
    RepairTracks,  \* tracks of the library, each from a source of its own
    LocalTracks,   \* those that were uploaded files
    MaxRestores,   \* bound: imports made
    RepairScenes   \* set of scenes: what the user does

ASSUME RepairAssumption ==
    /\ LocalTracks \subseteq RepairTracks /\ MaxRestores \in Nat
    /\ RepairScenes \subseteq [acts : SUBSET {"open", "purge", "resync", "slow"}, gestures : Nat,
                               lost : SUBSET RepairTracks]

VARIABLES
    shelf,      \* the library: each track's status and its job
    restored,   \* the server's jobs: a track's first, then those imported again
    loops,      \* runs of resyncLibrary()
    editor,     \* the settings window: its button and what it says
    repairLeft  \* the scene, and what is left of its gestures

repairVars == <<shelf, restored, loops, editor, repairLeft>>

RepairScene(acts, gestures, lost) == [acts |-> acts, gestures |-> gestures, lost |-> lost]

(* The job of a track is 0 until it is imported again.  swept: the audio   *)
(* of its first job is gone.                                               *)
RestoreIds == 1..MaxRestores
FirstJob(t) == [track |-> t, status |-> IF t \in repairLeft.lost THEN "unavailable" ELSE "done"]
ServerHas(t, j) == IF j = 0 THEN FirstJob(t).status ELSE restored[j]

RepairInit ==
    /\ repairLeft \in RepairScenes
    /\ shelf = [t \in RepairTracks |-> [status |-> "done", job |-> 0]]
    /\ restored = [n \in RestoreIds |-> "none"]
    /\ loops = {}
    /\ editor = [open |-> FALSE, gen |-> 0, waits |-> FALSE, says |-> ""]

RepairActs(what) == what \in repairLeft.acts /\ repairLeft.gestures > 0
RepairSpent == repairLeft' = [repairLeft EXCEPT !.gestures = @ - 1]

FirstTrack == CHOOSE t \in RepairTracks : TRUE

(* What the last line of the window counts, and Resync may import again.   *)
OutOfSync == {t \in RepairTracks : shelf[t].status = "unavailable"}
Summary == IF OutOfSync # {} THEN "out of sync" ELSE "all in sync"

----------------------------------------------------------------------------
(* The window.                                                             *)

OpenRepairWindow ==
    /\ RepairActs("open") /\ RepairSpent
    /\ editor' = [open |-> TRUE, gen |-> editor.gen + 1, waits |-> FALSE, says |-> Summary]
    /\ UNCHANGED <<shelf, restored, loops>>

CloseRepairWindow ==
    /\ RepairActs("open") /\ RepairSpent /\ editor.open
    /\ editor' = [editor EXCEPT !.open = FALSE]
    /\ UNCHANGED <<shelf, restored, loops>>

(* A track trashed and deleted for good.                                   *)
Purge(t) ==
    /\ RepairActs("purge") /\ RepairSpent /\ shelf[t].status # "purged"
    /\ shelf' = [shelf EXCEPT ![t].status = "purged"]
    /\ UNCHANGED <<restored, loops, editor>>

----------------------------------------------------------------------------
(* resyncLibrary(): a run knows the button of the window that started it.  *)

Runs(l, at) == (loops \ {l}) \cup {[l EXCEPT !.at = at]}
(* A bug to catch: the button of whichever window is open by then.         *)
ButtonThatIsThere(l, says) ==
    IF editor.open
    THEN [editor EXCEPT !.waits = FALSE, !.says = IF says = "" THEN @ ELSE says]
    ELSE editor

Button(l, says) ==
    IF editor.gen = l.gen /\ editor.open
    THEN [editor EXCEPT !.waits = FALSE, !.says = IF says = "" THEN @ ELSE says]
    ELSE editor

PressResync ==
    /\ RepairActs("resync") /\ RepairSpent /\ editor.open /\ ~editor.waits
    /\ editor' = [editor EXCEPT !.waits = TRUE, !.says = "syncing"]
    /\ loops' = loops \cup {[n |-> repairLeft.gestures, gen |-> editor.gen, at |-> "asking",
                             todo |-> {}, track |-> FirstTrack, job |-> 0]}
    /\ UNCHANGED <<shelf, restored>>

(* GET /api/jobs answers, and syncWithServer() asks again; or it fails.    *)
ResyncAsked(l, ok) ==
    /\ l.at = "asking"
    /\ IF ok THEN loops' = Runs(l, "syncing") /\ UNCHANGED editor
       ELSE loops' = loops \ {l} /\ editor' = Button(l, "sync failed")
    /\ UNCHANGED <<shelf, restored, repairLeft>>

(* reconcileAvailability(): what is done, or was lost, is as the server    *)
(* has it; tracks still importing are left alone.                          *)
Reconciled ==
    [t \in RepairTracks |->
        IF shelf[t].status \notin {"done", "unavailable"} THEN shelf[t]
        ELSE [shelf[t] EXCEPT !.status =
                IF ServerHas(t, shelf[t].job) = "done" THEN "done" ELSE "unavailable"]]

(* The answer, or none: syncWithServer() says nothing of a failure.  With  *)
(* tracks to import the window is closed.                                  *)
ResyncKnows(l, ok) ==
    /\ l.at = "syncing"
    /\ LET after == IF ok THEN Reconciled ELSE shelf
           lost == {t \in RepairTracks : after[t].status = "unavailable"}
           todo == lost \ LocalTracks
       IN /\ shelf' = after
          /\ IF todo # {}
             THEN /\ loops' = (loops \ {l}) \cup {[l EXCEPT !.at = "next", !.todo = todo]}
                  /\ editor' = [editor EXCEPT !.open = FALSE]
             ELSE /\ loops' = loops \ {l}
                  /\ editor' = [Button(l, "") EXCEPT !.says = IF ~editor.open THEN @
                                   ELSE IF lost # {} THEN "out of sync" ELSE "all in sync"]
    /\ UNCHANGED <<restored, repairLeft>>

(* importFromUrl(): its POST is sent for a track as it was when collected. *)
RestoreNext(l, t) ==
    /\ l.at = "next" /\ t \in l.todo
    /\ loops' = (loops \ {l}) \cup {[l EXCEPT !.at = "importing", !.track = t, !.todo = @ \ {t}]}
    /\ UNCHANGED <<shelf, restored, editor, repairLeft>>

(* The server takes it, and the row of that source is the new job's; or it *)
(* refuses, and the run goes on with the next one.                         *)
Importing(l) == {t \in RepairTracks : l.at = "importing" /\ t = l.track}
RestorePosted(l, ok) ==
    \E t \in Importing(l) :
        IF ~ok THEN loops' = Runs(l, "next") /\ UNCHANGED <<shelf, restored, editor, repairLeft>>
        ELSE \E n \in RestoreIds :
               /\ restored[n] = "none" /\ \A m \in 1..(n - 1) : restored[m] # "none"
               /\ restored' = [restored EXCEPT ![n] = "busy"]
               /\ shelf' = [shelf EXCEPT ![t] = [status |-> "processing", job |-> n]]
               /\ loops' = (loops \ {l}) \cup {[l EXCEPT !.at = "waiting", !.job = n]}
               /\ UNCHANGED <<editor, repairLeft>>

Terminal(j) == restored[j] \in {"done", "failed"}

(* waitForJobTerminal(): polls until then, or for half an hour.            *)
ResyncWaitEnds(l) ==
    /\ l.at = "waiting" /\ Terminal(l.job)
    /\ loops' = Runs(l, "next")
    /\ UNCHANGED <<shelf, restored, editor, repairLeft>>

ResyncGivesUp(l) ==
    /\ RepairActs("slow") /\ RepairSpent
    /\ l.at = "waiting"
    /\ loops' = Runs(l, "next")
    /\ UNCHANGED <<shelf, restored, editor>>

ResyncEnds(l) ==
    /\ l.at = "next" /\ l.todo = {}
    /\ loops' = loops \ {l} /\ editor' = Button(l, "")
    /\ UNCHANGED <<shelf, restored, repairLeft>>

----------------------------------------------------------------------------
(* The jobs, and the rows that hear of them.                               *)

RestoreEnds(n, how) ==
    /\ restored[n] = "busy" /\ restored' = [restored EXCEPT ![n] = how]
    /\ UNCHANGED <<shelf, loops, editor, repairLeft>>

RowHears(t) ==
    /\ shelf[t].status = "processing" /\ restored[shelf[t].job] \in {"done", "failed"}
    /\ shelf' = [shelf EXCEPT ![t].status = restored[shelf[t].job]]
    /\ UNCHANGED <<restored, loops, editor, repairLeft>>

RepairNext ==
    \/ OpenRepairWindow \/ CloseRepairWindow \/ PressResync
    \/ \E t \in RepairTracks : Purge(t) \/ RowHears(t)
    \/ \E l \in loops : \/ ResyncWaitEnds(l) \/ ResyncGivesUp(l) \/ ResyncEnds(l)
                        \/ \E t \in RepairTracks : RestoreNext(l, t)
                        \/ \E ok \in BOOLEAN : ResyncAsked(l, ok) \/ ResyncKnows(l, ok) \/ RestorePosted(l, ok)
    \/ \E n \in RestoreIds, how \in {"done", "failed"} : RestoreEnds(n, how)

RepairSpec == RepairInit /\ [][RepairNext]_repairVars

----------------------------------------------------------------------------
(* What is expected.                                                       *)

(* However windows are opened and closed over runs under way, and other    *)
(* runs close them: no window ever has two runs at once, and the button of *)
(* the open one waits exactly as long as the run it began is at work, so   *)
(* it neither begins a second nor stays dead.                              *)
EachWindowSyncsOnce ==
    /\ \A l, m \in loops : l.gen = m.gen => l = m
    /\ editor.open => (editor.waits <=> \E l \in loops : l.gen = editor.gen)
=============================================================================

------------------------------ MODULE ExtractForm ------------------------------
(***************************************************************************)
(* The composer of the page: which stems to extract and how the vocals     *)
(* come out, the files staged, the submissions under way, and the          *)
(* song-structure setting the server keeps.                                *)
(***************************************************************************)
EXTENDS Integers, FiniteSets

CONSTANTS
    Stems,        \* the stems there are
    Vocals,       \* the one that can come out in two ways
    FormScenes    \* set of scenes: what the last visit left, what the user does

ASSUME FormAssumption ==
    /\ Vocals \in Stems
    /\ FormScenes \subseteq
         [does : SUBSET {"all", "chip", "clear", "file", "flag", "native", "open", "restore", "submit", "vocals"},
          left : Nat, stems : SUBSET Stems, mode : {"all", "split"}, on : BOOLEAN]

VARIABLES
    chosen,     \* the selection
    mode,       \* vocals "all" in one track, or "split"
    stored,     \* the selection and the mode in the store
    loading,    \* what the page still reads at startup
    row,        \* what the row of buttons shows
    staged,     \* the files in the box: the drop they are from, how many
    drop,       \* files dropped outside the web view: those not read yet
    sending,    \* submissions under way
    sent,       \* jobs accepted: as submitted, as sent, as recorded
    flag,       \* song structure: the server's value, the button, requests
    doing       \* the scene, and the gestures left of it

formVars == <<chosen, mode, stored, loading, row, staged, drop, sending, sent, flag, doing>>

FormScene(does, n, stems, m, on) ==
    [does |-> does, left |-> n, stems |-> stems, mode |-> m, on |-> on]

NoFiles == [drop |-> 0, n |-> 0]

(* refreshStemChoiceVisuals(): every button from the one selection; the    *)
(* process button is shut while nothing is chosen or a submit holds it.    *)
Painted(c, m, busy) ==
    [chips |-> c, all |-> c = Stems, vocals |-> IF Vocals \in c THEN m ELSE "none",
     open |-> c # {} /\ ~busy, busy |-> busy]

Refreshed == row' = Painted(chosen', mode', row.busy)

FormInit ==
    /\ doing \in FormScenes
    /\ chosen = Stems /\ mode = "all"
    /\ stored = [stems |-> doing.stems, mode |-> doing.mode]
    /\ loading = {"stems", "mode", "painted", "settled", "flag"}
    /\ row = Painted(Stems, "all", FALSE)
    /\ staged = NoFiles /\ drop = NoFiles
    /\ sending = {} /\ sent = {}
    /\ flag = [server |-> doing.on, pressed |-> FALSE, shut |-> FALSE, asks |-> {}, asked |-> FALSE,
               lost |-> FALSE]

Can(what) == what \in doing.does /\ doing.left > 0
Done == doing' = [doing EXCEPT !.left = @ - 1]

(* setSubmitProcessing(): the one button, whoever holds it.                *)
Processing(busy) == row' = [row EXCEPT !.busy = busy, !.open = chosen # {} /\ ~busy]

----------------------------------------------------------------------------
(* Startup: the stored selection and mode land when they land; the row is  *)
(* painted again once the first is known, and once the second is.          *)

StemSelectionReady ==
    /\ "stems" \in loading /\ loading' = loading \ {"stems"}
    /\ \E s \in {stored.stems, doing.stems} : chosen' = IF s = {} THEN chosen ELSE s
    /\ UNCHANGED <<mode, stored, row, staged, drop, sending, sent, flag, doing>>

VocalSplitModeReady ==
    /\ "mode" \in loading /\ loading' = loading \ {"mode"}
    /\ \E m \in {stored.mode, doing.mode} : mode' = IF m = "split" THEN m ELSE mode
    /\ UNCHANGED <<chosen, stored, row, staged, drop, sending, sent, flag, doing>>

PaintStored ==
    /\ \/ "painted" \in loading /\ "stems" \notin loading /\ loading' = loading \ {"painted"}
       \/ "settled" \in loading /\ loading \cap {"mode", "painted"} = {} /\ loading' = loading \ {"settled"}
    /\ UNCHANGED <<chosen, mode>> /\ Refreshed
    /\ UNCHANGED <<stored, staged, drop, sending, sent, flag, doing>>

----------------------------------------------------------------------------
(* The row.                                                                *)

Saves == stored' = [stems |-> chosen', mode |-> mode']

(* The first press of a chip narrows everything down to it; a stem         *)
(* switched on as vocals takes one track.                                  *)
HandleStemChoiceClick(stem) ==
    /\ Can("chip") /\ Done
    /\ chosen' = IF chosen = Stems THEN {stem}
                 ELSE IF stem \in chosen THEN chosen \ {stem} ELSE chosen \cup {stem}
    /\ mode' = IF Vocals \notin chosen /\ Vocals \in chosen' THEN "all" ELSE mode
    /\ Saves /\ Refreshed
    /\ UNCHANGED <<loading, staged, drop, sending, sent, flag>>

AllButton ==
    /\ Can("all") /\ Done
    /\ chosen' = IF chosen = Stems THEN {} ELSE Stems
    /\ UNCHANGED mode /\ Saves /\ Refreshed
    /\ UNCHANGED <<loading, staged, drop, sending, sent, flag>>

(* Combined or Lead + Backing: the mode in force switches the vocals off.  *)
VocalMode(m) ==
    /\ Can("vocals") /\ Done
    /\ IF Vocals \in chosen /\ mode = m THEN chosen' = chosen \ {Vocals} /\ UNCHANGED mode
       ELSE chosen' = chosen \cup {Vocals} /\ mode' = m
    /\ Saves /\ Refreshed
    /\ UNCHANGED <<loading, staged, drop, sending, sent, flag>>

SelectionPainted == Refreshed

(* A library track opened brings its own selection into the row, and its   *)
(* load ends the song-structure request.                                   *)
ForceOff(f) ==
    IF ~f.pressed THEN f ELSE [f EXCEPT !.pressed = FALSE, !.asks = @ \cup {"off"}]

OpenStoredTrack(stems) ==
    /\ Can("open") /\ Done
    /\ chosen' = IF stems = {} THEN chosen ELSE stems
    /\ UNCHANGED mode /\ Saves /\ SelectionPainted
    /\ flag' = ForceOff(flag)
    /\ UNCHANGED <<loading, staged, drop, sending, sent>>

----------------------------------------------------------------------------
(* Files: picked, dropped, or dropped where only the shell sees them.      *)

StageFiles(n) ==
    /\ Can("file") /\ Done
    /\ staged' = [drop |-> doing.left, n |-> n]
    /\ UNCHANGED <<chosen, mode, stored, loading, row, drop, sending, sent, flag>>

ClearFile ==
    /\ Can("clear") /\ Done /\ staged # NoFiles
    /\ staged' = NoFiles
    /\ UNCHANGED <<chosen, mode, stored, loading, row, drop, sending, sent, flag>>

NativeDrop(n) ==
    /\ Can("native") /\ Done /\ drop = NoFiles
    /\ drop' = [drop |-> doing.left, n |-> n]
    /\ UNCHANGED <<chosen, mode, stored, loading, row, staged, sending, sent, flag>>

(* read_dropped_file, one at a time; all of them, or none, are staged.     *)
NativeDropRead(n) ==
    /\ drop # NoFiles
    /\ \/ staged' = [drop |-> drop.drop, n |-> n]
       \/ UNCHANGED staged
    /\ drop' = NoFiles
    /\ UNCHANGED <<chosen, mode, stored, loading, row, sending, sent, flag, doing>>

----------------------------------------------------------------------------
(* Submissions.                                                            *)

SplitAs(c, m) == IF Vocals \in c THEN m ELSE "all"
Pick(c, m) == [stems |-> c, split |-> SplitAs(c, m)]

(* The job of a submission: what was submitted, what was sent, and what    *)
(* its row and the vocal split go by, read when the server answered.       *)
Accepted(s) == sent' = sent \cup {[asked |-> s.asked, sent |-> s.sent, recorded |-> Pick(chosen, mode)]}

Submit ==
    /\ Can("submit") /\ Done /\ row.open
    /\ Processing(TRUE)
    /\ sending' = sending \cup {[id |-> doing.left, files |-> staged.n, asked |-> Pick(chosen, mode),
                                 sent |-> chosen, kind |-> "form"]}
    /\ UNCHANGED <<chosen, mode, stored, loading, staged, drop, sent, flag>>

(* A batch goes on with its next file; the last answer frees the button    *)
(* and disarms the picker.                                                 *)
SubmitAnswers(s, ok) ==
    /\ s \in sending /\ s.kind = "form"
    /\ IF ok THEN Accepted(s) ELSE UNCHANGED sent
    /\ IF ok /\ s.files > 1
       THEN /\ sending' = (sending \ {s}) \cup {[s EXCEPT !.files = @ - 1, !.sent = chosen]}
            /\ UNCHANGED <<row, staged>>
       ELSE /\ sending' = sending \ {s}
            /\ Processing(FALSE)
            /\ staged' = IF s.files > 0 /\ (ok \/ s.files > 1) THEN NoFiles ELSE staged
    /\ UNCHANGED <<chosen, mode, stored, loading, drop, flag, doing>>

(* importFromUrl(): "Sync again" holds the same button.                    *)
Restore ==
    /\ Can("restore") /\ Done
    /\ Processing(TRUE)
    /\ sending' = sending \cup {[id |-> doing.left, files |-> 0, asked |-> Pick(chosen, mode),
                                 sent |-> chosen, kind |-> "restore"]}
    /\ UNCHANGED <<chosen, mode, stored, loading, staged, drop, sent, flag>>

RestoreAnswers(s) ==
    /\ s \in sending /\ s.kind = "restore"
    /\ sending' = sending \ {s} /\ Processing(FALSE)
    /\ UNCHANGED <<chosen, mode, stored, loading, staged, drop, sent, flag, doing>>

----------------------------------------------------------------------------
(* The song-structure setting.                                             *)

FlagClick ==
    /\ Can("flag") /\ Done /\ ~flag.shut
    /\ LET next == ~flag.pressed
       IN flag' = [flag EXCEPT !.pressed = next, !.shut = TRUE, !.asked = @ \/ next,
                               !.asks = @ \cup {IF next THEN "clickon" ELSE "clickoff"}]
    /\ UNCHANGED <<chosen, mode, stored, loading, row, staged, drop, sending, sent>>

(* The server takes a request, and its answer comes, or neither.           *)
FlagAnswers(ask, ok) ==
    LET next == ask = "clickon"
    IN /\ ask \in flag.asks
       /\ flag' = [flag EXCEPT
             !.asks = @ \ {ask},
             !.server = IF ok THEN next ELSE @,
             !.lost = @ \/ (ask = "off" /\ ~ok),
             !.shut = IF ask = "off" THEN @ ELSE FALSE,
             !.pressed = IF ask = "off" THEN @ ELSE IF ok THEN next ELSE ~next]
       /\ UNCHANGED <<chosen, mode, stored, loading, row, staged, drop, sending, sent, doing>>

(* What was read at startup is only read to be cleared.                    *)
FlagCleared(on) == flag' = ForceOff([flag EXCEPT !.pressed = on])

FlagRead(ok) ==
    /\ "flag" \in loading /\ loading' = loading \ {"flag"}
    /\ IF ok THEN \E on \in {flag.server, doing.on} : FlagCleared(on)
       ELSE flag' = [flag EXCEPT !.lost = TRUE]
    /\ UNCHANGED <<chosen, mode, stored, row, staged, drop, sending, sent, doing>>

FormNext ==
    \/ StemSelectionReady \/ VocalSplitModeReady \/ PaintStored
    \/ \E s \in Stems : HandleStemChoiceClick(s)
    \/ AllButton \/ Submit \/ Restore \/ ClearFile \/ FlagClick
    \/ \E m \in {"all", "split"} : VocalMode(m)
    \/ \E c \in SUBSET Stems : OpenStoredTrack(c)
    \/ \E n \in 1..2 : StageFiles(n) \/ NativeDrop(n) \/ NativeDropRead(n)
    \/ \E s \in sending : RestoreAnswers(s) \/ \E ok \in BOOLEAN : SubmitAnswers(s, ok)
    \/ \E a \in flag.asks, ok \in BOOLEAN : FlagAnswers(a, ok)
    \/ \E ok \in BOOLEAN : FlagRead(ok)

FormSpec == FormInit /\ [][FormNext]_formVars

----------------------------------------------------------------------------
(* What is expected.                                                       *)

FormTypeOK ==
    /\ chosen \subseteq Stems /\ mode \in {"all", "split"}
    /\ loading \subseteq {"stems", "mode", "painted", "settled", "flag"}
    /\ flag.asks \subseteq {"clickon", "clickoff", "off"}

(* Once started, every button of the row says what is selected, whatever   *)
(* set it.                                                                 *)
RowIsTrue == "settled" \notin loading => row = Painted(chosen, mode, row.busy)

(* The setting left on by the last visit does not stay on, unless it was   *)
(* asked for again, or the request that clears it was lost.                *)
NobodyAskedNothingPays ==
    flag.server => flag.asked \/ flag.lost \/ "flag" \in loading \/ flag.asks # {}

(* The form says what it will send, and keeps no setting nobody asked for. *)
FormIsTrue == RowIsTrue /\ NobodyAskedNothingPays
=============================================================================

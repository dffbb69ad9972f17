------------------------------ MODULE ExportDesk ------------------------------
(***************************************************************************)
(* What leaves the studio: the export menu, with the state it shows while  *)
(* a file is written, and the loop or a lane dragged out to a folder.      *)
(***************************************************************************)
EXTENDS Integers, FiniteSets

CONSTANTS
    Songs,        \* tracks
    HasVideo,     \* those with their video kept
    HasGrid,      \* those with a beat grid: a click can be exported
    ExportScenes  \* set of scenes: the kind of host, what the user does

ASSUME ExportAssumption == HasVideo \subseteq Songs /\ HasGrid \subseteq Songs

VARIABLES
    open,      \* the track in the studio
    heard,     \* the mix heard and the click asked for with exports
    span,      \* the loop: on or off, its bounds to a tenth, and beyond
    menu,      \* the export menu
    runs,      \* exports under way
    folder,    \* files in the exports folder: name -> what they hold
    drags,     \* drags whose file is still written
    handed,    \* what the last drag was of, and what it handed over
    warm,      \* renders asked for ahead of a drag
    use        \* the scene, and the gestures left of it

exportVars == <<open, heard, span, menu, runs, folder, drags, handed, warm, use>>

ExportScene(does, n, desktop) == [does |-> does, left |-> n, desktop |-> desktop]

Mixes == {"full", "quieter", "muted"}
NoLoop == [on |-> FALSE, tenths |-> 0, fine |-> 0]
Nothing == [song |-> "none"]

ExportInit ==
    /\ use \in ExportScenes
    /\ open \in Songs
    /\ heard = [mix |-> "full", click |-> FALSE]
    /\ span = NoLoop
    /\ menu = [open |-> FALSE, format |-> "wav", busy |-> FALSE, picking |-> FALSE, token |-> 0, shut |-> FALSE]
    /\ runs = {} /\ folder = {} /\ drags = {}
    /\ handed = [asked |-> Nothing, got |-> Nothing]
    /\ warm = [last |-> Nothing, lanes |-> {}]

(* The save dialog is modal: while it is open the page is out of reach.    *)
Uses(what) == what \in use.does /\ use.left > 0 /\ \A r \in runs : r.stage # "picking"
Used == use' = [use EXCEPT !.left = @ - 1]

----------------------------------------------------------------------------
(* The studio.                                                             *)

(* wireUpAudio(): the loop is off, the click as the track allows.          *)
LoadSong(t) ==
    /\ Uses("load") /\ Used /\ open' = t
    /\ heard' = [mix |-> "full", click |-> heard.click /\ t \in HasGrid]
    /\ span' = NoLoop
    /\ UNCHANGED <<menu, runs, folder, drags, handed, warm>>

MoveFader(m) ==
    /\ Uses("mix") /\ Used /\ m # heard.mix
    /\ heard' = [heard EXCEPT !.mix = m]
    /\ UNCHANGED <<open, span, menu, runs, folder, drags, handed, warm>>

ExportClick ==
    /\ Uses("click") /\ Used /\ open \in HasGrid
    /\ heard' = [heard EXCEPT !.click = ~@]
    /\ UNCHANGED <<open, span, menu, runs, folder, drags, handed, warm>>

SetSpan(n, f) ==
    /\ Uses("loop") /\ Used
    /\ span' = [on |-> TRUE, tenths |-> n, fine |-> f]
    /\ UNCHANGED <<open, heard, menu, runs, folder, drags, handed, warm>>

----------------------------------------------------------------------------
(* What an export holds, and what it is called.                            *)

(* _mixdownUrl(): the lanes as heard, the loop when asked, the click.      *)
MixdownUrl(ext, region) ==
    [song |-> open, mix |-> heard.mix, click |-> heard.click, format |-> ext,
     span |-> IF region THEN span ELSE NoLoop]

(* stemRegionDragPayload(): the stem itself, whatever the mix.             *)
StemUrl(ext) == [song |-> open, mix |-> "stem", click |-> FALSE, format |-> ext, span |-> span]

Loops == span.on
CanMix == heard.mix # "muted"
AudioFormat == IF menu.format = "mp4" THEN "wav" ELSE menu.format

(* The song, whether it is a lane, and the bounds to a tenth of a second.  *)
DragName(url) == [song |-> url.song, lane |-> url.mix = "stem", tenths |-> url.span.tenths,
                  format |-> url.format]

----------------------------------------------------------------------------
(* The menu.                                                               *)

OpenPanel ==
    /\ Uses("panel") /\ Used /\ ~menu.busy /\ ~menu.picking
    /\ menu' = IF menu.open THEN [menu EXCEPT !.open = FALSE]
               ELSE [menu EXCEPT !.open = TRUE,
                         !.format = IF @ = "mp4" /\ open \notin HasVideo THEN "wav" ELSE @]
    /\ UNCHANGED <<open, heard, span, runs, folder, drags, handed, warm>>

SetFormat(f) ==
    /\ Uses("format") /\ Used /\ menu.open /\ (f = "mp4" => open \in HasVideo)
    /\ menu' = [menu EXCEPT !.format = f]
    /\ UNCHANGED <<open, heard, span, runs, folder, drags, handed, warm>>

EnterBusy(m) == [m EXCEPT !.busy = TRUE, !.open = FALSE, !.shut = TRUE]

(* A slip of the code: the button is let go and the menu stays shut.       *)
ResetBusyOnly(m) == [m EXCEPT !.busy = FALSE]

ResetBusy(m) == [m EXCEPT !.busy = FALSE, !.shut = FALSE]

(* finish(): only the latest export resets the menu.                       *)
Finish(m, token) ==
    IF token = m.token THEN ResetBusy([m EXCEPT !.picking = FALSE]) ELSE [m EXCEPT !.picking = FALSE]

(* runExport(): on the desktop a dialog comes first, in a browser the      *)
(* transfer is the browser's and the busy state is a guess.                *)
RunExport(what) ==
    /\ Uses("export") /\ Used
    /\ menu.open /\ ~menu.busy /\ ~menu.picking /\ ~menu.shut
    /\ what = "region" => Loops
    /\ what # "mix" => menu.format # "mp4"
    /\ LET starts == /\ what \in {"mix", "region"} => CanMix
                     /\ menu.format = "mp4" => open \in HasVideo
           token == menu.token + 1
           url == MixdownUrl(menu.format, what = "region")
           m == [menu EXCEPT !.picking = TRUE, !.token = token]
       IN IF ~starts THEN UNCHANGED <<menu, runs>>
          ELSE /\ menu' = IF use.desktop THEN m ELSE EnterBusy(m)
               /\ runs' = runs \cup {[token |-> token, url |-> url, late |-> FALSE,
                                      stage |-> IF use.desktop THEN "picking" ELSE "flash"]}
    /\ UNCHANGED <<open, heard, span, folder, drags, handed, warm>>

(* The dialog: a destination starts the transfer, a cancel ends it.        *)
PickDestination(r) ==
    /\ r \in runs /\ r.stage = "picking"
    /\ \/ menu' = EnterBusy(menu) /\ runs' = (runs \ {r}) \cup {[r EXCEPT !.stage = "moving"]}
       \/ menu' = Finish(menu, r.token) /\ runs' = runs \ {r}
    /\ UNCHANGED <<open, heard, span, folder, drags, handed, warm, use>>

(* The file is on disk, or is not; or the browser's guess is over.         *)
ExportEnds(r) ==
    /\ r \in runs /\ r.stage \in {"moving", "flash"}
    /\ menu' = Finish(menu, r.token) /\ runs' = runs \ {r}
    /\ UNCHANGED <<open, heard, span, folder, drags, handed, warm, use>>

(* Fifteen minutes: the menu comes back though the export has not ended.   *)
ExportBackstop(r) ==
    /\ "late" \in use.does /\ r \in runs /\ r.stage = "moving" /\ ~r.late
    /\ menu' = Finish(menu, r.token)
    /\ runs' = (runs \ {r}) \cup {[r EXCEPT !.late = TRUE]}
    /\ UNCHANGED <<open, heard, span, folder, drags, handed, warm, use>>

----------------------------------------------------------------------------
(* Dragging out, on the desktop.                                           *)

Hands(url, got) == handed' = [asked |-> url, got |-> got]

(* start_audio_drag(): a file of that name is handed over as it is.        *)
StartDrag(url) ==
    /\ use.desktop /\ Used
    /\ IF \E f \in folder : f.name = DragName(url)
       THEN /\ Hands(url, (CHOOSE f \in folder : f.name = DragName(url)).holds)
            /\ UNCHANGED drags
       ELSE drags' = drags \cup {url} /\ UNCHANGED handed
    /\ UNCHANGED <<open, heard, span, menu, runs, folder, warm>>

DragRegion == Uses("drag") /\ Loops /\ CanMix /\ StartDrag(MixdownUrl(AudioFormat, TRUE))
DragLane == Uses("lane") /\ Loops /\ StartDrag(StemUrl(AudioFormat))

(* The file is written under its name in one go, or not at all.            *)
DragWritten(url, ok) ==
    /\ url \in drags /\ drags' = drags \ {url}
    /\ IF ~ok THEN UNCHANGED <<folder, handed>>
       ELSE /\ folder' = {f \in folder : f.name # DragName(url)} \cup {[name |-> DragName(url), holds |-> url]}
            /\ Hands(url, url)
    /\ UNCHANGED <<open, heard, span, menu, runs, warm, use>>

(* Rendered ahead: the mix half a second after a gesture, once; a lane on  *)
(* hover, again when the render failed.                                    *)
PrewarmMix ==
    /\ use.desktop /\ Loops /\ CanMix
    /\ LET url == MixdownUrl(AudioFormat, TRUE)
       IN url # warm.last /\ warm' = [warm EXCEPT !.last = url]
    /\ UNCHANGED <<open, heard, span, menu, runs, folder, drags, handed, use>>

WarmLane(ok) ==
    /\ Uses("lane") /\ use.desktop /\ Loops /\ StemUrl(AudioFormat) \notin warm.lanes
    /\ warm' = IF ok THEN [warm EXCEPT !.lanes = @ \cup {StemUrl(AudioFormat)}] ELSE warm
    /\ UNCHANGED <<open, heard, span, menu, runs, folder, drags, handed, use>>

ExportNext ==
    \/ OpenPanel \/ ExportClick \/ DragRegion \/ DragLane \/ PrewarmMix
    \/ \E t \in Songs : LoadSong(t)
    \/ \E m \in Mixes : MoveFader(m)
    \/ \E n \in 1..2, f \in 0..1 : SetSpan(n, f)
    \/ \E f \in {"wav", "mp4"} : SetFormat(f)
    \/ \E w \in {"mix", "region", "stems"} : RunExport(w)
    \/ \E r \in runs : PickDestination(r) \/ ExportEnds(r) \/ ExportBackstop(r)
    \/ \E u \in drags, ok \in BOOLEAN : DragWritten(u, ok)
    \/ \E ok \in BOOLEAN : WarmLane(ok)

ExportSpec == ExportInit /\ [][ExportNext]_exportVars

----------------------------------------------------------------------------
(* What is expected.                                                       *)

ExportTypeOK ==
    /\ open \in Songs /\ heard.mix \in Mixes
    /\ \A r \in runs : r.token <= menu.token /\ r.stage \in {"picking", "moving", "flash"}
    /\ menu.shut => menu.busy

(* The menu says it exports while the latest file is written, and comes    *)
(* back whole once every export is over, whatever order they end in.       *)
MenuIsTrue ==
    /\ runs = {} => ~menu.busy /\ ~menu.picking /\ ~menu.shut
    /\ \A r \in runs : r.token = menu.token /\ r.stage = "moving" /\ ~r.late => menu.busy

(* "Two different loops of one song sharing a name would mean the second   *)
(* drag silently handed over the first one's audio" (_regionDragFilename): *)
(* what is handed over is the song's, the lane's or the mix's, and of the  *)
(* loop dragged, to a tenth of a second.                                   *)
DraggedIsTheLoop ==
    handed.got # Nothing =>
        /\ handed.got.song = handed.asked.song /\ handed.got.span.tenths = handed.asked.span.tenths
        /\ handed.got.mix = "stem" <=> handed.asked.mix = "stem"

(* The menu and the drags are true to what was exported.                   *)
ExportIsTrue == MenuIsTrue /\ DraggedIsTheLoop
=============================================================================

------------------------------ MODULE LyricsTiming ------------------------------
(***************************************************************************)
(* Timing the lines of the lyrics shown: Sync lines with its history, the  *)
(* lane of markers over the waveform, the Align offset, and the server's   *)
(* fits to the vocals, which answer late.  The lyrics are the server's.    *)
(***************************************************************************)
EXTENDS Integers, Sequences, SequencesExt

CONSTANTS
    Verses,       \* tracks with synced lyrics
    TrackEnd,     \* max: the length of a track, in gaps between lines
    TimingScenes  \* set of scenes: the timings there are, what the user does

(* Lines are known by the times they start at; as parseLrc() gives them.   *)
Ascending(times) == \A i, j \in DOMAIN times : i < j => times[i] <= times[j]
Parsed(times) == times \in Seq(Nat) /\ Ascending(times)

ASSUME TimingAssumption ==
    /\ TrackEnd \in Nat \ {0} /\ Verses # {}
    /\ \A s \in TimingScenes :
         /\ s \in [acts : SUBSET {"sync", "open", "select", "tap", "here", "nudge", "drag", "undo", "ripple",
                                 "reset", "align", "detect", "retime"},
                  gestures : Nat, base : Seq(Nat), aligned : Seq(Nat), fit : Seq(Nat), detected : Int]
         /\ Parsed(s.base) /\ Parsed(s.aligned) /\ Parsed(s.fit)

VARIABLES
    slate,    \* what the tab shows: the track, its entry and its lines
    session,  \* SyncSession: the lines being timed
    lane,     \* the lyrics lane: the times drawn and the marker held
    keptTiming,  \* per track, lyrics.json on the server
    lostTiming,  \* per track, the user's timing last given up, none having landed since
    userSaves,   \* userSaveChain: the user's timings on their way
    offsetSaves, \* offsets on their way, in no order
    retimes,  \* runs of retimeFromVocals()
    detects,  \* runs of autoDetect()
    timingScene \* the scene, and what is left of its gestures

timingVars == <<slate, session, lane, keptTiming, lostTiming, userSaves, offsetSaves,
                retimes, detects, timingScene>>

MIN_GAP == 1
NoTiming == <<>>
NoSession == [lines |-> NoTiming]
NoLane == [times |-> NoTiming, drag |-> 0]
NoUserSave == [timing |-> <<-1>>]
NoOffset == TrackEnd + 1

TimingScene(acts, gestures, base, aligned, fit, fixed) ==
    [acts |-> acts, gestures |-> gestures, base |-> base, aligned |-> aligned,
     fit |-> fit, detected |-> fixed]

Lasts(what) == what \in timingScene.acts /\ timingScene.gestures > 0
Gestured == timingScene' = [timingScene EXCEPT !.gestures = @ - 1]

----------------------------------------------------------------------------
(* Lines.                                                                  *)

Larger(a, b) == IF a > b THEN a ELSE b
Smaller(a, b) == IF a < b THEN a ELSE b
WithinTrack(t) == Smaller(TrackEnd, Larger(0, t))

EarliestFirst(times) ==
    LET Places == 1..Len(times)
        order == CHOOSE p \in [Places -> Places] :
                    /\ \A i \in Places : \E j \in Places : p[j] = i
                    /\ \A i, j \in Places : i < j => times[p[i]] <= times[p[j]]
    IN [i \in Places |-> times[order[i]]]

(* serializeLrc() and parseLrc() of it: no stamp below zero.               *)
SavedLrc(lines) == EarliestFirst([i \in DOMAIN lines |-> Larger(0, lines[i])])

ShiftLines(lines, offset) == [i \in DOMAIN lines |-> lines[i] + offset]

(* timingOf(): the user's timing, else the server's, else the lyrics' own. *)
TimingOf(entry, base) ==
    IF entry.user # NoTiming THEN [kind |-> "user", lines |-> entry.user]
    ELSE IF entry.aligned # NoTiming THEN [kind |-> "aligned", lines |-> entry.aligned]
    ELSE [kind |-> "offset", lines |-> ShiftLines(base, entry.offset)]

(* Held between its neighbours, or where it was when they are too close.   *)
Clamped(lines, i, t) ==
    LET lo == IF i > 1 THEN lines[i - 1] + MIN_GAP ELSE 0
        hi == IF i < Len(lines) THEN lines[i + 1] - MIN_GAP ELSE TrackEnd
    IN [lines EXCEPT ![i] = IF lo > hi THEN lines[i] ELSE Larger(lo, Smaller(hi, t))]

(* "ripple": the lines after it as far as the first one set this session.  *)
Carried(lines, i, t, fixed) ==
    [j \in DOMAIN lines |->
        IF j = i THEN t
        ELSE IF j > i /\ (i + 1)..j \cap fixed = {} THEN WithinTrack(lines[j] + t - lines[i])
        ELSE lines[j]]

(* A slip of the code: only the next line gives way.                       *)
PushedNext(lines, i) ==
    [j \in DOMAIN lines |-> IF j = i + 1 THEN Larger(lines[j], lines[i] + MIN_GAP) ELSE lines[j]]

Pushed(lines, i) ==
    LET after[k \in 0..(Len(lines) - i)] ==
            IF k = 0 THEN lines[i] ELSE Larger(lines[i + k], after[k - 1] + MIN_GAP)
    IN [j \in DOMAIN lines |-> IF j > i THEN after[j - i] ELSE lines[j]]

(* Earlier lines, as far as one that has room; none below zero.            *)
PulledBack(lines, i) ==
    LET before[k \in 0..(i - 1)] ==
            IF k = 0 THEN [at |-> lines[i], room |-> FALSE]
            ELSE IF before[k - 1].room \/ lines[i - k] <= before[k - 1].at - MIN_GAP
                 THEN [at |-> lines[i - k], room |-> TRUE]
                 ELSE [at |-> Larger(0, before[k - 1].at - MIN_GAP), room |-> FALSE]
    IN [j \in DOMAIN lines |-> IF j < i THEN before[i - j].at ELSE lines[j]]

ApplyTime(lines, i, time, mode, fixed) ==
    LET t == WithinTrack(time)
    IN IF i \notin DOMAIN lines THEN lines
       ELSE IF mode = "clamp" THEN Clamped(lines, i, t)
       ELSE PulledBack(Pushed(IF mode = "ripple" THEN Carried(lines, i, t, fixed)
                          ELSE [lines EXCEPT ![i] = t], i), i)

----------------------------------------------------------------------------
(* SyncSession.                                                            *)

TimingSnapshot(s) == [lines |-> s.lines, cursor |-> s.cursor, touched |-> s.touched, kind |-> s.kind]
HISTORY_MAX == 300
Remembered(s) == [s EXCEPT !.undo = Append(@, TimingSnapshot(s)), !.redo = <<>>]
Record(s) == LET r == Remembered(s)
             IN IF Len(r.undo) > HISTORY_MAX THEN [r EXCEPT !.undo = Tail(@)] ELSE r
TimingRestored(s, snap) == [s EXCEPT !.lines = snap.lines, !.cursor = snap.cursor,
                               !.touched = snap.touched, !.kind = snap.kind]

NewSession(lines, kind) ==
    [lines |-> lines, cursor |-> 1, touched |-> {}, kind |-> kind, ripple |-> kind = "offset",
     undo |-> <<>>, redo |-> <<>>]

SetTime(s, i, time, mode) ==
    LET next == ApplyTime(s.lines, i, time, mode, s.touched)
    IN IF next = s.lines THEN s
       ELSE [Record(s) EXCEPT !.lines = next, !.touched = @ \cup {i}, !.kind = "user"]

(* A tap that changes nothing is a step for undo too, and moves on.        *)
Tapped(s, time) ==
    LET set == SetTime(s, s.cursor, time, IF s.ripple THEN "ripple" ELSE "push")
    IN [(IF set = s THEN [Remembered(s) EXCEPT !.touched = @ \cup {s.cursor}] ELSE set)
            EXCEPT !.cursor = @ + 1, !.kind = "user"]

Replaced(s, lines, kind) ==
    [Record(s) EXCEPT !.lines = lines, !.touched = {}, !.kind = kind,
                      !.cursor = Smaller(@, Len(lines) + 1)]

TimingUndone(s) == [TimingRestored(s, Last(s.undo)) EXCEPT !.undo = Front(s.undo),
                                               !.redo = Append(s.redo, TimingSnapshot(s))]
TimingRedone(s) == [TimingRestored(s, Last(s.redo)) EXCEPT !.redo = Front(s.redo),
                                               !.undo = Append(s.undo, TimingSnapshot(s))]
AllSet(s) == s.cursor > Len(s.lines)

----------------------------------------------------------------------------
(* The tab.  of, offsetOf: whose lines and whose offset it shows; busy,    *)
(* asking: the panels' buttons wait for a fit; wait, offsetWait: what is   *)
(* not yet sent.                                                           *)

ShowTiming(p, t, entry) ==
    LET timing == TimingOf(entry, timingScene.base)
    IN [p EXCEPT !.track = t, !.of = t, !.offsetOf = t, !.entry = entry, !.lines = timing.lines,
                 !.kind = timing.kind, !.align = FALSE, !.busy = FALSE, !.asking = FALSE,
                 !.wait = NoUserSave, !.offsetWait = NoOffset,
                 !.retimeToken = @ + (IF session = NoSession THEN 0 ELSE 1),
                 !.alignToken = @ + 1]

TimingInit ==
    /\ timingScene \in TimingScenes
    /\ keptTiming = [t \in Verses |-> [user |-> NoTiming, aligned |-> timingScene.aligned,
                                       offset |-> 0, fitting |-> "idle"]]
    /\ lostTiming = [t \in Verses |-> NoUserSave]
    /\ session = NoSession /\ lane = NoLane
    /\ userSaves = <<>> /\ offsetSaves = {} /\ retimes = {} /\ detects = {}
    /\ LET t == CHOOSE t \in Verses : TRUE
           timing == TimingOf(keptTiming[t], timingScene.base)
       IN slate = [track |-> t, of |-> t, offsetOf |-> t, lines |-> timing.lines, kind |-> timing.kind,
                   entry |-> keptTiming[t], align |-> FALSE, busy |-> FALSE, asking |-> FALSE,
                   wait |-> NoUserSave, offsetWait |-> NoOffset, retimeToken |-> 0, alignToken |-> 0]

FlushUser(p, out) ==
    IF p.wait = NoUserSave THEN out
    ELSE Append(out, [track |-> p.track, timing |-> p.wait.timing])
FlushOffset(p, out) ==
    IF p.offsetWait = NoOffset THEN out
    ELSE out \cup {[track |-> p.track, offset |-> p.offsetWait]}

(* Another track, its lyrics shown, as the server keeps them.  What a load *)
(* sees of a save under way is told by LyricsPanel: here there is none.    *)
OpenVerse(t) ==
    /\ Lasts("open") /\ Gestured
    /\ t # slate.track /\ userSaves = <<>> /\ offsetSaves = {}
    /\ userSaves' = FlushUser(slate, userSaves) /\ offsetSaves' = FlushOffset(slate, offsetSaves)
    /\ slate' = ShowTiming(slate, t, keptTiming[t])
    /\ session' = NoSession /\ lane' = NoLane
    /\ lostTiming' = [lostTiming EXCEPT ![t] = NoUserSave]
    /\ UNCHANGED <<keptTiming, retimes, detects>>

(* syncChanged(): the lines shown everywhere, and kept if the user's; the  *)
(* user's timing is dropped if they are not.                               *)
SyncChanged(s) ==
    [slate EXCEPT !.lines = s.lines, !.kind = s.kind,
        !.wait = IF s.kind = "user" THEN [timing |-> SavedLrc(s.lines)]
                 ELSE IF slate.entry.user # NoTiming THEN [timing |-> NoTiming] ELSE @,
        !.entry.user = IF s.kind = "user" THEN SavedLrc(s.lines) ELSE NoTiming]

Changes(s) ==
    /\ session' = s /\ slate' = SyncChanged(s)
    /\ lane' = [lane EXCEPT !.times = s.lines]

OpenSync ==
    /\ Lasts("sync") /\ Gestured /\ session = NoSession
    /\ session' = NewSession(slate.lines, slate.kind)
    /\ slate' = [slate EXCEPT !.align = FALSE, !.busy = FALSE]
    /\ lane' = [times |-> slate.lines, drag |-> 0]
    /\ UNCHANGED <<keptTiming, lostTiming, userSaves, offsetSaves, retimes, detects>>

(* The panel of Sync lines closed, its timing sent, its re-time let go.    *)
SyncClosed == [slate EXCEPT !.wait = NoUserSave, !.retimeToken = @ + 1]

CloseSyncLines ==
    /\ Lasts("sync") /\ Gestured /\ session # NoSession
    /\ userSaves' = FlushUser(slate, userSaves) /\ slate' = SyncClosed
    /\ session' = NoSession /\ lane' = NoLane
    /\ UNCHANGED <<keptTiming, lostTiming, offsetSaves, retimes, detects>>

TimingEdits == session # NoSession /\ Gestured
         /\ UNCHANGED <<keptTiming, lostTiming, userSaves, offsetSaves, retimes, detects>>

(* A line clicked, or the arrows.                                          *)
SelectLine(i) ==
    /\ Lasts("select") /\ TimingEdits /\ i \in DOMAIN session.lines
    /\ session' = [session EXCEPT !.cursor = i] /\ UNCHANGED <<slate, lane>>

(* At the playhead, or where the singing near it starts.                   *)
TapNow(time) == Lasts("tap") /\ TimingEdits /\ ~AllSet(session) /\ Changes(Tapped(session, time))

LineToPlayhead(time) ==
    /\ Lasts("here") /\ TimingEdits /\ ~AllSet(session)
    /\ LET s == SetTime(session, session.cursor, time, "push")
       IN s # session /\ Changes(s)

MoveMode == IF session.ripple THEN "ripple" ELSE "clamp"

NudgeLine(step) ==
    /\ Lasts("nudge") /\ TimingEdits /\ ~AllSet(session)
    /\ LET s == SetTime(session, session.cursor, session.lines[session.cursor] + step, MoveMode)
       IN s # session /\ Changes(s)

(* A marker held, moved and let go, or taken away from the pointer.        *)
GrabMark(i) ==
    /\ Lasts("drag") /\ TimingEdits /\ i \in DOMAIN session.lines /\ lane.drag = 0
    /\ lane' = [lane EXCEPT !.drag = i] /\ session' = [session EXCEPT !.cursor = i]
    /\ UNCHANGED slate

DragMark(time) ==
    /\ lane.drag # 0
    /\ lane' = [lane EXCEPT !.times = ApplyTime(session.lines, lane.drag, time, MoveMode, session.touched)]
    /\ UNCHANGED <<slate, session, keptTiming, lostTiming, userSaves, offsetSaves, retimes, detects, timingScene>>

DropMark(time) ==
    /\ lane.drag # 0
    /\ LET s == SetTime(session, lane.drag, time, MoveMode)
       IN session' = s /\ slate' = IF s = session THEN slate ELSE SyncChanged(s)
    /\ lane' = [times |-> session'.lines, drag |-> 0]
    /\ UNCHANGED <<keptTiming, lostTiming, userSaves, offsetSaves, retimes, detects, timingScene>>

CancelDrag ==
    /\ lane.drag # 0
    /\ lane' = [times |-> session.lines, drag |-> 0]
    /\ UNCHANGED <<slate, session, keptTiming, lostTiming, userSaves, offsetSaves, retimes, detects, timingScene>>

UndoSync == Lasts("undo") /\ TimingEdits /\ session.undo # <<>> /\ Changes(TimingUndone(session))
RedoSync == Lasts("undo") /\ TimingEdits /\ session.redo # <<>> /\ Changes(TimingRedone(session))

ToggleRipple ==
    /\ Lasts("ripple") /\ TimingEdits
    /\ session' = [session EXCEPT !.ripple = ~@] /\ UNCHANGED <<slate, lane>>

ResetToDetected ==
    /\ Lasts("reset") /\ TimingEdits
    /\ LET detected == TimingOf([slate.entry EXCEPT !.user = NoTiming], timingScene.base)
       IN Changes(Replaced(session, detected.lines, detected.kind))

ResetToOriginal ==
    /\ Lasts("reset") /\ TimingEdits
    /\ Changes(Replaced(session, timingScene.base, "user"))

----------------------------------------------------------------------------
(* The saves.                                                              *)

UserSaveDelayOver ==
    /\ slate.wait # NoUserSave
    /\ userSaves' = FlushUser(slate, userSaves) /\ slate' = [slate EXCEPT !.wait = NoUserSave]
    /\ UNCHANGED <<session, lane, keptTiming, lostTiming, offsetSaves, retimes, detects, timingScene>>

(* A save that fails is dropped: the page says so and goes on.             *)
UserTimingLands ==
    /\ userSaves # <<>> /\ userSaves' = Tail(userSaves)
    /\ LET save == Head(userSaves)
       IN \/ /\ keptTiming' = [keptTiming EXCEPT ![save.track].user = save.timing]
             /\ lostTiming' = [lostTiming EXCEPT ![save.track] = NoUserSave]
          \/ /\ lostTiming' = [lostTiming EXCEPT ![save.track] = [timing |-> save.timing]]
             /\ UNCHANGED keptTiming
    /\ UNCHANGED <<slate, session, lane, offsetSaves, retimes, detects, timingScene>>

OffsetDelayOver ==
    /\ slate.offsetWait # NoOffset
    /\ userSaves' = FlushUser(slate, userSaves) /\ offsetSaves' = FlushOffset(slate, offsetSaves)
    /\ slate' = [slate EXCEPT !.offsetWait = NoOffset, !.wait = NoUserSave]
    /\ UNCHANGED <<session, lane, keptTiming, lostTiming, retimes, detects, timingScene>>

OffsetLandsOf(save) ==
    /\ offsetSaves' = offsetSaves \ {save}
    /\ \/ keptTiming' = [keptTiming EXCEPT ![save.track].offset = save.offset]
       \/ UNCHANGED keptTiming
    /\ UNCHANGED <<slate, session, lane, lostTiming, userSaves, retimes, detects, timingScene>>

----------------------------------------------------------------------------
(* Align: the lyrics' own timing, moved as a whole.                        *)

OpenAlign ==
    /\ Lasts("align") /\ Gestured /\ ~slate.align
    /\ userSaves' = FlushUser(slate, userSaves)
    /\ slate' = [(IF session = NoSession THEN slate ELSE SyncClosed)
                    EXCEPT !.align = TRUE, !.asking = FALSE]
    /\ session' = NoSession /\ lane' = NoLane
    /\ UNCHANGED <<keptTiming, lostTiming, offsetSaves, retimes, detects>>

CloseAlign ==
    /\ Lasts("align") /\ Gestured /\ slate.align
    /\ slate' = [slate EXCEPT !.align = FALSE]
    /\ UNCHANGED <<session, lane, keptTiming, lostTiming, userSaves, offsetSaves, retimes, detects>>

AppliedOffset(offset, of, save) ==
    [slate EXCEPT !.entry.offset = offset, !.offsetOf = of,
        !.lines = IF slate.kind = "offset" THEN ShiftLines(timingScene.base, offset) ELSE @,
        !.offsetWait = IF save THEN offset ELSE @]

(* Start lyrics here, a nudge, Reset: the offset they come to.             *)
ApplyOffset(offset) ==
    /\ Lasts("align") /\ Gestured /\ slate.align /\ slate.kind = "offset"
    /\ slate' = AppliedOffset(offset, slate.track, TRUE)
    /\ UNCHANGED <<session, lane, keptTiming, lostTiming, userSaves, offsetSaves, retimes, detects>>

AutoDetect ==
    /\ Lasts("detect") /\ Gestured
    /\ slate.align /\ slate.kind = "offset" /\ ~slate.asking
    /\ offsetSaves' = FlushOffset(slate, offsetSaves)
    /\ slate' = [slate EXCEPT !.offsetWait = NoOffset, !.alignToken = @ + 1, !.asking = TRUE]
    /\ detects' = detects \cup {[track |-> slate.track, token |-> slate.alignToken + 1]}
    /\ UNCHANGED <<session, lane, keptTiming, lostTiming, userSaves, retimes>>

(* The server answers, and keeps an offset it is sure of; the page applies *)
(* it if it still shows the track with the panel open.                     *)
TimingDetected(d, sure) ==
    /\ detects' = detects \ {d}
    /\ keptTiming' = IF sure THEN [keptTiming EXCEPT ![d.track].offset = timingScene.detected]
                     ELSE keptTiming
    /\ slate' = IF d.token # slate.alignToken \/ d.track # slate.track \/ ~slate.align THEN slate
                ELSE IF sure
                     THEN [AppliedOffset(timingScene.detected, d.track, FALSE) EXCEPT !.asking = FALSE]
                     ELSE [slate EXCEPT !.asking = FALSE]
    /\ UNCHANGED <<session, lane, lostTiming, userSaves, offsetSaves, retimes, timingScene>>

----------------------------------------------------------------------------
(* Re-time from vocals.                                                    *)

RetimeFromVocals ==
    /\ Lasts("retime") /\ Gestured /\ session # NoSession /\ ~slate.busy
    /\ slate' = [slate EXCEPT !.busy = TRUE, !.retimeToken = @ + 1]
    /\ retimes' = retimes \cup {[track |-> slate.track, token |-> slate.retimeToken + 1, stage |-> "post"]}
    /\ UNCHANGED <<session, lane, keptTiming, lostTiming, userSaves, offsetSaves, detects>>

Live(r) == r.token = slate.retimeToken /\ r.track = slate.track /\ session # NoSession

EndsRun(r) ==
    /\ retimes' = retimes \ {r}
    /\ slate' = IF Live(r) THEN [slate EXCEPT !.busy = FALSE] ELSE slate
    /\ UNCHANGED <<session, lane>>

RetimePosted(r) ==
    /\ r.stage = "post"
    /\ \/ EndsRun(r) /\ UNCHANGED keptTiming
       \/ /\ keptTiming' = [keptTiming EXCEPT ![r.track].fitting = "running"]
          /\ retimes' = (retimes \ {r}) \cup {[r EXCEPT !.stage = "poll"]}
          /\ UNCHANGED <<slate, session, lane>>
    /\ UNCHANGED <<lostTiming, userSaves, offsetSaves, detects, timingScene>>

ServerFits(t, outcome) ==
    /\ keptTiming[t].fitting = "running"
    /\ keptTiming' = [keptTiming EXCEPT ![t].fitting = outcome,
                        ![t].aligned = IF outcome = "done" THEN timingScene.fit ELSE @]
    /\ UNCHANGED <<slate, session, lane, lostTiming, userSaves, offsetSaves, retimes, detects, timingScene>>

(* An answer to "how is it getting on": done is followed by a read of the  *)
(* server's lyrics, anything else ends the run.                            *)
RetimeAnswers(r) ==
    /\ r.stage = "poll" /\ keptTiming[r.track].fitting # "running"
    /\ IF Live(r) /\ keptTiming[r.track].fitting = "done"
       THEN retimes' = (retimes \ {r}) \cup {[r EXCEPT !.stage = "read"]}
            /\ UNCHANGED <<slate, session, lane>>
       ELSE EndsRun(r)
    /\ UNCHANGED <<keptTiming, lostTiming, userSaves, offsetSaves, detects, timingScene>>

RetimeRead(r) ==
    /\ r.stage = "read"
    /\ IF ~Live(r) \/ keptTiming[r.track].aligned = NoTiming THEN EndsRun(r)
       ELSE LET aligned == keptTiming[r.track].aligned
                s == Replaced(session, aligned, "aligned")
            IN /\ session' = s /\ lane' = [lane EXCEPT !.times = aligned]
               /\ slate' = [SyncChanged(s) EXCEPT !.entry.aligned = aligned, !.of = r.track, !.busy = FALSE]
               /\ retimes' = retimes \ {r}
    /\ UNCHANGED <<keptTiming, lostTiming, userSaves, offsetSaves, detects, timingScene>>

TimingNext ==
    \/ \E t \in Verses : OpenVerse(t)
    \/ OpenSync \/ CloseSyncLines \/ CancelDrag \/ UndoSync \/ RedoSync \/ ToggleRipple
    \/ ResetToDetected \/ ResetToOriginal \/ UserSaveDelayOver \/ UserTimingLands
    \/ OffsetDelayOver \/ OpenAlign \/ CloseAlign \/ AutoDetect \/ RetimeFromVocals
    \/ \E i \in DOMAIN slate.lines : SelectLine(i) \/ GrabMark(i)
    \/ \E time \in 0..TrackEnd : TapNow(time) \/ LineToPlayhead(time) \/ DragMark(time) \/ DropMark(time)
    \/ \E step \in {-1, 1} : NudgeLine(step)
    \/ \E offset \in {-1, 0, 1} : ApplyOffset(offset)
    \/ \E save \in offsetSaves : OffsetLandsOf(save)
    \/ \E d \in detects, sure \in BOOLEAN : TimingDetected(d, sure)
    \/ \E r \in retimes : RetimePosted(r) \/ RetimeAnswers(r) \/ RetimeRead(r)
    \/ \E t \in Verses, outcome \in {"done", "unsure", "failed"} : ServerFits(t, outcome)

TimingSpec == TimingInit /\ [][TimingNext]_timingVars

----------------------------------------------------------------------------
(* What is expected.                                                       *)

(* "Lines never cross", whatever is tapped, dragged, carried along, undone *)
(* or fitted again: the line sung is found by looking through them.        *)
LinesNeverCross ==
    Ascending(slate.lines) /\ Ascending(lane.times)

(* The lines on screen, the lane and the session agree, but for a marker   *)
(* still held.                                                             *)
OneTiming ==
    session # NoSession => /\ slate.lines = session.lines /\ slate.kind = session.kind
                           /\ lane.drag = 0 => lane.times = session.lines

(* With nothing on its way, the server keeps the user's timing that is     *)
(* shown, and none when other timing is: undone, reset or fitted again.    *)
(* If not, what is shown is the very timing whose save failed last.        *)
UserTimingIsKept ==
    session # NoSession /\ slate.wait = NoUserSave /\ userSaves = <<>> =>
        LET shown == IF session.kind = "user" THEN SavedLrc(session.lines) ELSE NoTiming
        IN keptTiming[slate.track].user = shown \/ lostTiming[slate.track] = [timing |-> shown]

(* Timing fitted to the vocals, and an offset detected, are of the track   *)
(* they are shown on.                                                      *)
FitsAreTheTracks == slate.of = slate.track /\ slate.offsetOf = slate.track

LyricsKeepTime == LinesNeverCross /\ OneTiming /\ UserTimingIsKept /\ FitsAreTheTracks
=============================================================================

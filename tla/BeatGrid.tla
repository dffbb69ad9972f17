-------------------------------- MODULE BeatGrid --------------------------------
(***************************************************************************)
(* The beat grid editor: beats dragged, inserted and deleted under a ruler *)
(* of bar marks, with undo, and saved to the server some time after the    *)
(* last edit.  Times are counted in the smallest gap between two beats.    *)
(***************************************************************************)
EXTENDS Integers, Sequences, FiniteSets, SequencesExt, ArrayFilter

CONSTANTS
    GridTracks,   \* tracks whose grid is edited
    NoTrack,      \* no grid is open
    Duration,     \* of every track
    Pulse,        \* the beats the analysis found in a track
    PointerTimes, \* where a pointer can end, snapped to an onset or not
    GridScenes    \* set of scenes: what the user does, and how often

(* Times strictly in order.                                                *)
InOrder(times) == \A i, j \in DOMAIN times : i < j => times[i] < times[j]

(* The analysis finds beats in order, and a pointer is over the track.     *)
ASSUME GridAssumption ==
    /\ Duration \in Nat
    /\ Pulse \in Seq(0..Duration) /\ Pulse # <<>> /\ InOrder(Pulse)
    /\ PointerTimes \subseteq 0..Duration

VARIABLES
    grid,   \* the editor
    saves,  \* PATCH requests on their way
    resets, \* runs of resetBeatGrid() waiting for an answer
    saved,  \* per track, what the server keeps
    budget  \* what is left of the bounds, and the scene

gridVars == <<grid, saves, resets, saved, budget>>

(* A beat: its time, and whether the user put it there (the editor itself  *)
(* only knows the indices in "anchors").  A bar mark: the index of its     *)
(* beat and the length of the bars from there on.                          *)
Beat(t, mine) == [at |-> t, mine |-> mine]
Found(times) == [i \in DOMAIN times |-> Beat(times[i], FALSE)]
BeatTimes(beats) == [i \in DOMAIN beats |-> beats[i].at]

Closed == [track |-> NoTrack, beats |-> <<>>, bars |-> <<>>, anchors |-> {},
           undo |-> <<>>, redo |-> <<>>, dirty |-> FALSE, timer |-> FALSE, drag |-> 0]

Detected == [beats |-> Pulse, bars |-> <<[beat |-> 1, len |-> 2]>>]

(* initBeatGrid() with what GET /beats answered.                           *)
Opened(t, content) ==
    [Closed EXCEPT !.track = t, !.beats = Found(content.beats), !.bars = content.bars]

GridScene(does, edits) == [does |-> does, edits |-> edits]

GridInit ==
    /\ budget \in GridScenes
    /\ saved = [t \in GridTracks |-> Detected]
    /\ \E t \in GridTracks : grid = Opened(t, Detected)
    /\ saves = <<>> /\ resets = <<>>

Content(g) == [beats |-> BeatTimes(g.beats), bars |-> g.bars]

----------------------------------------------------------------------------
(* Edits of the grid.                                                      *)

Snapshot(g) == [beats |-> g.beats, bars |-> g.bars, anchors |-> g.anchors]
UNDO_DEPTH == 100
Remember(undo, s) ==
    LET all == Append(undo, s) IN IF Len(all) > UNDO_DEPTH THEN Tail(all) ELSE all
PushUndo(g) == [g EXCEPT !.undo = Remember(@, Snapshot(g)), !.redo = <<>>]
Commit(g) == [g EXCEPT !.dirty = TRUE, !.timer = TRUE]

Between(lo, hi, t) == LET low == IF t < hi THEN t ELSE hi IN IF low > lo THEN low ELSE lo

(* The bar marks on one of n beats.                                        *)
OnBeats(bars, n) == Filter(bars, {b \in ToSet(bars) : b.beat \in 1..n})

(* _shiftBars() and _shiftAnchors(), for the beats as they are afterwards. *)
ShiftBars(bars, at, delta, n) ==
    OnBeats([i \in DOMAIN bars |-> IF bars[i].beat >= at THEN [bars[i] EXCEPT !.beat = @ + delta]
                                   ELSE bars[i]],
            n)

ShiftAnchors(anchors, at, delta) ==
    {i \in anchors : i < at} \cup {i + delta : i \in {a \in anchors : a >= at /\ a + delta >= 1}}

(* _anchorSpan(): the anchors around a beat, or the ends of the grid.      *)
SpanStart(g, i) == CHOOSE a \in {1} \cup {x \in g.anchors : x < i} :
                     \A x \in g.anchors : x < i => x <= a
SpanEnd(g, i) == CHOOSE b \in {Len(g.beats)} \cup {x \in g.anchors : x > i} :
                     \A x \in g.anchors : x > i => b <= x

(* A slip of the code: the ripple may squeeze a beat out of its place.     *)
RippleTight(g, i, t) ==
    LET lo == SpanStart(g, i)
        hi == SpanEnd(g, i)
        goal == Between(g.beats[lo].at, g.beats[hi].at, t)
    IN [g EXCEPT !.anchors = @ \cup {i},
                 !.beats[i] = Beat(goal, TRUE)]

(* _moveBeat() in ripple mode: the beats up to the anchors on both sides   *)
(* are spread evenly again.                                                *)
Ripple(g, i, t) ==
    LET lo == SpanStart(g, i)
        hi == SpanEnd(g, i)
        goal == Between(g.beats[lo].at + (i - lo), g.beats[hi].at - (hi - i), t)
        Spread(k) == IF lo < k /\ k < i
                     THEN g.beats[lo].at + ((goal - g.beats[lo].at) * (k - lo)) \div (i - lo)
                     ELSE goal + ((g.beats[hi].at - goal) * (k - i)) \div (hi - i)
    IN [g EXCEPT !.anchors = @ \cup {i},
                 !.beats = [k \in DOMAIN @ |->
                     IF k = i THEN Beat(goal, TRUE)
                     ELSE IF lo < k /\ k < hi THEN Beat(Spread(k), FALSE)
                     ELSE @[k]]]

(* _moveBeat() of the one beat under the pointer.                          *)
Nudge(g, i, t) ==
    LET lo == IF i > 1 THEN g.beats[i - 1].at + 1 ELSE 0
        hi == IF i < Len(g.beats) THEN g.beats[i + 1].at - 1 ELSE Duration
    IN [g EXCEPT !.beats[i] = Beat(Between(lo, hi, t), TRUE), !.anchors = @ \cup {i}]

InsertBeat(g, t) ==
    LET i == 1 + Cardinality({k \in DOMAIN g.beats : g.beats[k].at < t})
    IN IF \E k \in DOMAIN g.beats : g.beats[k].at = t THEN g
       ELSE LET p == PushUndo(g)
            IN Commit([p EXCEPT !.beats = InsertAt(@, i, Beat(t, TRUE)),
                                !.bars = ShiftBars(@, i, 1, Len(g.beats) + 1),
                                !.anchors = ShiftAnchors(@, i, 1) \cup {i}])

DeleteBeat(g, i) ==
    IF Len(g.beats) <= 2 THEN g
    ELSE LET p == PushUndo(g)
         IN Commit([p EXCEPT !.beats = RemoveAt(@, i),
                             !.bars = ShiftBars(@, i, -1, Len(g.beats) - 1),
                             !.anchors = ShiftAnchors(@, i, -1) \ {i}])

(* barLengthAt(): of the last mark at or before a beat.                    *)
MarksUpTo(bars, i) == {k \in DOMAIN bars : bars[k].beat <= i}
BarLengthAt(bars, i) ==
    IF MarksUpTo(bars, i) = {} THEN 4
    ELSE bars[CHOOSE k \in MarksUpTo(bars, i) : \A j \in MarksUpTo(bars, i) : j <= k].len

AddMark(bars, i, len) ==
    InsertAt(bars, 1 + Cardinality(MarksUpTo(bars, i)), [beat |-> i, len |-> len])

ToggleBar(g, i) ==
    LET marks == {k \in DOMAIN g.bars : g.bars[k].beat = i}
        p == PushUndo(g)
    IN Commit([p EXCEPT !.bars =
                 IF marks = {} THEN AddMark(@, i, BarLengthAt(@, i))
                 ELSE RemoveAt(@, CHOOSE k \in marks : \A j \in marks : k <= j)])

(* setBarLengthAt(0, n), the only place the toolbar calls it for.          *)
SetBarLength(g, n) ==
    LET p == PushUndo(g)
        marks == MarksUpTo(g.bars, 1)
    IN Commit([p EXCEPT !.bars =
                 IF marks = {} THEN AddMark(@, 1, n)
                 ELSE [@ EXCEPT ![CHOOSE k \in marks : \A j \in marks : k <= j].len = n]])

Restored(g, s) == [g EXCEPT !.beats = s.beats, !.bars = s.bars, !.anchors = s.anchors]

Undone(g) ==
    IF g.undo = <<>> THEN g
    ELSE Commit(Restored([g EXCEPT !.redo = Append(@, Snapshot(g)), !.undo = Front(@)],
                         Last(g.undo)))

Redone(g) ==
    IF g.redo = <<>> THEN g
    ELSE Commit(Restored([g EXCEPT !.undo = Append(@, Snapshot(g)), !.redo = Front(@)],
                         Last(g.redo)))

----------------------------------------------------------------------------
(* Gestures.                                                               *)

GridGesture(what) == what \in budget.does /\ budget.edits > 0 /\ grid.track # NoTrack
Spend == budget' = [budget EXCEPT !.edits = @ - 1]

Edits(what, g) ==
    /\ GridGesture(what) /\ g # grid /\ grid' = g
    /\ Spend /\ UNCHANGED <<saves, resets, saved>>

Insert(t) == Edits("insert", InsertBeat(grid, t))
Delete(i) == Edits("delete", DeleteBeat(grid, i))
Toggle(i) == Edits("bar", ToggleBar(grid, i))
BarLength(n) == Edits("bar", SetBarLength(grid, n))
Undo == Edits("undo", Undone(grid))
Redo == Edits("undo", Redone(grid))
Grab(i) == grid.drag = 0 /\ Edits("move", [PushUndo(grid) EXCEPT !.drag = i])

(* The pointer moves with a beat in hand; an undo from the keyboard may    *)
(* have taken that beat away meanwhile.                                    *)
Drag(t) ==
    /\ grid.drag \in DOMAIN grid.beats
    /\ \E moved \in {Ripple(grid, grid.drag, t), Nudge(grid, grid.drag, t)} : grid' = moved
    /\ UNCHANGED <<saves, resets, saved, budget>>

Drop ==
    /\ grid.drag # 0
    /\ grid' = Commit([grid EXCEPT !.drag = 0])
    /\ UNCHANGED <<saves, resets, saved, budget>>

(* _save() as far as its await: track and grid are read together.          *)
SaveOf(g) == IF g.dirty THEN <<[track |-> g.track, content |-> Content(g)]>> ELSE <<>>
FlushOf(g) == IF g.timer THEN SaveOf(g) ELSE <<>>

(* The debounce runs out.                                                  *)
SaveTimer ==
    /\ grid.timer
    /\ saves' = saves \o SaveOf(grid)
    /\ grid' = [grid EXCEPT !.timer = FALSE]
    /\ UNCHANGED <<resets, saved, budget>>

(* A PATCH reaches the server and is answered.                             *)
SaveAnswered(i) ==
    /\ saved' = [saved EXCEPT ![saves[i].track] = saves[i].content]
    /\ grid' = [grid EXCEPT !.dirty = FALSE]
    /\ saves' = RemoveAt(saves, i)
    /\ UNCHANGED <<resets, budget>>

(* It fails: nothing tries again until the next edit.                      *)
SaveLost(i) ==
    /\ "lose" \in budget.does
    /\ saves' = RemoveAt(saves, i)
    /\ UNCHANGED <<grid, resets, saved, budget>>

(* Done, Escape or the click turned off: a beat in hand is let go of.      *)
CloseEditor ==
    /\ GridGesture("close") /\ Spend
    /\ saves' = saves \o FlushOf(grid)
    /\ grid' = [grid EXCEPT !.drag = 0, !.timer = FALSE]
    /\ UNCHANGED <<resets, saved>>

(* The next track's grid: destroyBeatGrid() and initBeatGrid().            *)
SwitchTrack(t) ==
    /\ GridGesture("switch") /\ t # grid.track /\ Spend
    /\ saves' = saves \o FlushOf(grid)
    /\ grid' = Opened(t, saved[t])
    /\ UNCHANGED <<resets, saved>>

(* resetBeatGrid(): DELETE, then GET of the track that is open by then,    *)
(* then the answer put into the editor.                                    *)
ResetGrid ==
    /\ GridGesture("reset") /\ Spend
    /\ resets' = Append(resets, [at |-> "delete", track |-> grid.track, content |-> Detected])
    /\ UNCHANGED <<grid, saves, saved>>

ResetDeletes(i) ==
    /\ resets[i].at = "delete"
    /\ saved' = [saved EXCEPT ![resets[i].track] = Detected]
    /\ resets' = [resets EXCEPT ![i].at = "get", ![i].track = grid.track]
    /\ UNCHANGED <<grid, saves, budget>>

ResetReads(i) ==
    /\ resets[i].at = "get"
    /\ resets' = [resets EXCEPT ![i].at = "answer", ![i].content = saved[resets[i].track]]
    /\ UNCHANGED <<grid, saves, saved, budget>>

ResetApplies(i) ==
    /\ resets[i].at = "answer"
    /\ resets' = RemoveAt(resets, i)
    /\ grid' = [PushUndo(grid) EXCEPT !.beats = Found(resets[i].content.beats),
                                      !.bars = resets[i].content.bars,
                                      !.anchors = {}, !.dirty = FALSE]
    /\ UNCHANGED <<saves, saved, budget>>

GridNext ==
    \/ \E t \in PointerTimes : Insert(t) \/ Drag(t)
    \/ \E i \in DOMAIN grid.beats : Delete(i) \/ Toggle(i) \/ Grab(i)
    \/ \E n \in {1, 3} : BarLength(n)
    \/ Undo \/ Redo \/ Drop \/ SaveTimer \/ CloseEditor \/ ResetGrid
    \/ \E t \in GridTracks : SwitchTrack(t)
    \/ \E i \in DOMAIN saves : SaveAnswered(i) \/ SaveLost(i)
    \/ \E i \in DOMAIN resets : ResetDeletes(i) \/ ResetReads(i) \/ ResetApplies(i)

GridSpec == GridInit /\ [][GridNext]_gridVars

----------------------------------------------------------------------------
(* What is expected.                                                       *)

BeatsOK(beats) == \A i \in DOMAIN beats : beats[i].at \in 0..Duration /\ beats[i].mine \in BOOLEAN
GridTypeOK ==
    /\ grid.track \in GridTracks /\ BeatsOK(grid.beats)
    /\ grid.anchors \in SUBSET Nat /\ grid.drag \in Nat
    /\ grid.dirty \in BOOLEAN /\ grid.timer \in BOOLEAN
    /\ \A i \in DOMAIN saves : saves[i].track \in GridTracks
    /\ \A i \in DOMAIN resets : resets[i].at \in {"delete", "get", "answer"}

(* Whatever is dragged, rippled, inserted, deleted, undone or reset, with  *)
(* a beat in hand or not, the beats stay strictly in order within the      *)
(* track and the bar marks in order on beats that exist: the click walks   *)
(* both with one cursor, and the server refuses anything else.             *)
MarksInOrder(bars, n) ==
    /\ \A i \in DOMAIN bars : bars[i].beat \in 1..n
    /\ \A i, j \in DOMAIN bars : i < j => bars[i].beat <= bars[j].beat
Sound(content) == InOrder(content.beats) /\ MarksInOrder(content.bars, Len(content.beats))

GridIsInOrder ==
    /\ Sound(Content(grid))
    /\ \A t \in GridTracks : Sound(saved[t])
    /\ \A i \in DOMAIN grid.undo : Sound(Content(grid.undo[i]))
    /\ \A i \in DOMAIN grid.redo : Sound(Content(grid.redo[i]))
=============================================================================

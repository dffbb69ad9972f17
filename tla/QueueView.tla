-------------------------------- MODULE QueueView --------------------------------
(***************************************************************************)
(* The queue view of the sidebar: rows drawn from the latest snapshot of   *)
(* the import queue, patched in place while the same jobs stay listed,     *)
(* dragged and pressed by the user while the queue moves on the server.    *)
(***************************************************************************)
EXTENDS Integers, SequencesExt

CONSTANTS
    QueueJobs,    \* imports of the queue
    NoQueueJob,   \* not one of them
    QueueScenes   \* set of scenes: the queue at first, what the user does

ASSUME QueueViewAssumption ==
    /\ NoQueueJob \notin QueueJobs
    /\ QueueScenes \subseteq [acts : SUBSET {"open", "drag", "top", "cancel", "start"},
                              gestures : Nat, queued : Seq(QueueJobs), paused : BOOLEAN]

VARIABLES
    line,     \* the server's queue
    snap,     \* the page's latest snapshot of it
    view,     \* the list on screen
    queueAsks,     \* requests on their way, or their answers
    queueLeft \* the scene, and what is left of its gestures

queueViewVars == <<line, snap, view, queueAsks, queueLeft>>

QueueScene(acts, gestures, queued, paused) ==
    [acts |-> acts, gestures |-> gestures, queued |-> queued, paused |-> paused]

Line(running, queued, paused) == [running |-> running, queued |-> queued, paused |-> paused]
Empty == Line(NoQueueJob, <<>>, FALSE)

QueueEntries(s) == (IF s.running = NoQueueJob THEN <<>> ELSE <<s.running>>) \o s.queued
IsPaused(s) == s.paused /\ QueueEntries(s) # <<>>

Label(s, j) ==
    IF j = s.running THEN "stage" ELSE IF s.paused THEN "paused" ELSE "in line"

(* A row drawn: drags, and offers "play next" from the third place on,     *)
(* while it waits; only the running one has a progress bar.                *)
Row(s, i) ==
    LET j == QueueEntries(s)[i] waits == j # s.running
    IN [id |-> j, drags |-> waits, top |-> waits /\ i > 2, bar |-> ~waits,
        label |-> Label(s, j), place |-> i]

RenderQueueList(s) ==
    [on |-> TRUE, rows |-> [i \in DOMAIN QueueEntries(s) |-> Row(s, i)],
     banner |-> IsPaused(s), drag |-> NoQueueJob, behind |-> FALSE]

Hidden == [on |-> FALSE, rows |-> <<>>, banner |-> FALSE, drag |-> NoQueueJob, behind |-> FALSE]

QueueViewInit ==
    /\ queueLeft \in QueueScenes
    /\ line = Line(NoQueueJob, queueLeft.queued, queueLeft.paused)
    /\ snap = Empty /\ view = Hidden /\ queueAsks = {}

QueueActs(what) == what \in queueLeft.acts /\ queueLeft.gestures > 0
QueueSpent == queueLeft' = [queueLeft EXCEPT !.gestures = @ - 1]

----------------------------------------------------------------------------
(* A snapshot comes, by the stream or as an answer.                        *)

ShownIds == [i \in DOMAIN view.rows |-> view.rows[i].id]

(* A slip of the code: as many rows as before are the same rows.           *)
SameRowsByCount(s) == Len(view.rows) = Len(QueueEntries(s)) /\ view.banner = IsPaused(s)

SameRows(s) == ShownIds = QueueEntries(s) /\ view.banner = IsPaused(s)

(* updateQueueRows(): labels are written into the rows that stand.         *)
Patched(s) ==
    [view EXCEPT !.behind = FALSE,
                 !.rows = [i \in DOMAIN view.rows |->
                    [view.rows[i] EXCEPT !.label = Label(s, QueueEntries(s)[i]), !.place = i]]]

(* onQueueFrame(): an empty queue leaves for the library; a list being     *)
(* dragged stands still.                                                   *)
OnQueueFrame(s) ==
    IF ~view.on THEN Hidden
    ELSE IF QueueEntries(s) = <<>> THEN [Hidden EXCEPT !.drag = view.drag]
    ELSE IF view.drag # NoQueueJob THEN [view EXCEPT !.behind = TRUE]
    ELSE IF SameRows(s) THEN Patched(s)
    ELSE RenderQueueList(s)

Publish(s) == snap' = s /\ view' = OnQueueFrame(s)

QueueFrame ==
    /\ line # snap /\ Publish(line)
    /\ UNCHANGED <<line, queueAsks, queueLeft>>

----------------------------------------------------------------------------
(* The view and its rows.                                                  *)

OpenQueueView ==
    /\ QueueActs("open") /\ QueueSpent /\ ~view.on
    /\ view' = [RenderQueueList(snap) EXCEPT !.drag = view.drag]
    /\ UNCHANGED <<line, snap, queueAsks>>

AskServer(kind, j, after) ==
    queueAsks' = queueAsks \cup {[n |-> queueLeft.gestures, kind |-> kind, id |-> j, after |-> after,
                        stage |-> "sent", answer |-> Empty]}

DragStart(i) ==
    /\ QueueActs("drag") /\ QueueSpent
    /\ view.on /\ view.drag = NoQueueJob /\ view.rows[i].drags
    /\ view' = [view EXCEPT !.drag = view.rows[i].id]
    /\ UNCHANGED <<line, snap, queueAsks>>

(* dropAnchorId(): the last of the other rows above the pointer.           *)
DropAnchorId(above) ==
    LET others == SelectSeq(ShownIds, LAMBDA j : j # view.drag)
    IN IF above = 0 THEN NoQueueJob ELSE others[above]

Drop(above) ==
    /\ view.on /\ view.drag # NoQueueJob
    /\ above \in 0..Len(SelectSeq(ShownIds, LAMBDA j : j # view.drag))
    /\ AskServer("reorder", view.drag, DropAnchorId(above))
    /\ view' = [view EXCEPT !.drag = NoQueueJob]
    /\ UNCHANGED <<line, snap, queueLeft>>

DragEnd ==
    /\ view.drag # NoQueueJob
    /\ view' = [view EXCEPT !.drag = NoQueueJob]
    /\ UNCHANGED <<line, snap, queueAsks, queueLeft>>

PressTop(i) ==
    /\ QueueActs("top") /\ QueueSpent /\ view.on /\ view.rows[i].top
    /\ view' = [view EXCEPT !.rows[i].top = FALSE]
    /\ AskServer("reorder", view.rows[i].id, NoQueueJob)
    /\ UNCHANGED <<line, snap>>

PressCancel(i) ==
    /\ QueueActs("cancel") /\ QueueSpent /\ view.on
    /\ AskServer("cancel", view.rows[i].id, NoQueueJob)
    /\ UNCHANGED <<line, snap, view>>

PressStart ==
    /\ QueueActs("start") /\ QueueSpent /\ view.on /\ view.banner
    /\ AskServer("start", NoQueueJob, NoQueueJob)
    /\ UNCHANGED <<line, snap, view>>

----------------------------------------------------------------------------
(* The server.                                                             *)

NextStarts ==
    /\ line.running = NoQueueJob /\ ~line.paused /\ line.queued # <<>>
    /\ line' = [line EXCEPT !.running = Head(line.queued), !.queued = Tail(@)]
    /\ UNCHANGED <<snap, view, queueAsks, queueLeft>>

RunningEnds ==
    /\ line.running # NoQueueJob
    /\ line' = [line EXCEPT !.running = NoQueueJob]
    /\ UNCHANGED <<snap, view, queueAsks, queueLeft>>

(* reorder(): an anchor that does not wait sends the job to the end.       *)
Reordered(c) ==
    LET rest == RemoveFirst(line.queued, c.id)
    IN IF c.after = NoQueueJob THEN <<c.id>> \o rest
       ELSE IF c.after \in ToSet(rest)
       THEN LET k == CHOOSE k \in DOMAIN rest : rest[k] = c.after IN InsertAt(rest, k + 1, c.id)
       ELSE Append(rest, c.id)

ServerLine(c) ==
    CASE c.kind = "start" -> [line EXCEPT !.paused = FALSE]
      [] c.kind = "cancel" -> [line EXCEPT !.queued = RemoveFirst(@, c.id),
                                           !.running = IF @ = c.id THEN NoQueueJob ELSE @]
      [] c.kind = "reorder" -> IF c.id \in ToSet(line.queued)
                               THEN [line EXCEPT !.queued = Reordered(c)] ELSE line
      [] OTHER -> line

(* A cancel, and a reorder that is refused, are followed by a look at the  *)
(* queue; the other answers carry it.                                      *)
ServerHandles(c) ==
    /\ c.stage = "sent" /\ line' = ServerLine(c)
    /\ queueAsks' = (queueAsks \ {c}) \cup
         {IF c.kind = "cancel" \/ (c.kind = "reorder" /\ c.id \notin ToSet(line.queued))
          THEN [c EXCEPT !.kind = "look"]
          ELSE [c EXCEPT !.stage = "answered", !.answer = ServerLine(c)]}
    /\ UNCHANGED <<snap, view, queueLeft>>

QueueAnswers(c) ==
    /\ c.stage = "answered" /\ queueAsks' = queueAsks \ {c}
    /\ Publish(c.answer)
    /\ UNCHANGED <<line, queueLeft>>

(* A request that fails: a start is left at that, the others look.         *)
AskFails(c) ==
    /\ c.stage = "sent"
    /\ queueAsks' = (queueAsks \ {c}) \cup (IF c.kind \in {"reorder", "cancel"} THEN {[c EXCEPT !.kind = "look"]} ELSE {})
    /\ UNCHANGED <<line, snap, view, queueLeft>>

QueueViewNext ==
    \/ QueueFrame \/ OpenQueueView \/ DragEnd \/ PressStart \/ NextStarts \/ RunningEnds
    \/ \E i \in DOMAIN view.rows : DragStart(i) \/ PressTop(i) \/ PressCancel(i)
    \/ \E above \in 0..Len(view.rows) : Drop(above)
    \/ \E c \in queueAsks : ServerHandles(c) \/ QueueAnswers(c) \/ AskFails(c)

QueueViewSpec == QueueViewInit /\ [][QueueViewNext]_queueViewVars

----------------------------------------------------------------------------
(* What is expected.                                                       *)

(* While no row is dragged, and no frame was let go for a drag, the rows   *)
(* are the jobs of the latest snapshot in its order, each in its place and *)
(* under its label, and the banner stands while the queue is paused.       *)
QueueRowsAreTheQueue ==
    view.on /\ view.drag = NoQueueJob /\ ~view.behind =>
        /\ ShownIds = QueueEntries(snap)
        /\ view.banner = IsPaused(snap)
        /\ \A i \in DOMAIN view.rows : /\ view.rows[i].label = Label(snap, view.rows[i].id)
                                       /\ view.rows[i].place = i

(* "Move a waiting job so it runs directly after `afterId`": dropped below *)
(* the running row it is the next to run.                                  *)
DroppedRunsAfterItsAnchor ==
    [][\A c \in queueAsks :
         /\ c.kind = "reorder" /\ c.stage = "sent" /\ c.id \in ToSet(line.queued)
         /\ c.after # NoQueueJob /\ c.after = line.running
         /\ \E d \in queueAsks' : d.n = c.n /\ d.stage = "answered"
         => Head(line'.queued) = c.id]_queueViewVars
=============================================================================

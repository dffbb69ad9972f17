--------------------------- MODULE TimelineSections ---------------------------
(***************************************************************************)
(* The named spans above the waveform: added, moved, resized, locked,      *)
(* renamed and removed on the page, saved to the server after a pause, one *)
(* request at a time.  Times are counted in MIN_SEC.                       *)
(***************************************************************************)
EXTENDS Integers, Sequences, FiniteSets, SequencesExt, ArrayFilter

CONSTANTS
    Songs,        \* tracks that have sections
    SongLength,   \* of each, in MIN_SEC
    DefaultWidth, \* of a section that no loop gives its bounds
    Analysed,     \* the sections the model found in a track
    SectionScenes \* set of scenes: what the user does and how often

Section(id, start, end) == [id |-> id, start |-> start, end |-> end, locked |-> FALSE, named |-> FALSE]
NoLoop == [start |-> 0, end |-> 0]
Overlap(start, end, s) == start < s.end /\ end > s.start
Apart(list) == \A a, b \in ToSet(list) : a # b => ~Overlap(a.start, a.end, b)

(* The model's sections are numbered and follow each other; a loop is one  *)
(* of the track, or none.                                                  *)
ASSUME SectionsAssumption ==
    /\ SongLength \in Nat \ {0} /\ DefaultWidth \in Nat \ {0}
    /\ Analysed \in Seq({s \in [id : Nat, start : 0..SongLength, end : 0..SongLength,
                                locked : BOOLEAN, named : BOOLEAN] : s.start < s.end})
    /\ \A i \in DOMAIN Analysed : Analysed[i].id = i
    /\ Apart(Analysed)
    /\ SectionScenes \subseteq
         [does : SUBSET {"add", "delete", "lock", "rename", "clear", "move", "resize", "open", "leave", "lose"},
          edits : Nat,
          loop : {NoLoop} \cup {l \in [start : 0..SongLength, end : 0..SongLength] : l.start < l.end}]

VARIABLES
    ribbon,  \* the sections of the open track, with the gesture under way
    chain,   \* _saveChain: PATCH requests, the first one on its way
    kept,    \* per track, what the server has
    coming,  \* a track asked for from the library, as the server had it: one or none
    script   \* what is left of the scene

sectionVars == <<ribbon, chain, kept, coming, script>>

NoHand == [id |-> 0, edge |-> "none", start |-> 0, end |-> 0]

(* Edits are numbered as they are made, on from the sections the model     *)
(* found, and name the section they add.  A list goes with the number of   *)
(* its last edit, and is stale if, when it was opened, the server had got  *)
(* another one of its track or one was on its way there.                   *)
Stored(list, version, stale) == [list |-> list, version |-> version, stale |-> stale]
OpenRibbon(t, stored, next) ==
    [track |-> t, list |-> stored.list, version |-> stored.version, stale |-> stored.stale,
     timer |-> FALSE, armed |-> FALSE, hand |-> NoHand, next |-> next]

SectionScene(does, edits, loop) == [does |-> does, edits |-> edits, loop |-> loop]

SectionsInit ==
    /\ script \in SectionScenes
    /\ kept = [t \in Songs |-> Stored(Analysed, 0, FALSE)]
    /\ \E t \in Songs : ribbon = OpenRibbon(t, Stored(Analysed, 0, FALSE), Len(Analysed) + 1)
    /\ chain = <<>> /\ coming = {}

Ids(list) == {list[i].id : i \in DOMAIN list}
Of(list, id) == list[CHOOSE i \in DOMAIN list : list[i].id = id]
Others(list, id) == Filter(list, {s \in ToSet(list) : s.id # id})
Put(list, new) == [i \in DOMAIN list |-> IF list[i].id = new.id THEN new ELSE list[i]]
Most(a, b) == IF a > b THEN a ELSE b
Least(a, b) == IF a < b THEN a ELSE b
Distance(a, b) == IF a > b THEN a - b ELSE b - a

----------------------------------------------------------------------------
(* Where a section may go.                                                 *)

(* _clampMove(): one pass over the others, each pushing the section to its *)
(* nearer edge.                                                            *)
ClampMove(list, id, wanted, width) ==
    LET Push(start, o) ==
          IF ~Overlap(start, start + width, o) THEN start
          ELSE IF Distance(wanted, o.start - width) < Distance(wanted, o.end)
               THEN Most(0, o.start - width)
               ELSE Least(SongLength - width, o.end)
        others == Others(list, id)
        pushed[k \in 0..Len(others)] ==
            IF k = 0 THEN Most(0, Least(SongLength - width, wanted))
            ELSE Push(pushed[k - 1], others[k])
    IN pushed[Len(others)]

LeftBound(list, s) ==
    LET ends == {0} \cup {o.end : o \in {p \in ToSet(Others(list, s.id)) : p.end <= s.end}}
    IN CHOOSE b \in ends : \A c \in ends : c <= b
RightBound(list, s) ==
    LET begins == {SongLength} \cup
                  {o.start : o \in {p \in ToSet(Others(list, s.id)) : p.start >= s.start}}
    IN CHOOSE b \in begins : \A c \in begins : b <= c

(* The first gap of the default width: at the start, or where a section    *)
(* ends and none is on or begins within that width.                        *)
FirstGap(list) ==
    LET ends == {0} \cup {s.end : s \in ToSet(list)}
        free == {at \in ends : \A s \in ToSet(list) : s.end <= at \/ s.start - at >= DefaultWidth}
        start == Least(CHOOSE at \in free : \A later \in free : at <= later, SongLength - 1)
    IN [start |-> start, end |-> Least(start + DefaultWidth, SongLength)]

(* A slip of the code: the loop is taken as it is.                         *)
NewSectionOnLoop(list, loop) ==
    LET span == IF loop # NoLoop THEN loop ELSE FirstGap(list)
    IN IF loop = NoLoop /\ \E s \in ToSet(list) : Overlap(span.start, span.end, s) THEN {} ELSE {span}

(* _newSectionBounds(): the armed loop, or the first gap; none if taken.   *)
NewSectionBounds(list, loop) ==
    LET span == IF loop # NoLoop THEN loop ELSE FirstGap(list)
    IN IF \E s \in ToSet(list) : Overlap(span.start, span.end, s) THEN {} ELSE {span}

----------------------------------------------------------------------------
(* The user.                                                               *)

SectionActs(what) == what \in script.does /\ script.edits > 0 /\ ribbon.hand = NoHand
SectionSpent == script' = [script EXCEPT !.edits = @ - 1]

(* _render() and _scheduleSave() after a change of the list.               *)
Changed(list) ==
    [ribbon EXCEPT !.list = list, !.timer = TRUE, !.version = ribbon.next, !.next = @ + 1,
                   !.armed = IF list = <<>> THEN FALSE ELSE @]

AddSection ==
    /\ SectionActs("add") /\ SectionSpent
    /\ \E b \in NewSectionBounds(ribbon.list, script.loop) :
         ribbon' = Changed(Append(ribbon.list, Section(ribbon.next, b.start, b.end)))
    /\ UNCHANGED <<chain, kept, coming>>

DeleteSection(id) ==
    /\ SectionActs("delete") /\ SectionSpent
    /\ ribbon' = Changed(Others(ribbon.list, id))
    /\ UNCHANGED <<chain, kept, coming>>

ToggleLock(id) ==
    /\ SectionActs("lock") /\ SectionSpent
    /\ ribbon' = Changed(Put(ribbon.list, [Of(ribbon.list, id) EXCEPT !.locked = ~@]))
    /\ UNCHANGED <<chain, kept, coming>>

(* _openRename() and its commit: a locked section keeps its name.          *)
Rename(id) ==
    /\ SectionActs("rename") /\ SectionSpent
    /\ ~Of(ribbon.list, id).locked
    /\ ribbon' = Changed(Put(ribbon.list, [Of(ribbon.list, id) EXCEPT !.named = TRUE]))
    /\ UNCHANGED <<chain, kept, coming>>

(* The Clear button: a first press arms it, for four seconds; the second   *)
(* one clears.                                                             *)
PressClear ==
    /\ SectionActs("clear") /\ SectionSpent /\ ribbon.list # <<>>
    /\ ribbon' = IF ribbon.armed THEN Changed(<<>>) ELSE [ribbon EXCEPT !.armed = TRUE]
    /\ UNCHANGED <<chain, kept, coming>>

ClearDisarms ==
    /\ ribbon.armed
    /\ ribbon' = [ribbon EXCEPT !.armed = FALSE]
    /\ UNCHANGED <<chain, kept, coming, script>>

(* A pointer goes down on a section or on one of its handles.              *)
Grip(id, edge) ==
    /\ SectionActs(IF edge = "whole" THEN "move" ELSE "resize") /\ SectionSpent
    /\ ~Of(ribbon.list, id).locked
    /\ ribbon' = [ribbon EXCEPT !.hand = [id |-> id, edge |-> edge,
                     start |-> Of(ribbon.list, id).start, end |-> Of(ribbon.list, id).end]]
    /\ UNCHANGED <<chain, kept, coming>>

(* It moves by some distance from where it went down.                      *)
Pulled(list, hand, by) ==
    LET s == Of(list, hand.id)
        start == ClampMove(list, s.id, hand.start + by, s.end - s.start)
    IN CASE hand.edge = "whole" ->
              [s EXCEPT !.start = start, !.end = start + (s.end - s.start)]
         [] hand.edge = "left" ->
              [s EXCEPT !.start = Most(LeftBound(list, s), Least(s.end - 1, hand.start + by))]
         [] hand.edge = "right" ->
              [s EXCEPT !.end = Least(RightBound(list, s), Most(s.start + 1, hand.end + by))]

Pull(by) ==
    /\ ribbon.hand # NoHand
    /\ ribbon' = [ribbon EXCEPT !.list = Put(@, Pulled(@, ribbon.hand, by))]
    /\ UNCHANGED <<chain, kept, coming, script>>

(* The pointer goes up: a press that moved nothing is a click.             *)
LetGo ==
    /\ ribbon.hand # NoHand
    /\ LET s == Of(ribbon.list, ribbon.hand.id)
           done == [ribbon EXCEPT !.hand = NoHand]
       IN ribbon' = IF s.start = ribbon.hand.start /\ s.end = ribbon.hand.end THEN done
                    ELSE [done EXCEPT !.timer = TRUE, !.version = ribbon.next, !.next = @ + 1]
    /\ UNCHANGED <<chain, kept, coming, script>>

(* The browser takes the pointer away: everything is put back.             *)
PointerCancel ==
    /\ ribbon.hand # NoHand
    /\ ribbon' = [ribbon EXCEPT !.hand = NoHand,
                    !.list = Put(@, [Of(@, ribbon.hand.id) EXCEPT !.start = ribbon.hand.start,
                                                                  !.end = ribbon.hand.end])]
    /\ UNCHANGED <<chain, kept, coming, script>>

----------------------------------------------------------------------------
(* Saving.                                                                 *)

(* _queueSaveSnapshot(): the list as it is now joins the chain.            *)
QueueSave(c, r) == Append(c, [track |-> r.track, stored |-> Stored(r.list, r.version, r.stale)])

SectionsTimer ==
    /\ ribbon.timer
    /\ chain' = QueueSave(chain, ribbon)
    /\ ribbon' = [ribbon EXCEPT !.timer = FALSE]
    /\ UNCHANGED <<kept, coming, script>>

(* A slip of the code: every save is sent at once, and any may land first. *)
SendSaveUnchained(i) == i \in DOMAIN chain

(* Only the first of the chain is sent; the next waits for its answer.     *)
SendSave(i) == i = 1

SaveLands(i) ==
    /\ SendSave(i)
    /\ kept' = [kept EXCEPT ![chain[i].track] = chain[i].stored]
    /\ chain' = RemoveAt(chain, i)
    /\ UNCHANGED <<ribbon, coming, script>>

(* A save that fails is dropped; the indicator is all there is to see.     *)
SaveFails(i) ==
    /\ SendSave(i) /\ "lose" \in script.does
    /\ chain' = RemoveAt(chain, i)
    /\ UNCHANGED <<ribbon, kept, coming, script>>

(* A track is pressed in the library: the server is asked for it; a later  *)
(* press takes the place of this one.                                      *)
AskTrack(t) ==
    /\ SectionActs("open") /\ SectionSpent
    /\ coming' = {[track |-> t, stored |-> kept[t]]}
    /\ UNCHANGED <<ribbon, chain, kept>>

(* What opening a list that the server had makes of it.                    *)
OpenedNow(t, stored, c) ==
    OpenRibbon(t, [stored EXCEPT !.stale = \/ stored.version # kept[t].version
                                           \/ \E i \in DOMAIN c : c[i].track = t], ribbon.next)

(* The answer is opened by initSections() alone: a timer runs on.          *)
OpenOther(a) ==
    /\ ribbon.hand = NoHand
    /\ ribbon' = [OpenedNow(a.track, a.stored, chain) EXCEPT !.timer = ribbon.timer]
    /\ coming' = {}
    /\ UNCHANGED <<chain, kept, script>>

(* The studio is emptied first, for an import: destroySections() flushes.  *)
LeaveAndOpen(t) ==
    /\ SectionActs("leave") /\ SectionSpent /\ t # ribbon.track
    /\ chain' = IF ribbon.timer THEN QueueSave(chain, ribbon) ELSE chain
    /\ ribbon' = OpenedNow(t, kept[t], chain)
    /\ UNCHANGED <<kept, coming>>

SectionsNext ==
    \/ AddSection \/ PressClear \/ ClearDisarms \/ LetGo \/ PointerCancel \/ SectionsTimer
    \/ \E id \in Ids(ribbon.list) :
         DeleteSection(id) \/ ToggleLock(id) \/ Rename(id)
         \/ \E edge \in {"whole", "left", "right"} : Grip(id, edge)
    \/ \E by \in -SongLength..SongLength : Pull(by)
    \/ \E i \in DOMAIN chain : SaveLands(i) \/ SaveFails(i)
    \/ \E t \in Songs : AskTrack(t) \/ LeaveAndOpen(t)
    \/ \E a \in coming : OpenOther(a)

SectionsSpec == SectionsInit /\ [][SectionsNext]_sectionVars

----------------------------------------------------------------------------
(* What is expected.                                                       *)

SectionsTypeOK ==
    /\ ribbon.track \in Songs /\ ribbon.timer \in BOOLEAN /\ ribbon.armed \in BOOLEAN
    /\ \A s \in ToSet(ribbon.list) : s.start \in 0..SongLength /\ s.end \in 0..SongLength
    /\ Cardinality(Ids(ribbon.list)) = Len(ribbon.list)
    /\ ribbon.hand.id \in Ids(ribbon.list) \cup {0}
    /\ \A i \in DOMAIN chain : chain[i].track \in Songs
    /\ \A a \in coming : a.track \in Songs /\ kept[a.track].version \in Nat

(* However saves, failures and switches of track follow each other, the    *)
(* server's list of a track goes back to an earlier edit only for a list   *)
(* that was stale when it was opened.                                      *)
OnlyStaleListsGoBack ==
    [][\A t \in Songs : kept'[t].version < kept[t].version => kept'[t].stale]_sectionVars

(* As long as sections are only added, cut, renamed and resized by their   *)
(* edges, no two overlap.                                                  *)
AddedSectionsStayApart == "move" \notin script.does => Apart(ribbon.list)
=============================================================================

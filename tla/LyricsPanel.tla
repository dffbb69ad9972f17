------------------------------ MODULE LyricsPanel ------------------------------
(***************************************************************************)
(* The lyrics tab: which lyrics are shown for the open track, out of the   *)
(* store, the server, the file's tags and a lookup, each of which answers  *)
(* when it likes; and the timing the user gives the lines, saved later.    *)
(***************************************************************************)
EXTENDS Integers, Sequences, FiniteSets

CONSTANTS
    Ballads,       \* tracks
    Silence,       \* no track is open
    LyricScenes    \* set of scenes: what there is to find, what the user does

ASSUME LyricsAssumption ==
    /\ Silence \notin Ballads
    /\ LyricScenes \subseteq
         [does : SUBSET {"open", "tab", "keep", "remove", "edit"}, gestures : Nat,
          stores : {"none", "othersong", "entry"}, serves : {"none", "entry", "versions"},
          tagged : {"lyrics", "song", "nothing"}, edits : {0}]

VARIABLES
    panel,   \* what the tab shows and holds
    reads,   \* runs of loadForCurrentTrack(), keep() and removeLyrics()
    lookups, \* runs of lookUp(), with what the server found
    stored,  \* per track, its entry in the store
    served,  \* per track, lyrics.json on the server
    answered, \* per track, what a lookup of this session came back with
    sends,   \* userSaveChain: timings on their way, the first one sent
    given,   \* per track, the last timing the user gave the server's lyrics
    lost,    \* timings whose save failed
    strayed, \* <<of, to>>: the file's lyrics of `of` were kept for `to`
    scene    \* the scene, and what is left of its gestures

lyricsVars ==
    <<panel, reads, lookups, stored, served, answered, sends, given, lost, strayed, scene>>

(* What is kept: its kind, and which of the user's timings it carries; in  *)
(* the store, also whose lyrics it holds.                                  *)
Kept(kind, timing) == [kind |-> kind, timing |-> timing]
InStore(kind, timing, of) == [kind |-> kind, timing |-> timing, of |-> of]
Nothing == InStore("none", 0, Silence)
NoSend == [track |-> Silence, of |-> Silence, from |-> "none", timing |-> 0]

LyricScene(does, gestures, stores, serves, tagged) ==
    [does |-> does, gestures |-> gestures, stores |-> stores, serves |-> serves,
     tagged |-> tagged, edits |-> 0]

(* current: the track of the studio.  track: shownTrackId.  of: the track  *)
(* whose lyrics are on screen.  wait: userSave, a timing not yet sent.     *)
LyricsInit ==
    /\ scene \in LyricScenes
    /\ panel = [current |-> Silence, visible |-> FALSE, track |-> Silence, kind |-> "empty",
                of |-> Silence, from |-> "store", timing |-> 0, sync |-> FALSE,
                wait |-> NoSend, token |-> 0]
    /\ reads = {} /\ lookups = {} /\ answered = [t \in Ballads |-> "unasked"] /\ sends = <<>>
    /\ lost = {} /\ strayed = {}
    /\ stored = [t \in Ballads |-> InStore(scene.stores, 0, t)]
    /\ served = [t \in Ballads |-> Kept(scene.serves, 0)]
    /\ given = [t \in Ballads |-> 0]

LyricsAct(what) == what \in scene.does /\ scene.gestures > 0
LyricsSpent == scene' = [scene EXCEPT !.gestures = @ - 1]

----------------------------------------------------------------------------
(* Pieces of the panel.                                                    *)

Waiting(p) == IF p.wait = NoSend THEN <<>> ELSE <<p.wait>>

(* clearLyrics(): Sync lines is left, what waits to be saved is sent.      *)
Cleared(p) == [p EXCEPT !.kind = "empty", !.of = Silence, !.sync = FALSE, !.wait = NoSend]
Flushed(s, p) == s \o Waiting(p)

ShowEntry(p, t, from, timing) ==
    [Cleared(p) EXCEPT !.kind = "entry", !.of = t, !.from = from, !.timing = timing]
ShowAs(p, t, kind) == [Cleared(p) EXCEPT !.kind = kind, !.of = t]

(* A line of status: what is on screen besides it stays.                   *)
Says(p, t, kind) ==
    IF p.kind \in {"entry", "offer", "removed"} THEN p ELSE [p EXCEPT !.kind = kind, !.of = t]

(* track: whose lyrics are read.  to: the track keep() and removeLyrics()  *)
(* took for the open one, the key they store under.                        *)
Read(t, token, stage, to) == [track |-> t, token |-> token, stage |-> stage, to |-> to]
Moved(r, stage) == (reads \ {r}) \cup {[r EXCEPT !.stage = stage]}

(* searchController.abort().                                               *)
Aborted(ls) == {[l EXCEPT !.wanted = FALSE] : l \in ls}

(* wanted: its controller was not aborted.  says: what the server answers. *)
Lookup(t) == [track |-> t, stage |-> "asked", wanted |-> TRUE, says |-> Kept("none", 0)]

(* loadForCurrentTrack() as far as the store.                              *)
Reload(p) ==
    /\ panel' = [Cleared(p) EXCEPT !.track = p.current, !.token = @ + 1]
    /\ sends' = Flushed(sends, p)
    /\ lookups' = Aborted(lookups)
    /\ reads' = IF p.current = Silence THEN reads
                ELSE reads \cup {Read(p.current, p.token + 1, "store", p.current)}

----------------------------------------------------------------------------
(* The tab and the track.                                                  *)

(* Two openings by hand are more than a frame of the open tab apart.       *)
OpenTrack(t) ==
    /\ LyricsAct("open") /\ LyricsSpent /\ t # panel.current
    /\ panel.visible => panel.current = panel.track
    /\ panel' = [panel EXCEPT !.current = t]
    /\ UNCHANGED <<reads, lookups, stored, served, answered, sends, given, lost, strayed>>

(* A frame of the tab notices the track.                                   *)
LyricsTick ==
    /\ panel.visible /\ panel.current # panel.track
    /\ Reload(panel)
    /\ UNCHANGED <<stored, served, answered, given, lost, strayed, scene>>

ShowTab ==
    /\ ~panel.visible /\ LyricsAct("tab") /\ LyricsSpent
    /\ Reload([panel EXCEPT !.visible = TRUE])
    /\ UNCHANGED <<stored, served, answered, given, lost, strayed>>

(* Another view: Sync lines is left.                                       *)
HideTab ==
    /\ panel.visible /\ LyricsAct("tab") /\ LyricsSpent
    /\ sends' = Flushed(sends, panel)
    /\ panel' = [panel EXCEPT !.visible = FALSE, !.sync = FALSE, !.wait = NoSend]
    /\ UNCHANGED <<reads, lookups, stored, served, answered, given, lost, strayed>>

----------------------------------------------------------------------------
(* One load, an await at a time.                                           *)

(* A slip of the code: a slow read shows its track whatever came after it. *)
StillAskedAnyway(r) == TRUE

(* token === loadToken, looked at after every await.                       *)
StillAsked(r) == r.token = panel.token

Shows(r, p) ==
    /\ panel' = p /\ sends' = Flushed(sends, panel)
    /\ reads' = reads \ {r}

ShowsStatus(r, kind) ==
    /\ panel' = Says(panel, r.track, kind) /\ UNCHANGED sends
    /\ reads' = reads \ {r}

DropsRead(r) ==
    /\ r.stage \in {"store", "server", "tags"} /\ ~StillAsked(r)
    /\ reads' = reads \ {r}
    /\ UNCHANGED <<panel, lookups, stored, served, answered, sends, given, lost, strayed, scene>>

StoreAnswers(r) ==
    /\ r.stage = "store" /\ StillAsked(r)
    /\ \/ /\ stored[r.track].kind = "dismissed"
          /\ Shows(r, ShowAs(panel, r.track, "removed")) /\ UNCHANGED stored
       \/ /\ stored[r.track].kind = "entry"
          /\ Shows(r, ShowEntry(panel, stored[r.track].of, "store", stored[r.track].timing))
          /\ UNCHANGED stored
       \/ /\ stored[r.track].kind \in {"none", "othersong"}
          /\ stored' = [stored EXCEPT ![r.track] = Nothing]
          /\ reads' = Moved(r, "server")
          /\ UNCHANGED <<panel, sends>>
    /\ UNCHANGED <<lookups, served, answered, given, lost, strayed, scene>>

ServerAnswers(r) ==
    /\ r.stage = "server" /\ StillAsked(r)
    /\ \/ /\ served[r.track].kind = "entry"
          /\ Shows(r, ShowEntry(panel, r.track, "server", served[r.track].timing))
       \/ /\ served[r.track].kind = "versions"
          /\ Shows(r, ShowAs(panel, r.track, "offer"))
       \/ /\ served[r.track].kind = "none"
          /\ reads' = Moved(r, "tags") /\ UNCHANGED <<panel, sends>>
    /\ UNCHANGED <<lookups, stored, served, answered, given, lost, strayed, scene>>

(* dropStoreSave(): what waits for the store is forgotten, for the server  *)
(* is sent.                                                                *)
DropStoreSave(s, p) == IF p.wait.from = "server" THEN Flushed(s, p) ELSE s

(* keep() and removeLyrics() of t's lyrics, as far as their first await:   *)
(* what they store is stored for the track that is open now.               *)
Puts(t, rs, stage) ==
    /\ sends' = DropStoreSave(sends, panel)
    /\ panel' = [panel EXCEPT !.wait = NoSend]
    /\ reads' = IF panel.current = Silence THEN rs
                ELSE rs \cup {Read(t, panel.token, stage, panel.current)}

(* Lyrics in the file are kept: for the track opened since the last frame, *)
(* if there is one.  Without a song there is nothing to ask; a song asked  *)
(* about in this session is not asked about again.                         *)
TagsAnswer(r) ==
    /\ r.stage = "tags" /\ StillAsked(r)
    /\ \/ /\ scene.tagged = "lyrics"
          /\ Puts(r.track, reads \ {r}, "keep")
          /\ strayed' = strayed \cup ({<<r.track, panel.current>>} \ {<<t, t>> : t \in Ballads})
          /\ UNCHANGED lookups
       \/ /\ scene.tagged = "nothing"
          /\ ShowsStatus(r, "unknown") /\ UNCHANGED <<lookups, strayed>>
       \/ /\ scene.tagged = "song" /\ answered[r.track] = "versions"
          /\ Shows(r, ShowAs(panel, r.track, "offer")) /\ UNCHANGED <<lookups, strayed>>
       \/ /\ scene.tagged = "song" /\ answered[r.track] = "nothing"
          /\ ShowsStatus(r, "notfound") /\ UNCHANGED <<lookups, strayed>>
       \/ /\ scene.tagged = "song" /\ answered[r.track] = "unasked"
          /\ lookups' = Aborted(lookups) \cup {Lookup(r.track)}
          /\ reads' = reads \ {r} /\ UNCHANGED <<panel, sends, strayed>>
    /\ UNCHANGED <<stored, served, answered, given, lost, scene>>

----------------------------------------------------------------------------
(* lookUp(), an await at a time; one that was aborted goes on at the       *)
(* server.                                                                 *)

(* The server looks, unless it has lyrics.json by now, keeps what it finds *)
(* and answers what it has: or fails, or is at it for an earlier request.  *)
ServerLooksUp(l, found) ==
    /\ l.stage = "asked"
    /\ LET had == served[l.track]
           has == IF had.kind = "none" /\ found # "failed" THEN Kept(found, 0) ELSE had
       IN /\ served' = [served EXCEPT ![l.track] = has]
          /\ lookups' = (lookups \ {l}) \cup
               {[l EXCEPT !.stage = "answered", !.says = IF found = "failed" THEN Kept("failed", 0) ELSE has]}
    /\ UNCHANGED <<panel, reads, stored, answered, sends, given, lost, strayed, scene>>

(* The response is there: nobody waits for an aborted one, and one of a    *)
(* track no longer open is dropped, unless it is the connection that       *)
(* failed.  A failure is not remembered.                                   *)
LookupHeard(l) ==
    /\ l.stage = "answered"
    /\ \/ /\ ~l.wanted \/ panel.current # l.track
          /\ lookups' = lookups \ {l} /\ UNCHANGED panel
       \/ /\ l.wanted /\ l.says.kind = "failed"
          /\ lookups' = lookups \ {l}
          /\ panel' = [panel EXCEPT !.kind = IF @ = "entry" THEN @ ELSE "offline"]
       \/ /\ l.wanted /\ l.says.kind # "failed" /\ panel.current = l.track
          /\ lookups' = (lookups \ {l}) \cup {[l EXCEPT !.stage = "reading"]}
          /\ UNCHANGED panel
    /\ UNCHANGED <<reads, stored, served, answered, sends, given, lost, strayed, scene>>

(* Its body is read, and nothing is looked at again: one cut short, by an  *)
(* abort or the connection, counts as an answer with nothing in it.  That  *)
(* the track says too little to be looked up is not remembered.            *)
LookupRead(l) ==
    /\ l.stage = "reading" /\ lookups' = lookups \ {l}
    /\ \/ /\ l.wanted /\ l.says.kind = "entry"
          /\ panel' = ShowEntry(panel, l.track, "server", l.says.timing)
          /\ sends' = Flushed(sends, panel) /\ UNCHANGED answered
       \/ /\ l.wanted /\ l.says.kind = "versions"
          /\ panel' = ShowAs(panel, l.track, "offer") /\ sends' = Flushed(sends, panel)
          /\ answered' = [answered EXCEPT ![l.track] = "versions"]
       \/ /\ l.wanted /\ l.says.kind = "none"
          /\ panel' = Says(panel, l.track, "unknown") /\ UNCHANGED <<sends, answered>>
       \/ /\ panel' = Says(panel, l.track, "notfound") /\ UNCHANGED sends
          /\ answered' = [answered EXCEPT ![l.track] = "nothing"]
    /\ UNCHANGED <<reads, stored, served, given, lost, strayed, scene>>

----------------------------------------------------------------------------
(* Choosing, removing, looking again.                                      *)

KeepVersion ==
    /\ LyricsAct("keep") /\ LyricsSpent
    /\ panel.visible /\ panel.kind \in {"offer", "entry"} /\ panel.current = panel.track
    /\ Puts(panel.of, reads, "keep")
    /\ UNCHANGED <<lookups, stored, served, answered, given, lost, strayed>>

(* The rest of keep(), once the chain is through.                          *)
KeepLands(r) ==
    /\ r.stage = "keep" /\ sends = <<>>
    /\ stored' = [stored EXCEPT ![r.to] = InStore("entry", 0, r.track)]
    /\ answered' = [answered EXCEPT ![r.to] = "unasked"]
    /\ IF panel.current = r.to THEN Shows(r, ShowEntry(panel, r.track, "store", 0))
       ELSE reads' = reads \ {r} /\ UNCHANGED <<panel, sends>>
    /\ UNCHANGED <<lookups, served, given, lost, strayed, scene>>

RemoveLyrics ==
    /\ LyricsAct("remove") /\ LyricsSpent
    /\ panel.visible /\ panel.kind = "entry" /\ panel.current = panel.track
    /\ Puts(panel.of, reads, "remove")
    /\ UNCHANGED <<lookups, stored, served, answered, given, lost, strayed>>

(* The rest of it: no track is looked at again before it says "removed".   *)
RemoveLands(r) ==
    /\ r.stage = "remove" /\ sends = <<>>
    /\ stored' = [stored EXCEPT ![r.to] = InStore("dismissed", 0, Silence)]
    /\ answered' = [answered EXCEPT ![r.to] = "unasked"]
    /\ Shows(r, ShowAs(panel, r.track, "removed"))
    /\ UNCHANGED <<lookups, served, given, lost, strayed, scene>>

(* The store cannot be written: a keep, a removal or a load ends there.    *)
StoreFails(r) ==
    /\ \/ r.stage \in {"keep", "remove"} /\ sends = <<>>
       \/ r.stage = "store" /\ stored[r.track].kind = "othersong"
    /\ reads' = reads \ {r}
    /\ UNCHANGED <<panel, lookups, stored, served, answered, sends, given, lost, strayed, scene>>

LookAgain ==
    /\ LyricsAct("remove") /\ LyricsSpent
    /\ panel.visible /\ panel.kind \in {"removed", "offline"} /\ panel.current # Silence
    /\ stored' = [stored EXCEPT ![panel.current] = Nothing]
    /\ Reload(panel)
    /\ UNCHANGED <<served, answered, given, lost, strayed>>

----------------------------------------------------------------------------
(* Sync lines.                                                             *)

(* An edit of the lines, or their reset: kept a moment later.  It is made  *)
(* by hand, more than a frame after an opening.                            *)
EditTiming ==
    /\ LyricsAct("edit") /\ panel.visible /\ panel.kind = "entry" /\ panel.track # Silence
    /\ panel.current = panel.track
    /\ LET n == scene.edits + 1
       IN /\ scene' = [scene EXCEPT !.gestures = @ - 1, !.edits = n]
          /\ panel' = [panel EXCEPT !.sync = TRUE, !.timing = n,
                          !.wait = [track |-> panel.track, of |-> panel.of,
                                    from |-> panel.from, timing |-> n]]
          /\ given' = IF panel.from = "server" THEN [given EXCEPT ![panel.track] = n] ELSE given
    /\ UNCHANGED <<reads, lookups, stored, served, answered, sends, lost, strayed>>

(* Done, Align or another editor: closeSync().                             *)
CloseSync ==
    /\ panel.sync /\ LyricsAct("edit") /\ LyricsSpent
    /\ sends' = Flushed(sends, panel)
    /\ panel' = [panel EXCEPT !.sync = FALSE, !.wait = NoSend]
    /\ UNCHANGED <<reads, lookups, stored, served, answered, given, lost, strayed>>

SaveDelayOver ==
    /\ panel.wait # NoSend
    /\ sends' = Flushed(sends, panel)
    /\ panel' = [panel EXCEPT !.wait = NoSend]
    /\ UNCHANGED <<reads, lookups, stored, served, answered, given, lost, strayed, scene>>

(* sendUserTiming(): one at a time, in the order they were given.          *)
TimingLands ==
    /\ sends # <<>> /\ sends' = Tail(sends)
    /\ LET s == Head(sends)
       IN IF s.from = "server"
          THEN served' = [served EXCEPT ![s.track] = Kept("entry", s.timing)] /\ UNCHANGED stored
          ELSE stored' = [stored EXCEPT ![s.track] = InStore("entry", s.timing, s.of)] /\ UNCHANGED served
    /\ UNCHANGED <<panel, reads, lookups, answered, given, lost, strayed, scene>>

(* Refused, or never there: said in the panel, and not tried again.        *)
TimingFails ==
    /\ sends # <<>> /\ sends' = Tail(sends)
    /\ lost' = lost \cup {Head(sends).timing}
    /\ UNCHANGED <<panel, reads, lookups, stored, served, answered, given, strayed, scene>>

LyricsNext ==
    \/ \E t \in Ballads : OpenTrack(t)
    \/ LyricsTick \/ ShowTab \/ HideTab \/ KeepVersion \/ RemoveLyrics \/ LookAgain
    \/ EditTiming \/ CloseSync \/ SaveDelayOver \/ TimingLands \/ TimingFails
    \/ \E r \in reads : \/ DropsRead(r) \/ StoreAnswers(r) \/ ServerAnswers(r)
                        \/ TagsAnswer(r) \/ KeepLands(r) \/ RemoveLands(r) \/ StoreFails(r)
    \/ \E l \in lookups : \/ LookupHeard(l) \/ LookupRead(l)
                          \/ \E found \in {"none", "entry", "versions", "failed"} :
                                ServerLooksUp(l, found)

LyricsSpec == LyricsInit /\ [][LyricsNext]_lyricsVars

----------------------------------------------------------------------------
(* What is expected.                                                       *)

LyricsTypeOK ==
    /\ panel.current \in Ballads \cup {Silence} /\ panel.track \in Ballads \cup {Silence}
    /\ panel.kind \in {"empty", "entry", "removed", "offer", "unknown", "notfound", "offline"}
    /\ panel.of \in Ballads \cup {Silence}
    /\ \A l \in lookups : l.track \in Ballads /\ l.stage \in {"asked", "answered", "reading"}
    /\ \A r \in reads : r.stage \in {"store", "server", "tags", "keep", "remove"}
    /\ \A t \in Ballads : /\ stored[t].kind \in {"none", "othersong", "entry", "dismissed"}
                          /\ served[t].kind \in {"none", "entry", "versions"}

(* Lyrics of `of` may be shown for t: they are t's, or the lyrics in the   *)
(* file of a track that t was opened over.                                 *)
Belong(of, t) == of = t \/ <<of, t>> \in strayed

(* Lyrics on screen are those of the track the tab says it shows, or of    *)
(* the one just opened, whatever else was still on its way: an edit of     *)
(* their lines is saved under that track.                                  *)
LyricsAreTheTracks ==
    panel.visible /\ panel.kind \in {"entry", "offer", "unknown"}
      => Belong(panel.of, panel.track) \/ Belong(panel.of, panel.current)

(* A timing given to the server's lyrics gets there, whichever way the     *)
(* lines are left, Done, another view, another track, other lyrics: unless *)
(* its own save failed.                                                    *)
TimingGetsThere ==
    sends = <<>> /\ panel.wait = NoSend
      => \A t \in Ballads : given[t] \in {0, served[t].timing} \cup lost

(* Lyrics, and the timing given to them, stay with their track.            *)
LyricsStayWithTheirTrack == LyricsAreTheTracks /\ TimingGetsThere
=============================================================================

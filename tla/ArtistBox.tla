------------------------------- MODULE ArtistBox -------------------------------
(***************************************************************************)
(* The artist box, and the band found from a file's tags while the box is  *)
(* shut: two kinds of lookups that answer late, one shown, one kept.       *)
(***************************************************************************)
EXTENDS Integers, FiniteSets

CONSTANTS
    Records,       \* tracks
    NoRecord,      \* no track is open
    ArtistScenes   \* set of scenes: the tracks' tags, what the user does

ASSUME ArtistAssumption ==
    /\ NoRecord \notin Records
    /\ \A s \in ArtistScenes : s.known \in [Records -> {"unread", "named", "plain"}]

VARIABLES
    onDeck,    \* the track in the studio
    tags,      \* per track: what is known of its file's tags
    band,      \* per track: the band kept on it, and who kept it
    auto,      \* the lookup from the tags: its wait, its track, those tried
    tagged,    \* lookups from tags under way, the aborted ones included
    box,       \* the box: what it was asked last, what it shows
    searches,  \* searches of the box under way
    act        \* the scene, and the gestures left of it

artistVars == <<onDeck, tags, band, auto, tagged, box, searches, act>>

NoBand == [by |-> "nobody", of |-> NoRecord]
ArtistScene(does, n, known, songs) == [does |-> does, left |-> n, known |-> known, songs |-> songs]

(* What the box can be asked: the band kept on a track, the artist its     *)
(* file was tagged with, a name typed, or nothing but the song.            *)
Asked(by, of) == [by |-> by, of |-> of]
Blank == Asked("blank", NoRecord)
View(kind, what) == [kind |-> kind, what |-> what]

ArtistInit ==
    /\ act \in ArtistScenes
    /\ onDeck = NoRecord
    /\ tags = act.known
    /\ band = [t \in Records |-> NoBand]
    /\ auto = [timer |-> NoRecord, track |-> NoRecord, tried |-> {}]
    /\ tagged = {}
    /\ box = [open |-> FALSE, waiting |-> FALSE, gen |-> 0, asked |-> Blank,
              shown |-> View("nothing", Blank)]
    /\ searches = {}

Acts(what) == what \in act.does /\ act.left > 0
Acted == act' = [act EXCEPT !.left = @ - 1]

(* What Wikidata answers: a band in full, one Discogs could add to, none,  *)
(* or no answer.                                                           *)
Found == {"full", "thin", "none", "failed"}

----------------------------------------------------------------------------
(* The box.                                                                *)

(* search(): a newer one, like closing the box, aborts what is under way.  *)
StartSearch(b, what) ==
    LET g == b.gen + 1
    IN /\ box' = [b EXCEPT !.gen = g, !.waiting = FALSE, !.asked = what,
                           !.shown = View(IF what.by = "blank" THEN "nothing"
                                          ELSE IF what.by = "song" THEN "song" ELSE "loading", what)]
       /\ searches' = IF what.by = "blank" THEN searches
                      ELSE searches \cup {[gen |-> g, what |-> what,
                                           stage |-> IF what.by = "song" THEN "extra" ELSE "lookup"]}

(* showFromTrack(): wait while the tags are read or their band is looked   *)
(* for, else search for what the track is known by.                        *)
Waits(t, keeps, reading, a) ==
    t # NoRecord /\ keeps[t] = NoBand /\ (reading[t] = "reading" \/ a.track = t)

KnownBy(t, keeps, reading) ==
    IF t = NoRecord THEN Blank
    ELSE IF keeps[t] # NoBand THEN Asked("kept", t)
    ELSE IF reading[t] = "named" THEN Asked("tag", t)
    ELSE IF t \in act.songs THEN Asked("song", t) ELSE Blank

ShowFromTrack(b, t, keeps, reading, a) ==
    IF Waits(t, keeps, reading, a)
    THEN /\ box' = [b EXCEPT !.waiting = TRUE, !.asked = Asked("wait", t),
                             !.shown = View("wait", Asked("wait", t))]
         /\ UNCHANGED searches
    ELSE StartSearch(b, KnownBy(t, keeps, reading))

(* settle(): the wait, if there is one, is over.                           *)
SettleBox(t, keeps, reading, a) ==
    IF box.open /\ box.waiting THEN ShowFromTrack(box, t, keeps, reading, a)
    ELSE UNCHANGED <<box, searches>>

OpenBox ==
    /\ Acts("box") /\ Acted /\ ~box.open /\ onDeck # NoRecord
    /\ ShowFromTrack([box EXCEPT !.open = TRUE], onDeck, band, tags, auto)
    /\ UNCHANGED <<onDeck, tags, band, auto, tagged>>

CloseBox ==
    /\ Acts("box") /\ Acted /\ box.open
    /\ box' = [box EXCEPT !.open = FALSE, !.waiting = FALSE, !.gen = @ + 1]
    /\ UNCHANGED <<onDeck, tags, band, auto, tagged, searches>>

TypeName ==
    /\ Acts("type") /\ Acted /\ box.open
    /\ StartSearch(box, Asked("typed", NoRecord))
    /\ UNCHANGED <<onDeck, tags, band, auto, tagged>>

ChangeLanguage ==
    /\ Acts("language") /\ Acted /\ box.open
    /\ IF box.waiting THEN ShowFromTrack(box, onDeck, band, tags, auto) ELSE StartSearch(box, box.asked)
    /\ UNCHANGED <<onDeck, tags, band, auto, tagged>>

(* The save button of the band shown: it is kept on the track of the       *)
(* studio.                                                                 *)
SaveBand ==
    /\ Acts("save") /\ Acted /\ box.open /\ box.shown.kind = "band" /\ onDeck # NoRecord
    /\ band' = [band EXCEPT ![onDeck] = [by |-> "user", of |-> box.shown.what.of]]
    /\ UNCHANGED <<onDeck, tags, auto, tagged, box, searches>>

----------------------------------------------------------------------------
(* A search of the box, an await at a time.                                *)

(* A slip of the code: an answer is shown whatever was asked since.        *)
StillShownAnyway(s) == box.open

StillShown(s) == box.open /\ s.gen = box.gen

SearchLost(s) ==
    /\ ~StillShown(s) /\ searches' = searches \ {s}
    /\ UNCHANGED <<onDeck, tags, band, auto, tagged, box, act>>

GoesOn(s, stage) == searches' = (searches \ {s}) \cup {[s EXCEPT !.stage = stage]}
Draws(s, kind) == box' = [box EXCEPT !.shown = View(kind, s.what)]

LookupComes(s, found) ==
    /\ s.stage = "lookup" /\ StillShown(s)
    /\ \/ /\ found = "full" /\ Draws(s, "band") /\ searches' = searches \ {s}
       \/ /\ found = "thin" /\ Draws(s, "band")
          /\ IF s.what.by = "typed" THEN searches' = searches \ {s} ELSE GoesOn(s, "refine")
       \/ /\ found \in {"none", "failed"} /\ s.what.by # "typed"
          /\ GoesOn(s, IF found = "none" THEN "extra" ELSE "lastextra") /\ UNCHANGED box
       \/ /\ found = "none" /\ s.what.by = "typed"
          /\ GoesOn(s, "token") /\ UNCHANGED box
       \/ /\ found = "failed" /\ s.what.by = "typed"
          /\ Draws(s, "offline") /\ searches' = searches \ {s}
    /\ UNCHANGED <<onDeck, tags, band, auto, tagged, act>>

(* The Discogs profile of the track's band, alone or to fill the gaps.     *)
ExtraComes(s, found) ==
    /\ s.stage \in {"extra", "lastextra", "refine"} /\ StillShown(s)
    /\ \/ /\ found /\ Draws(s, "band") /\ searches' = searches \ {s}
       \/ /\ ~found /\ s.stage = "extra" /\ s.what.by # "song"
          /\ GoesOn(s, "token") /\ UNCHANGED box
       \/ /\ ~found /\ s.stage = "lastextra" /\ Draws(s, "offline") /\ searches' = searches \ {s}
       \/ /\ ~found /\ (s.stage = "refine" \/ s.what.by = "song")
          /\ searches' = searches \ {s} /\ UNCHANGED box
    /\ UNCHANGED <<onDeck, tags, band, auto, tagged, act>>

(* nothingOnWikipedia(): whether Discogs can be asked, then what it knows. *)
TokenComes(s, token) ==
    /\ s.stage = "token" /\ StillShown(s)
    /\ IF token THEN GoesOn(s, "discogs") /\ Draws(s, "loading")
       ELSE Draws(s, "notfound") /\ searches' = searches \ {s}
    /\ UNCHANGED <<onDeck, tags, band, auto, tagged, act>>

DiscogsComes(s, found) ==
    /\ s.stage = "discogs" /\ StillShown(s)
    /\ Draws(s, IF found THEN "candidates" ELSE "notfound") /\ searches' = searches \ {s}
    /\ UNCHANGED <<onDeck, tags, band, auto, tagged, act>>

(* pickDiscogs(): one of the artists Discogs offered.                      *)
PickCandidate ==
    /\ Acts("pick") /\ Acted /\ box.open /\ box.shown.kind = "candidates"
    /\ box' = [box EXCEPT !.gen = @ + 1, !.shown = View("loading", box.asked)]
    /\ searches' = searches \cup {[gen |-> box.gen + 1, what |-> box.asked, stage |-> "pick"]}
    /\ UNCHANGED <<onDeck, tags, band, auto, tagged>>

PickedComes(s, found) ==
    /\ s.stage = "pick" /\ StillShown(s)
    /\ Draws(s, IF found THEN "picked" ELSE "offline") /\ searches' = searches \ {s}
    /\ UNCHANGED <<onDeck, tags, band, auto, tagged, act>>

----------------------------------------------------------------------------
(* The band from the file's tags.                                          *)

(* runFindBandFromTags() as far as its lookup.                             *)
CanFind(t, reading) ==
    /\ t = onDeck /\ t \notin auto.tried /\ band[t] = NoBand
    /\ ~(box.open /\ ~box.waiting) /\ reading[t] = "named"

Started(t, a) == [a EXCEPT !.track = t, !.tried = @ \cup {t}]

(* trackopen: the last lookup is aborted, the next one waits a moment.     *)
OpenRecordPage(t) ==
    /\ Acts("open") /\ Acted
    /\ onDeck' = t
    /\ tags' = IF tags[t] = "unread" THEN [tags EXCEPT ![t] = "reading"] ELSE tags
    /\ auto' = [auto EXCEPT !.timer = t, !.track = NoRecord]
    /\ tagged' = {[l EXCEPT !.aborted = TRUE] : l \in tagged}
    /\ SettleBox(t, band, tags', auto')
    /\ UNCHANGED band

AutoTimer ==
    /\ auto.timer # NoRecord
    /\ LET t == auto.timer
           idle == [auto EXCEPT !.timer = NoRecord]
       IN IF CanFind(t, tags)
          THEN auto' = Started(t, idle) /\ tagged' = tagged \cup {[track |-> t, aborted |-> FALSE]}
          ELSE auto' = idle /\ UNCHANGED tagged
    /\ UNCHANGED <<onDeck, tags, band, box, searches, act>>

(* backfillAudioTags() answers and "tracktags" is told; the server may     *)
(* have found the band itself.                                             *)
TagsAreRead(t, found, kept) ==
    /\ tags[t] = "reading"
    /\ tags' = [tags EXCEPT ![t] = found]
    /\ band' = IF kept /\ band[t] = NoBand
               THEN [band EXCEPT ![t] = [by |-> "auto", of |-> t]] ELSE band
    /\ IF t # onDeck THEN UNCHANGED <<auto, tagged, box, searches>>
       ELSE LET idle == [auto EXCEPT !.timer = NoRecord]
                starts == CanFind(t, tags') /\ band'[t] = NoBand
            IN /\ auto' = IF starts THEN Started(t, idle) ELSE idle
               /\ tagged' = IF starts THEN tagged \cup {[track |-> t, aborted |-> FALSE]} ELSE tagged
               /\ SettleBox(onDeck, band', tags', auto')
    /\ UNCHANGED <<onDeck, act>>

(* Still the open track, and nobody saved a band on it meanwhile.             *)
KeepsFound(l) == l.track = onDeck /\ band[l.track] = NoBand

(* The lookup from tags answers; an aborted one mostly fails, but may have *)
(* had its answer already.                                                 *)
TaggedComes(l, matches) ==
    /\ l \in tagged /\ tagged' = tagged \ {l}
    /\ band' = IF matches /\ KeepsFound(l)
               THEN [band EXCEPT ![onDeck] = [by |-> "auto", of |-> l.track]] ELSE band
    /\ auto' \in IF l.aborted /\ ~matches THEN {[auto EXCEPT !.tried = @ \ {l.track}], auto}
                 ELSE IF l.aborted THEN {auto} ELSE {[auto EXCEPT !.track = NoRecord]}
    /\ SettleBox(onDeck, band', tags, auto')
    /\ UNCHANGED <<onDeck, tags, act>>

ArtistNext ==
    \/ OpenBox \/ CloseBox \/ TypeName \/ ChangeLanguage \/ SaveBand \/ PickCandidate \/ AutoTimer
    \/ \E s \in searches :
          \/ SearchLost(s)
          \/ \E f \in Found : LookupComes(s, f)
          \/ \E f \in BOOLEAN : ExtraComes(s, f) \/ TokenComes(s, f) \/ DiscogsComes(s, f) \/ PickedComes(s, f)
    \/ \E t \in Records : OpenRecordPage(t)
    \/ \E t \in Records, f \in {"named", "plain"}, k \in BOOLEAN : TagsAreRead(t, f, k)
    \/ \E l \in tagged, m \in BOOLEAN : TaggedComes(l, m)

ArtistSpec == ArtistInit /\ [][ArtistNext]_artistVars

----------------------------------------------------------------------------
(* What is expected.                                                       *)

ArtistTypeOK ==
    /\ onDeck \in Records \cup {NoRecord}
    /\ tags \in [Records -> {"unread", "reading", "named", "plain"}]
    /\ auto.timer \in Records \cup {NoRecord} /\ auto.track \in Records \cup {NoRecord}
    /\ \A s \in searches : s.gen <= box.gen

(* The box shows an answer to what it was asked last.                      *)
ShownIsAsked == box.open => box.shown.what = box.asked

(* A box that waits has something to wait for that will settle it: the     *)
(* tags of the open track, or the lookup of their band.                    *)
WaitEnds ==
    box.open /\ box.waiting =>
        \/ tags[onDeck] = "reading"
        \/ \E l \in tagged : l.track = auto.track /\ ~l.aborted

(* A band nobody chose is the one the track's own file names.              *)
BandIsTheTracks == \A t \in Records : band[t].by = "auto" => band[t].of = t

(* The box and the kept bands belong to the track they were found for,     *)
(* whichever lookup answers last, and the box never waits for nothing.     *)
BandsAreTheirTracks == ShownIsAsked /\ WaitEnds /\ BandIsTheTracks
=============================================================================

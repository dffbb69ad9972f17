----------------------------- MODULE PlayerSession -----------------------------
(***************************************************************************)
(* Bringing a track up in the studio: one call of wireUpAudio() starts a   *)
(* load, whose peaks, beat grid, multitrack and engine answer in any order *)
(* while the next load may already have begun.  The state is one record so *)
(* that a handler is the composition of the functions it calls.            *)
(***************************************************************************)
EXTENDS Integers, Sequences

CONSTANTS
    Tracks,     \* job ids that can be opened
    MaxLoads,   \* bound: calls of wireUpAudio()
    Setups,     \* engine modes and the tracks that fit in memory decoded
    Nobody      \* no track

VARIABLES
    player,     \* what the page holds in its variables, see SetUp
    loads,      \* per load: its track and what its requests answered
    engines     \* per engine: its load, kind and state, and whether
                \* its promise of being ready is still to be answered

playerVars == <<player, loads, engines>>

ASSUME PlayerAssumption ==
    /\ MaxLoads \in Nat
    /\ Setups \subseteq [mode : {"chunked", "fulldecode", "streaming"}, fits : SUBSET Tracks]

Answers == {"asked", "some", "none"}
EngineStates == {"starting", "up", "dead"}

(* token: visualRenderToken, the number of the newest load.  mounted: the  *)
(* load whose multitrack is on the page.  engine, click and editor: the    *)
(* engine playing, the engine whose bus the metronome uses and the load    *)
(* whose beat grid can be edited, 0 for none.  refused: the load whose     *)
(* playback error is shown.                                                *)
SetUp(s) == [mode |-> s.mode, fits |-> s.fits, current |-> Nobody, token |-> 0,
             mounted |-> 0, engine |-> 0, click |-> 0, editor |-> 0, refused |-> 0]

PlayerInit ==
    /\ \E s \in Setups : player = SetUp(s)
    /\ loads = <<>> /\ engines = <<>>

Fits(load) == load.track \in player.fits

(* The whole state, as the handlers pass it along.                         *)
Page == [p |-> player, e |-> engines, l |-> loads]
Becomes(s) == player' = s.p /\ engines' = s.e /\ loads' = s.l

----------------------------------------------------------------------------
(* Pieces of the handlers.                                                 *)

TeardownMetronome(s) == [s EXCEPT !.p.click = 0, !.p.editor = 0]

Retire(s, e) ==
    [s EXCEPT !.e[e].state = "dead",
              !.p.engine = IF @ = e THEN 0 ELSE @]

DropEngine(s) == IF s.p.engine = 0 THEN s ELSE Retire(s, s.p.engine)

StartEngine(s, load, kind) ==
    [s EXCEPT !.e = Append(@, [load |-> load, kind |-> kind,
                                 state |-> "starting", asked |-> TRUE]),
              !.p.engine = Len(s.e) + 1,
              !.p.refused = 0]

Newest(s, e) == s.e[e].load = s.p.token /\ s.e[e].load = s.p.mounted
Playing(s, e) == Newest(s, e) /\ s.p.engine = e

(* What an engine that is up does with the beat grid of its load.          *)
MountClick(s, e) ==
    IF ~Playing(s, e) \/ s.l[s.e[e].load].beats = "asked" THEN s
    ELSE IF s.l[s.e[e].load].beats = "none" THEN TeardownMetronome(s)
    ELSE [s EXCEPT !.p.click = e, !.p.editor = s.e[e].load]

(* What a chunked engine that is up does with the peaks of its load: a     *)
(* track without them goes over to the engine that decodes everything.     *)
SwapForPeaks(s, e) ==
    IF /\ Playing(s, e) /\ s.e[e].kind = "chunked"
       /\ s.l[s.e[e].load].peaks = "none" /\ Fits(s.l[s.e[e].load])
    THEN StartEngine(Retire(TeardownMetronome(s), e), s.e[e].load, "fulldecode")
    ELSE s

(* The engines of a load that asked for its answers, once they were ready. *)
WaitingEngine(s, load) == {e \in DOMAIN s.e : s.e[e].load = load /\ ~s.e[e].asked}

(* Every engine that asked sees an answer; at most one of them still cares.*)
Deliver(s, load, Do(_, _)) ==
    LET caring == {e \in WaitingEngine(s, load) : Do(s, e) # s}
    IN IF caring = {} THEN s ELSE Do(s, CHOOSE e \in caring : TRUE)

----------------------------------------------------------------------------
(* The handlers.                                                           *)

(* wireUpAudio(): everything until its first await.                        *)
WireUpAudio(t) ==
    /\ Len(loads) < MaxLoads
    /\ Becomes([Page EXCEPT
         !.l = Append(@, [track |-> t, peaks |-> "asked", beats |-> "asked", shown |-> FALSE]),
         !.p.token = @ + 1, !.p.mounted = player.token + 1, !.p.current = t])

(* destroyPlayer(), by reset(): the token is not touched.                  *)
DestroyPlayer ==
    /\ player.mounted # 0
    /\ Becomes([DropEngine(TeardownMetronome(Page)) EXCEPT !.p.mounted = 0, !.p.current = Nobody])

(* A slip of the code: the engine of the last track is left running.       *)
MayPlayBeside(l) ==
    /\ l = player.mounted /\ ~loads[l].shown
    /\ LET s == [TeardownMetronome(Page) EXCEPT !.l[l].shown = TRUE]
           large == player.mode = "fulldecode" /\ ~Fits(loads[l])
       IN Becomes(IF player.mode = "streaming" \/ large THEN s ELSE StartEngine(s, l, player.mode))

(* "canplay" of the multitrack that is mounted: the engine of the track    *)
(* before goes, this load's engine starts.                                 *)
MayPlay(l) ==
    /\ l = player.mounted /\ ~loads[l].shown
    /\ LET s == [TeardownMetronome(Page) EXCEPT !.l[l].shown = TRUE]
           large == player.mode = "fulldecode" /\ ~Fits(loads[l])
       IN Becomes(IF player.mode = "streaming" \/ large THEN s
                  ELSE StartEngine(DropEngine(s), l, player.mode))

(* eng.ready of an engine whose track was left.                            *)
ReadyTooLate(e) ==
    /\ engines[e].asked /\ ~Newest(Page, e)
    /\ Becomes([Retire(TeardownMetronome(Page), e) EXCEPT !.e[e].asked = FALSE])

(* eng.ready: TRUE.  The answers that came before are seen in this step.   *)
ReadyUp(e) ==
    /\ engines[e].asked /\ Newest(Page, e)
    /\ LET s == [Page EXCEPT !.e[e].asked = FALSE, !.e[e].state = "up"]
       IN Becomes(SwapForPeaks(MountClick(s, e), e))

(* eng.ready: FALSE.  The full decode is tried before the error is shown.  *)
ReadyUnusable(e) ==
    /\ engines[e].asked /\ Newest(Page, e)
    /\ LET s == [Retire(TeardownMetronome(Page), e) EXCEPT !.e[e].asked = FALSE]
       IN Becomes(IF engines[e].kind = "chunked" /\ Fits(loads[engines[e].load])
                  THEN StartEngine(s, engines[e].load, "fulldecode")
                  ELSE [s EXCEPT !.p.refused = engines[e].load])

(* eng.ready rejects: no token is looked at.                               *)
ReadyThrows(e) ==
    /\ engines[e].asked
    /\ Becomes([Retire(TeardownMetronome(Page), e) EXCEPT !.e[e].asked = FALSE,
                                                          !.p.refused = engines[e].load])

(* The grid of a load arrives, is missing (404) or timed out.              *)
BeatsAnswer(l, answer) ==
    /\ loads[l].beats = "asked"
    /\ Becomes(Deliver([Page EXCEPT !.l[l].beats = answer], l, MountClick))

(* Its peaks arrive, or {} after three seconds.                            *)
PeaksAnswer(l, answer) ==
    /\ loads[l].peaks = "asked"
    /\ Becomes(Deliver([Page EXCEPT !.l[l].peaks = answer], l, SwapForPeaks))

PlayerNext ==
    \/ \E t \in Tracks : WireUpAudio(t)
    \/ DestroyPlayer
    \/ \E l \in DOMAIN loads : MayPlay(l)
    \/ \E e \in DOMAIN engines :
         ReadyTooLate(e) \/ ReadyUp(e) \/ ReadyUnusable(e) \/ ReadyThrows(e)
    \/ \E l \in DOMAIN loads, a \in {"some", "none"} : BeatsAnswer(l, a) \/ PeaksAnswer(l, a)

PlayerSpec == PlayerInit /\ [][PlayerNext]_playerVars

----------------------------------------------------------------------------
(* What is expected.                                                       *)

PlayerTypeOK ==
    /\ player.current \in Tracks \cup {Nobody}
    /\ player.token = Len(loads) /\ player.mounted \in 0..Len(loads)
    /\ player.refused \in 0..Len(loads) /\ player.editor \in 0..Len(loads)
    /\ player.engine \in 0..Len(engines) /\ player.click \in 0..Len(engines)
    /\ \A l \in DOMAIN loads :
         /\ loads[l].track \in Tracks /\ loads[l].shown \in BOOLEAN
         /\ loads[l].beats \in Answers /\ loads[l].peaks \in Answers
    /\ \A e \in DOMAIN engines :
         /\ engines[e].state \in EngineStates /\ engines[e].load \in DOMAIN loads
         /\ engines[e].kind \in {"chunked", "fulldecode"} /\ engines[e].asked \in BOOLEAN

(* However loads overlap, two engines are never alive at once: an engine   *)
(* that nobody can pause does not play under the next track.               *)
OneEngineAtATime ==
    \A e \in DOMAIN engines : engines[e].state # "dead" => player.engine = e

(* The click and the grid editor belong to the engine that plays, through  *)
(* every swap of engines under a track: "it must never outlive the engine  *)
(* that owns them" (teardownMetronome).                                    *)
ClickLivesWithItsEngine ==
    /\ player.click # 0 => /\ player.click = player.engine
                           /\ engines[player.click].state = "up"
    /\ player.editor # 0 => /\ player.click # 0
                            /\ player.editor = engines[player.click].load

(* Each track is played by one engine, and clicked by that one.            *)
PlayersAreWhole == OneEngineAtATime /\ ClickLivesWithItsEngine
=============================================================================

--------------------------- MODULE StudioTransport ---------------------------
(***************************************************************************)
(* Play, Stop, the ruler, the loop and the count-in over one engine, with  *)
(* the metronome that puts its clicks on the same clock.  Every beat falls *)
(* on a half chunk; a count-in leads in by LeadIn of them.                 *)
(***************************************************************************)
EXTENDS StemEngine

CONSTANTS
    LeadIn,     \* the length of the count-in
    Ahead,      \* how far ahead clicks are handed to the clock
    Plays       \* set of scenes, see SomePlay

ASSUME TransportAssumption ==
    /\ LeadIn \in Nat /\ Ahead \in Nat
    /\ Plays \subseteq
         [kind : {"chunked", "buffered"}, gestures : Nat, losses : Nat, until : Nat,
          does : SUBSET {"go", "pause", "stop", "seek", "count", "loop", "speed", "click",
                         "hide", "leave"},
          loop : {Idle} \cup [start : 0..Length, end : 0..Length],
          places : SUBSET (0..Length), pressed : {"stop"}]

VARIABLES
    generation, \* _countInGeneration
    counted,    \* count-in clicks on the clock: [at, start] records
    metro,      \* the running click: on, synced, cursor, queued
    starts,     \* count-ins armed, by the call of play() they wait for
    play,       \* the scene, and what is left of its bounds
    hung        \* TRUE once an engine was destroyed

transportVars == <<engine, now, hidden, generation, counted, metro, starts, play, hung>>

(* A scene: the engine, what the user does and where, and the bounds of    *)
(* the run: gestures, lost flights, the time to stop at, the loop set.     *)
SomePlay(kind, does, gestures, losses, until, loop, places) ==
    [kind |-> kind, does |-> does, gestures |-> gestures, losses |-> losses,
     until |-> until, loop |-> loop, places |-> places, pressed |-> "stop"]

(* synced: the epoch the metronome remembers is one it has looked at.      *)
FreshMetro == [on |-> FALSE, synced |-> FALSE, cursor |-> 0, queued |-> {}]

(* eng.ready has answered: the first two chunks are on their way, or all.  *)
ReadyEngine(kind) ==
    IF kind = "buffered" THEN FreshEngine(kind) ELSE Fetch(Fetch(FreshEngine(kind), 0), 1)

TransportInit ==
    /\ play \in Plays
    /\ engine = [ReadyEngine(play.kind) EXCEPT !.loop = play.loop]
    /\ now = 0 /\ hidden = FALSE
    /\ generation = 0 /\ counted = {} /\ metro = FreshMetro /\ starts = <<>>
    /\ hung = FALSE

Rest == Settled(engine)
Gesture(what) ==
    /\ Rest /\ what \in play.does /\ play.gestures > 0
    /\ play' = [play EXCEPT !.gestures = @ - 1,
                            !.pressed = CASE what = "go" -> "play"
                                          [] what \in {"pause", "stop"} -> "stop"
                                          [] OTHER -> @]

----------------------------------------------------------------------------
(* The clicks.  A click whose time has gone is not scheduled.              *)
CountInClicks(e, start) ==
    {[at |-> SourceToCtx(e, t), start |-> start] : t \in (start - LeadIn)..(start - 1)}
Audible(clicks) == {q \in clicks : q.at >= now}

(* A slip of the code: the promise of an overtaken start counts in too.    *)
CountInAnyway(e, s) == counted' = Audible(CountInClicks(e, s.from))

(* playCountIn(): what the promise of play() does once it has answered.    *)
CountIn(e, s) ==
    IF s.generation = generation THEN counted' = Audible(CountInClicks(e, s.from))
    ELSE UNCHANGED counted

DropCountIn == generation' = generation + 1 /\ counted' = {}

(* togglePlayPause() of a playing track.                                   *)
PressPause ==
    /\ Gesture("pause") /\ engine.playing
    /\ engine' = Pause(engine)
    /\ DropCountIn
    /\ UNCHANGED <<now, hidden, metro, starts, hung>>

(* togglePlayPause() of a silent one: snap to the loop, count in, start.   *)
StartFrom(e) == IF e.loop # Idle THEN Seek(e, e.loop.start) ELSE e

PressPlay ==
    /\ Gesture("go") /\ CanPlay(engine)
    /\ LET e == StartFrom(engine)
           from == IF e.offset >= Length THEN 0 ELSE e.offset
           counts == "count" \in play.does
           call == IF counts THEN Len(starts) + 1 ELSE 0
           went == Play(e, IF counts THEN LeadIn ELSE 0, call)
           s == [from |-> from, generation |-> generation + 1]
       IN /\ engine' = went
          /\ starts' = IF counts THEN Append(starts, s) ELSE starts
          /\ generation' = IF counts THEN generation + 1 ELSE generation
          /\ counted' = IF counts /\ ClockReady(went)
                        THEN Audible(CountInClicks(went, from)) ELSE counted
    /\ UNCHANGED <<now, hidden, metro, hung>>

PressStop ==
    /\ Gesture("stop")
    /\ engine' = Seek(Pause(engine), IF engine.loop # Idle THEN engine.loop.start ELSE 0)
    /\ DropCountIn
    /\ UNCHANGED <<now, hidden, metro, starts, hung>>

(* setPlayheadTime(): a click on the ruler or a word of the lyrics.        *)
ClickRuler(t) ==
    /\ Gesture("seek") /\ t \in play.places /\ ~engine.destroyed
    /\ engine' = Seek(engine, t)
    /\ UNCHANGED <<now, hidden, generation, counted, metro, starts, hung>>

(* toggleLoop() and the loop drags, through updateLoopRegionVisual().      *)
SetLoop(loop) ==
    /\ Gesture("loop") /\ loop # engine.loop
    /\ engine' = [engine EXCEPT !.loop = loop]
    /\ UNCHANGED <<now, hidden, generation, counted, metro, starts, hung>>

ApplySpeed ==
    /\ Gesture("speed") /\ ~engine.destroyed
    /\ engine' = SetPlaybackRate(engine)
    /\ UNCHANGED <<now, hidden, generation, counted, metro, starts, hung>>

(* Another track: the engine and its metronome go.                         *)
Teardown ==
    /\ Gesture("leave") /\ ~hung
    /\ engine' = DestroyEngine(engine)
    /\ metro' = FreshMetro /\ counted' = {} /\ hung' = TRUE
    /\ UNCHANGED <<now, hidden, generation, starts>>

SwitchTab ==
    /\ Gesture("hide")
    /\ hidden' = ~hidden
    /\ engine' = IF hidden THEN engine ELSE OnHidden(engine)
    /\ UNCHANGED <<now, generation, counted, metro, starts, hung>>

ToggleMetronome ==
    /\ Gesture("click") /\ ~hung
    /\ metro' = [FreshMetro EXCEPT !.on = ~metro.on]
    /\ UNCHANGED <<engine, now, hidden, generation, counted, starts, hung>>

----------------------------------------------------------------------------
(* The metronome wakes: clicks of another mapping are torn down, the       *)
(* cursor finds its beat again, and clicks are handed over up to Ahead.    *)
Anchored(m) ==
    IF m.synced /\ ~engine.moved THEN m
    ELSE [m EXCEPT !.synced = TRUE, !.queued = {},
                   !.cursor = Max({0, CtxToSource(engine, now)})]

Fill(m) ==
    LET due == {b \in m.cursor..(Length - 1) : SourceToCtx(engine, b) <= now + Ahead}
    IN [m EXCEPT !.cursor = @ + Cardinality(due),
                 !.queued = @ \cup {[at |-> SourceToCtx(engine, b), beat |-> b] :
                                    b \in {d \in due : SourceToCtx(engine, d) > now}}]

MetronomeTick ==
    /\ Rest /\ metro.on
    /\ metro' = IF ClockReady(engine) THEN Fill(Anchored(metro))
                ELSE [metro EXCEPT !.synced = FALSE, !.queued = {}]
    /\ engine' = IF ClockReady(engine) THEN [engine EXCEPT !.moved = FALSE] ELSE engine
    /\ UNCHANGED <<now, hidden, generation, counted, starts, play, hung>>

----------------------------------------------------------------------------
(* The clock, the loop and the network.                                    *)
TickLoop ==
    /\ Rest /\ Fires(engine)
    /\ engine' = Tick(engine)
    /\ engine' # engine
    /\ UNCHANGED <<now, hidden, generation, counted, metro, starts, play, hung>>

(* Time passes; the loop comes round before it has passed again.           *)
Clock ==
    /\ Rest /\ now < play.until
    /\ Fires(engine) => Tick(engine) = engine
    /\ now' = now + 1
    /\ counted' = {q \in counted : q.at >= now'}
    /\ metro' = [metro EXCEPT !.queued = {q \in @ : q.at >= now'}]
    /\ engine' = [engine EXCEPT !.nodes = {n \in @ : n.at + (n.until - n.from) > now'}]
    /\ UNCHANGED <<hidden, generation, starts, play, hung>>

(* A flight comes down; what is past the end is never on the network.      *)
Land(f) ==
    /\ Rest
    /\ engine' = LandFlight(engine, f, f.chunk # PastEnd)
    /\ UNCHANGED <<now, hidden, generation, counted, metro, starts, play, hung>>

LoseFlight(f) ==
    /\ Rest /\ play.losses > 0 /\ f.chunk # PastEnd
    /\ play' = [play EXCEPT !.losses = @ - 1]
    /\ engine' = LandFlight(engine, f, FALSE)
    /\ UNCHANGED <<now, hidden, generation, counted, metro, starts, hung>>

Continue ==
    /\ ~Rest
    /\ engine' = Resume(engine)
    /\ LET w == Next1(engine)
       IN IF w.what = "play" /\ w.call # 0 /\ StartHeld(engine) /\ ~hung
          THEN CountIn(engine', starts[w.call]) ELSE UNCHANGED counted
    /\ UNCHANGED <<now, hidden, generation, metro, starts, play, hung>>

Spans == {Idle} \cup {[start |-> 0, end |-> Chunk], [start |-> Chunk, end |-> Length]}

TransportNext ==
    \/ PressPause \/ PressPlay \/ PressStop \/ ApplySpeed \/ Teardown \/ SwitchTab
    \/ ToggleMetronome \/ MetronomeTick \/ TickLoop \/ Clock \/ Continue
    \/ \E t \in 0..Length : ClickRuler(t)
    \/ \E loop \in Spans : SetLoop(loop)
    \/ \E f \in engine.flights : Land(f) \/ LoseFlight(f)

TransportSpec == TransportInit /\ [][TransportNext]_transportVars
----------------------------------------------------------------------------
(* Playback never outlives its loop: whichever clock the page runs on, a   *)
(* track that sounds has a tick coming, or chunks stop being scheduled     *)
(* (tickLoop.js, createTickLoop and _onHidden).                            *)
TicksOn == ClockReady(engine) => Fires(engine)

(* Pause and Stop silence a count-in for good, and what counts in is the   *)
(* last start, not one that was still being fetched when the user went     *)
(* elsewhere (transport.js, _dropCountIn and _armCountIn).  Nothing drops  *)
(* a count-in when a seek takes its track to the end: its clicks are heard *)
(* out, also while the start that follows is still being fetched.          *)
StillFetched(call) ==
    \E i \in DOMAIN engine.waiting : engine.waiting[i].what = "play" /\ engine.waiting[i].call = call

CountInIsCurrent ==
    \A q \in counted :
       /\ play.pressed = "play"
       /\ q.start # starts[Len(starts)].from => ~engine.playing \/ StillFetched(Len(starts))

(* An engine that was torn down stays silent whatever fetch, tick or start *)
(* was still on its way (destroy() of both engines and of the metronome).  *)
DestroyedIsSilent ==
    engine.destroyed => /\ engine.nodes = {} /\ engine.tick = Idle
                        /\ counted = {} /\ metro.queued = {}

(* A click the metronome believes in sits where its beat is in the music,  *)
(* through seeks, loops, speeds and late starts (metronome.js, _tick).     *)
ClicksKeepTheClock ==
    (ClockReady(engine) /\ metro.synced /\ ~engine.moved) =>
        \A q \in metro.queued : q.at = SourceToCtx(engine, q.beat)

(* The four of them: what is heard follows the transport.                  *)
SoundFollowsTransport == TicksOn /\ CountInIsCurrent /\ DestroyedIsSilent /\ ClicksKeepTheClock

(* The chunk a loop starts in stays in the cache while the loop stands, so *)
(* every pass replays without a fetch (chunkedAudioEngine.js, the pin).    *)
LoopStaysWarm ==
    [][(/\ engine.loop # Idle /\ engine'.loop = engine.loop
        /\ ~engine'.destroyed /\ play'.losses = play.losses)
       => (Cached(engine, PinnedChunk(engine)) => Cached(engine', PinnedChunk(engine)))
      ]_transportVars
=============================================================================

----------------------------- MODULE StemEngine -----------------------------
(***************************************************************************)
(* The two Web Audio engines of the studio and the loop that drives them.  *)
(* The chunked engine fetches the stems a few seconds at a time and hangs  *)
(* each piece on the audio clock; the buffered one decodes everything and  *)
(* starts it at once.  Both keep one mapping from media time to clock time *)
(* (offset is heard at base) that the metronome and the playhead trust.    *)
(*                                                                         *)
(* Time is counted in half chunks.  The stems of a chunk are fetched       *)
(* together and succeed or fail together, the rate is 1 and the pipeline   *)
(* has no latency of its own.                                              *)
(***************************************************************************)
EXTENDS Integers, Sequences, FiniteSets, FiniteSetsExt

CONSTANTS
    Chunk,      \* CHUNK_SEC
    Length,     \* the duration of the track
    Lookahead,  \* LOOKAHEAD_SEC
    Idle        \* nothing scheduled, nothing looped

ASSUME EngineAssumption ==
    /\ Chunk \in Nat \ {0} /\ Lookahead \in Nat \ {0}
    /\ Length \in Nat \ {0} /\ Length % Chunk = 0
    /\ Idle \notin {"frame", "timeout"}

VARIABLES
    engine,     \* the engine in the studio
    now,        \* ctx.currentTime
    hidden      \* document.hidden

engineVars == <<engine, now, hidden>>

(* Chunk PastEnd is asked for and answers nothing.                         *)
PastEnd == Length \div Chunk
Chunks == 0..PastEnd
ChunkAt(t) == t \div Chunk

(* A chunk is fetched by a flight.  A cache entry is the number of the     *)
(* flight that is to fill it, or Full; flights are the ones still out.     *)
Absent == 0
Full == -1

Sounds(n) == n.at + (n.until - n.from) > now

FreshEngine(kind) ==
    [kind |-> kind, playing |-> FALSE, started |-> FALSE, destroyed |-> FALSE,
     offset |-> 0, base |-> 0, upTo |-> 0, filling |-> FALSE, moved |-> FALSE,
     loop |-> Idle, tick |-> Idle, nodes |-> {}, waiting |-> <<>>,
     cache |-> [c \in Chunks |-> Absent], flights |-> {}]

Playhead(e) ==
    IF e.playing /\ e.started
    THEN Min({Length, e.offset + Max({0, now - e.base})}) ELSE e.offset
SourceToCtx(e, t) == e.base + (t - e.offset)
CtxToSource(e, at) == e.offset + (at - e.base)
ClockReady(e) == e.playing /\ e.started

----------------------------------------------------------------------------
(* The tick loop: an animation frame while the tab is shown, a timer while *)
(* it is hidden, and a frame the browser has dropped turned into a timer.  *)
Scheduled(e) == [e EXCEPT !.tick = IF hidden THEN "timeout" ELSE "frame"]
Fires(e) == e.tick = "timeout" \/ (e.tick = "frame" /\ ~hidden)
OnHidden(e) == IF e.tick = "frame" THEN [e EXCEPT !.tick = "timeout"] ELSE e

----------------------------------------------------------------------------
(* Fetching.                                                               *)
NewFlight(e) == Min(1..(Cardinality(e.flights) + 1) \ {f.id : f \in e.flights})
Fetch(e, c) ==
    IF e.cache[c] # Absent THEN e
    ELSE [e EXCEPT !.flights = @ \cup {[id |-> NewFlight(e), chunk |-> c]},
                   !.cache[c] = NewFlight(e)]

Cached(e, c) == e.cache[c] = Full

PinnedChunk(e) == IF e.loop = Idle THEN -1 ELSE ChunkAt(e.loop.start)

(* A flight comes down: older chunks leave the cache, the chunk the loop   *)
(* starts in stays, and a chunk that came back empty is forgotten, as it   *)
(* was if the entry the flight was to fill has gone meanwhile.             *)
LandFlightUnpinned(e, f, full) ==
    LET left == {k \in Chunks : k < f.chunk - 1} \cup (IF full THEN {} ELSE {f.chunk})
    IN [e EXCEPT !.flights = @ \ {f},
                 !.waiting = [i \in DOMAIN @ |->
                    IF @[i].flight = f.id THEN [@[i] EXCEPT !.flight = IF full THEN Full ELSE Absent]
                    ELSE @[i]],
                 !.cache = [k \in Chunks |-> IF k \in left THEN Absent
                                             ELSE IF @[k] = f.id THEN Full ELSE @[k]]]
LandFlight(e, f, full) ==
    LET old == {k \in Chunks : k < f.chunk - 1 /\ k # PinnedChunk(e)}
        left == old \cup (IF full THEN {} ELSE {f.chunk})
    IN [e EXCEPT !.flights = @ \ {f},
                 !.waiting = [i \in DOMAIN @ |->
                    IF @[i].flight = f.id THEN [@[i] EXCEPT !.flight = IF full THEN Full ELSE Absent]
                    ELSE @[i]],
                 !.cache = [k \in Chunks |-> IF k \in left THEN Absent
                                             ELSE IF @[k] = f.id THEN Full ELSE @[k]]]

----------------------------------------------------------------------------
(* Hanging audio on the clock.                                             *)
(* moved: the epoch was bumped since the metronome last looked.  A node is *)
(* the stems of one chunk, from a media time on, started at a clock time.  *)
Node(at, from, until) == [at |-> at, from |-> from, until |-> until]

(* startWith() of play(): the mapping becomes this start's.                *)
StartWith(e, c, within, lead, full) ==
    LET at == now + lead
    IN Fetch(Scheduled(
         [e EXCEPT !.base = at, !.started = TRUE, !.moved = TRUE,
                   !.upTo = e.offset + (IF full THEN Chunk - within ELSE 0),
                   !.nodes = IF full
                             THEN @ \cup {Node(at, c * Chunk + within, (c + 1) * Chunk)}
                             ELSE @]),
         Min({c + 1, PastEnd}))

(* The end of _scheduleNext(): the next chunk, late by what was missed.    *)
HangNext(e, c) ==
    LET ideal == SourceToCtx(e, e.upTo)
        at == Max({ideal, now})
        skip == Min({at - ideal, Chunk})
    IN [e EXCEPT !.nodes = @ \cup {Node(at, c * Chunk + skip, (c + 1) * Chunk)},
                 !.upTo = @ + Chunk]

Await(e, what, c, within, lead, call) ==
    LET after == Fetch(e, c)
    IN [after EXCEPT !.waiting = Append(@,
          [what |-> what, chunk |-> c, flight |-> after.cache[c],
           within |-> within, lead |-> lead, call |-> call])]

MaybeSchedule(e) ==
    LET limit == IF e.loop = Idle THEN Length ELSE e.loop.end
        c == ChunkAt(e.upTo)
        warm == Fetch(e, Min({c + 1, PastEnd}))
    IN IF e.filling \/ e.upTo >= limit \/ e.upTo - CtxToSource(e, now) >= Lookahead
       THEN e
       ELSE IF Cached(warm, c) THEN HangNext(warm, c)
       ELSE [Await(warm, "fill", c, 0, 0, 0) EXCEPT !.filling = TRUE]

----------------------------------------------------------------------------
(* The buffered engine has every stem decoded before it is ready.          *)
StartSources(e, at) ==
    [e EXCEPT !.base = at, !.started = TRUE, !.moved = TRUE,
              !.nodes = {Node(at, e.offset, Length)}]

Rewound(e) == IF e.offset >= Length THEN [e EXCEPT !.offset = 0, !.upTo = 0] ELSE e

CanPlay(e) == ~e.playing /\ ~e.destroyed

(* play(leadIn).  call numbers the start, for the promise it answers.      *)
PlayBuffered(e, lead) ==
    Scheduled(StartSources([Rewound(e) EXCEPT !.playing = TRUE], now + lead))

PlayChunked(e, lead, call) ==
    LET go == [Rewound(e) EXCEPT !.playing = TRUE]
        c == ChunkAt(go.offset)
        within == go.offset % Chunk
    IN IF Cached(go, c) THEN StartWith(go, c, within, lead, TRUE)
       ELSE Await(go, "play", c, within, lead, call)

Play(e, lead, call) ==
    IF e.kind = "buffered" THEN PlayBuffered(e, lead) ELSE PlayChunked(e, lead, call)

Pause(e) ==
    IF ~e.playing THEN e
    ELSE [e EXCEPT !.offset = Playhead(e), !.upTo = Playhead(e), !.nodes = {},
                   !.playing = FALSE, !.started = FALSE, !.moved = TRUE, !.tick = Idle]

SeekBuffered(e, t) ==
    IF e.playing THEN StartSources([e EXCEPT !.offset = t], now)
    ELSE [e EXCEPT !.offset = t, !.moved = TRUE]

(* A seek of a playing track stops it and plays again from the new place.  *)
SeekChunked(e, t) ==
    LET stopped == IF e.playing
                   THEN [e EXCEPT !.nodes = {}, !.playing = FALSE, !.started = FALSE, !.tick = Idle]
                   ELSE e
        moved == [stopped EXCEPT !.offset = t, !.upTo = t, !.moved = TRUE,
                    !.cache = [k \in Chunks |->
                        IF k < ChunkAt(t) /\ k # PinnedChunk(e) THEN Absent ELSE @[k]]]
    IN IF e.playing THEN PlayChunked(moved, 0, 0) ELSE moved

Seek(e, t) == IF e.kind = "buffered" THEN SeekBuffered(e, t) ELSE SeekChunked(e, t)

(* A change of speed starts a playing track again where it stands.         *)
SetPlaybackRate(e) ==
    IF e.playing THEN Seek(e, Playhead(e)) ELSE [e EXCEPT !.moved = TRUE]

DestroyEngine(e) ==
    [Pause(e) EXCEPT !.destroyed = TRUE, !.tick = Idle, !.nodes = {},
                     !.cache = [c \in Chunks |-> Absent]]

----------------------------------------------------------------------------
EndOfTrack(e) ==
    [e EXCEPT !.playing = FALSE, !.started = FALSE, !.offset = Length, !.tick = Idle]

TickBuffered(e) ==
    IF e.loop # Idle /\ Playhead(e) >= e.loop.end THEN Scheduled(Seek(e, e.loop.start))
    ELSE IF Playhead(e) >= Length THEN [EndOfTrack(e) EXCEPT !.nodes = {}, !.moved = TRUE]
    ELSE Scheduled(e)

TickChunked(e) ==
    LET warm == IF e.loop # Idle /\ e.loop.end - Playhead(e) < Lookahead
                THEN Fetch(e, PinnedChunk(e)) ELSE e
    IN IF e.loop # Idle /\ Playhead(e) >= e.loop.end THEN Seek(warm, e.loop.start)
       ELSE IF Playhead(e) >= Length THEN EndOfTrack(warm)
       ELSE Scheduled(MaybeSchedule(warm))

Tick(e) ==
    LET run == [e EXCEPT !.tick = Idle]
    IN IF ~e.playing THEN run
       ELSE IF e.kind = "buffered" THEN TickBuffered(run) ELSE TickChunked(run)

----------------------------------------------------------------------------
(* What waits for a flight goes on as soon as it is down, first come first *)
(* served, before anything else the page does.                             *)
Landed(e) == {i \in DOMAIN e.waiting : e.waiting[i].flight \in {Full, Absent}}
Settled(e) == Landed(e) = {}

Next1(e) == e.waiting[Min(Landed(e))]
Dropped(e) ==
    LET i == Min(Landed(e))
    IN [e EXCEPT !.waiting = SubSeq(@, 1, i - 1) \o SubSeq(@, i + 1, Len(@))]

(* Whether the start that waited is told it has started.                   *)
StartHeld(e) == e.playing /\ ~e.destroyed

Resume(e) ==
    LET w == Next1(e)
        rest == Dropped(e)
        full == w.flight = Full
    IN IF w.what = "play"
       THEN IF StartHeld(e) THEN StartWith(rest, w.chunk, w.within, w.lead, full) ELSE rest
       ELSE LET free == [rest EXCEPT !.filling = FALSE]
            IN IF e.playing /\ ~e.destroyed /\ full THEN HangNext(free, w.chunk) ELSE free
=============================================================================

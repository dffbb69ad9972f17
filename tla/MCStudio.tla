-------------------------------- MODULE MCStudio --------------------------------
(***************************************************************************)
(* Instances of the studio's parts for TLC.  They share no state of the    *)
(* models, so one run checks them side by side: `part` is the one that     *)
(* moves, from every scene given for it, while the others stand still.     *)
(***************************************************************************)
EXTENDS Studio

CONSTANTS a, b      \* tracks
VARIABLE part

OneOf(S) == CHOOSE s \in S : TRUE

----------------------------------------------------------------------------
(* The scenes: what each of them brings about is said in README.md.        *)

MCPlays ==
    {SomePlay("chunked", {"go", "pause", "click"}, 3, 1, 4, Idle, {3}),
     SomePlay("chunked", {"go", "stop", "seek", "count", "leave"}, 4, 0, 2, Idle, {3}),
     SomePlay("chunked", {"go", "seek", "count"}, 4, 0, 2, Idle, {3, 5}),
     SomePlay("chunked", {"go", "seek", "hide"}, 3, 1, 5, [start |-> 0, end |-> 6], {3}),
     SomePlay("chunked", {"go", "loop"}, 2, 0, 8, Idle, {0}),
     SomePlay("buffered", {"go", "pause", "stop", "seek", "click", "count", "loop", "speed", "hide", "leave"},
              3, 0, 8, Idle, {0, 3, 6}),
     SomePlay("chunked", {"go", "speed", "click"}, 3, 0, 4, Idle, {0})}

MCSetups == [mode : {"chunked", "fulldecode", "streaming"}, fits : SUBSET Tracks]

MCStrips == {"drums", "vocals", "bass"}
MCRecords == [t \in {"one", "two"} |-> IF t = "one" THEN MCStrips ELSE {"drums", "bass"}]
MCDeskScenes ==
    {DeskScene({"mute", "solo", "open"}, 3), DeskScene({"volume", "mute", "reset", "open"}, 3),
     DeskScene({"lanekey", "key", "open"}, 4), DeskScene({"speed"}, 3)}

MCPulse == <<0, 2, 5>>
MCPointerTimes == {0, 3, 4}
MCGridScenes ==
    {GridScene({"insert", "delete", "undo"}, 3), GridScene({"move", "undo"}, 2),
     GridScene({"move", "delete"}, 2), GridScene({"insert", "close", "switch"}, 3),
     GridScene({"bar", "delete", "insert"}, 2), GridScene({"bar", "reset", "switch", "lose"}, 2)}

MCAnalysed == <<Section(1, 1, 2), Section(2, 3, 5)>>
MCSectionScenes ==
    {SectionScene({"add", "resize", "delete"}, 3, NoLoop),
     SectionScene({"add", "lose"}, 3, [start |-> 5, end |-> 6]),
     SectionScene({"lock", "rename", "clear", "resize"}, 2, NoLoop),
     SectionScene({"move"}, 1, NoLoop), SectionScene({"delete", "open", "leave"}, 4, NoLoop)}

MCLyricScenes ==
    {LyricScene({"open", "tab"}, 5, st, sv, tg) : st \in {"none", "entry", "othersong"},
                                                  sv \in {"none", "versions"},
                                                  tg \in {"lyrics", "song", "nothing"}}
    \cup {LyricScene({"open", "tab", "edit"}, 5, "none", "entry", "song"),
          LyricScene({"open", "tab", "edit"}, 5, "none", "none", "lyrics"),
          LyricScene({"open", "tab", "keep", "remove"}, 5, "none", "versions", "song"),
          LyricScene({"open", "tab", "keep"}, 7, "none", "versions", "song"),
          LyricScene({"open", "tab", "edit", "remove", "keep"}, 5, "none", "entry", "song")}

MCTimingScenes ==
    {TimingScene({"sync", "tap", "undo", "select"}, 5, <<0, 1, 3>>, <<>>, <<0, 2, 3>>, 1),
     TimingScene({"sync", "drag", "nudge", "here", "ripple", "undo"}, 4, <<0, 1, 3>>, <<1, 1, 3>>, <<0, 2, 3>>, 1),
     TimingScene({"sync", "open", "retime", "tap", "reset", "undo"}, 4, <<0, 1, 3>>, <<>>, <<0, 2, 3>>, 1),
     TimingScene({"align", "detect", "open", "sync", "reset"}, 5, <<0, 1, 3>>, <<>>, <<0, 2, 3>>, 1)}

----------------------------------------------------------------------------
(* One part moves.                                                         *)

MCInit ==
    /\ part \in {"transport", "pitch", "player", "desk", "grid", "sections", "lyrics", "timing"}
    /\ part # "transport" => play = OneOf(MCPlays)
    /\ TransportInit
    /\ RoutingInit
    /\ PlayerInit
    /\ part # "player" => player.mode = "chunked" /\ player.fits = Tracks
    /\ part # "desk" => turns = OneOf(MCDeskScenes)
    /\ DeskInit
    /\ part # "desk" => room.track = "one"
    /\ part # "grid" => budget = OneOf(MCGridScenes)
    /\ GridInit
    /\ part # "grid" => grid.track = a
    /\ part # "sections" => script = OneOf(MCSectionScenes)
    /\ SectionsInit
    /\ part # "sections" => ribbon.track = a
    /\ part # "lyrics" => scene = OneOf(MCLyricScenes)
    /\ LyricsInit
    /\ part # "timing" => timingScene = OneOf(MCTimingScenes)
    /\ TimingInit

Still(p, vars) == IF part = p THEN TRUE ELSE UNCHANGED vars
OthersStill ==
    /\ UNCHANGED part
    /\ Still("transport", transportVars) /\ Still("pitch", routingVars) /\ Still("player", playerVars)
    /\ Still("desk", deskVars) /\ Still("grid", gridVars) /\ Still("sections", sectionVars)
    /\ Still("lyrics", lyricsVars) /\ Still("timing", timingVars)

MCNext ==
    \/ part = "transport" /\ TransportNext /\ OthersStill
    \/ part = "pitch" /\ RoutingNext /\ OthersStill
    \/ part = "player" /\ PlayerNext /\ OthersStill
    \/ part = "desk" /\ DeskNext /\ OthersStill
    \/ part = "grid" /\ GridNext /\ OthersStill
    \/ part = "sections" /\ SectionsNext /\ OthersStill
    \/ part = "lyrics" /\ LyricsNext /\ OthersStill
    \/ part = "timing" /\ TimingNext /\ OthersStill

MCVars == <<part, transportVars, routingVars, playerVars, deskVars, gridVars, sectionVars,
            lyricsVars, timingVars>>
MCSpec == MCInit /\ [][MCNext]_MCVars
=============================================================================

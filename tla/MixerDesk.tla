------------------------------- MODULE MixerDesk -------------------------------
(***************************************************************************)
(* The lanes' volumes, mutes, solos and keys, the global key, the speed    *)
(* buttons, and the mix kept per track in the store.  The store answers in *)
(* the order it was asked (its commands run on one thread); the engine of  *)
(* a track may come up before or after its mix.                            *)
(***************************************************************************)
EXTENDS Integers, Sequences

CONSTANTS
    Strips,      \* the lanes a desk has; "drums" is one that keeps its key
    Records,     \* tracks, each with the lanes it shows: a function
    KeyEnd,      \* PITCH_MAX, and its negative the other end
    DeskScenes   \* set of scenes: what the user does and how often

ASSUME DeskAssumption == KeyEnd \in Nat /\ \A t \in DOMAIN Records : Records[t] \subseteq Strips

VARIABLES
    desk,    \* mixerState: per lane its volume, mute, solo and key
    room,    \* the open track, how far it is up, the global key
    sounds,  \* what the engine was told: gains and keys
    mixes,   \* per track, the mix in the store
    waiting, \* per track, the snapshot whose debounce is running
    asked,   \* loads of a mix the store has not answered
    speed,   \* the slow speed's pending apply and the lit button
    turns    \* what is left of the scene

deskVars == <<desk, room, sounds, mixes, waiting, asked, speed, turns>>

Tracked == DOMAIN Records
Fresh == [volume |-> 1, muted |-> FALSE, soloed |-> FALSE, key |-> 0]
FreshDesk == [n \in Strips |-> Fresh]
NoMix == [n \in {} |-> Fresh]
Stages == {"mounting", "mounted", "up"}
DeskScene(does, edits) == [does |-> does, edits |-> edits]

Clamp(k) == IF k > KeyEnd THEN KeyEnd ELSE IF k < -KeyEnd THEN -KeyEnd ELSE k

(* applyMix() for the lanes on the page: a mute wins over a solo.          *)
Gains(d, shown) ==
    [n \in shown |->
       IF d[n].muted \/ (~d[n].soloed /\ \E m \in shown : d[m].soloed) THEN 0 ELSE d[n].volume]
Keys(d, shown) == [n \in shown |-> d[n].key]

DeskInit ==
    /\ turns \in DeskScenes
    /\ desk = FreshDesk
    /\ mixes \in [Tracked -> {FreshDesk}] /\ waiting = [t \in Tracked |-> NoMix]
    /\ \E t \in Tracked : /\ room = [track |-> t, stage |-> "mounting", key |-> 0]
                          /\ asked = <<t>>
    /\ sounds = [gains |-> Gains(NoMix, {}), keys |-> Keys(NoMix, {})]
    /\ speed = [timer |-> FALSE, lit |-> "normal", pressed |-> "normal"]

Shown == Records[room.track]
Up == room.stage = "up"
DeskActs(what) == what \in turns.does /\ turns.edits > 0
DeskSpent == turns' = [turns EXCEPT !.edits = @ - 1]

(* applyMix() reaches the engine that is there; the engine keeps a gain it *)
(* is given while it starts.  applyLanePitch() likewise.                   *)
Hear(d) == sounds' = IF Up THEN [sounds EXCEPT !.gains = Gains(d, Shown)] ELSE sounds
Save(d) == waiting' = [waiting EXCEPT ![room.track] = d]

----------------------------------------------------------------------------
(* Opening a track.                                                        *)

(* wireUpAudio(): the track is the page's at once, its mix is asked for.   *)
OpenRecord(t) ==
    /\ DeskActs("open") /\ DeskSpent /\ t # room.track
    /\ room' = [track |-> t, stage |-> "mounting", key |-> 0]
    /\ asked' = Append(asked, t)
    /\ sounds' = [gains |-> Gains(NoMix, {}), keys |-> Keys(NoMix, {})]
    /\ UNCHANGED <<desk, mixes, waiting, speed>>

(* A slip of the code: a mix that comes late is not told to the engine.    *)
MixAnswersUnheard == sounds' = sounds

(* The continuation of mixReady, once "canplay" was seen.                  *)
MixReachesEngine ==
    sounds' = IF Head(asked) = room.track /\ Up
              THEN [sounds EXCEPT !.gains = Gains(desk', Shown)] ELSE sounds

(* loadMixIntoState(): the store answers.  A mix that mutes every lane of  *)
(* the track opens with them unmuted.                                      *)
MixAnswers ==
    /\ asked # <<>>
    /\ LET t == Head(asked)
           loaded == mixes[t]
           silent == \A n \in Records[t] : loaded[n].muted
       IN desk' = [n \in Strips |-> IF silent /\ n \in Records[t]
                                    THEN [loaded[n] EXCEPT !.muted = FALSE] ELSE loaded[n]]
    /\ asked' = Tail(asked)
    /\ MixReachesEngine
    /\ UNCHANGED <<room, mixes, waiting, speed, turns>>

CanPlayMounts ==
    /\ room.stage = "mounting"
    /\ room' = [room EXCEPT !.stage = "mounted"]
    /\ UNCHANGED <<desk, sounds, mixes, waiting, asked, speed, turns>>

(* eng.ready: applyMix() and applyAllLanePitches() from what is loaded.    *)
EngineComesUp ==
    /\ room.stage = "mounted"
    /\ room' = [room EXCEPT !.stage = "up"]
    /\ sounds' = [gains |-> Gains(desk, Shown), keys |-> Keys(desk, Shown)]
    /\ UNCHANGED <<desk, mixes, waiting, asked, speed, turns>>

----------------------------------------------------------------------------
(* The lanes.                                                              *)

Moves(what, d) ==
    /\ DeskActs(what) /\ DeskSpent
    /\ desk' = d /\ Hear(d) /\ Save(d)
    /\ UNCHANGED <<room, mixes, asked, speed>>

SetLaneVolume(n, v) == Moves("volume", [desk EXCEPT ![n].volume = v])
ToggleStemMute(n) == Moves("mute", [desk EXCEPT ![n].muted = ~@])
ToggleStemSolo(n) == Moves("solo", [desk EXCEPT ![n].soloed = ~@])

(* "Monitor": the lane alone, or all of them again.                        *)
Alone(n) == desk[n].soloed /\ \A m \in Strips \ {n} : ~desk[m].soloed
SoloOnlyStem(n) ==
    Moves("solo", IF Alone(n) THEN [desk EXCEPT ![n].soloed = FALSE]
                  ELSE [m \in Strips |-> [desk[m] EXCEPT !.soloed = (m = n),
                                                        !.muted = @ /\ m # n]])

ResetMixer ==
    Moves("reset", [n \in Strips |-> [Fresh EXCEPT !.key = desk[n].key]])

(* The direction of the toggle is read off the lanes shown, and every lane *)
(* follows it.                                                             *)
MuteAll ==
    LET all == \A n \in Shown : desk[n].muted
    IN Moves("mute", [n \in Strips |-> [desk[n] EXCEPT !.muted = ~all]])

ClearAllSolos == Moves("solo", [n \in Strips |-> [desk[n] EXCEPT !.soloed = FALSE]])

----------------------------------------------------------------------------
(* Keys.                                                                   *)

(* A slip of the code: a lane moved along with the song leaves its range.  *)
NudgedPastTheEnd(d, n, k) == IF n = "drums" THEN d[n] ELSE [d[n] EXCEPT !.key = k]

(* setLanePitch(): refused for drums, clamped at the ends.                 *)
Nudged(d, n, k) == IF n = "drums" THEN d[n] ELSE [d[n] EXCEPT !.key = Clamp(k)]

Rekeyed(d) ==
    /\ desk' = d
    /\ sounds' = IF Up THEN [sounds EXCEPT !.keys = Keys(d, Shown)] ELSE sounds
    /\ waiting' = IF d # desk THEN [waiting EXCEPT ![room.track] = d] ELSE waiting
    /\ UNCHANGED <<mixes, asked, speed>>

SetLanePitch(n, k) ==
    /\ DeskActs("lanekey") /\ DeskSpent /\ Up
    /\ Rekeyed([desk EXCEPT ![n] = Nudged(desk, n, k)])
    /\ UNCHANGED room

(* applyPitch(): the lanes move by what the readout moved.                 *)
ApplyPitch(k) ==
    /\ DeskActs("key") /\ DeskSpent /\ Up
    /\ room' = [room EXCEPT !.key = Clamp(k)]
    /\ Rekeyed([n \in Strips |-> Nudged(desk, n, desk[n].key + Clamp(k) - room.key)])

ResetAllKeys ==
    /\ DeskActs("key") /\ DeskSpent /\ Up
    /\ room' = [room EXCEPT !.key = 0]
    /\ Rekeyed([n \in Strips |-> Nudged(desk, n, 0)])

----------------------------------------------------------------------------
(* The store and the speed.                                                *)

MixSaves(t) ==
    /\ waiting[t] # NoMix
    /\ mixes' = [mixes EXCEPT ![t] = waiting[t]]
    /\ waiting' = [waiting EXCEPT ![t] = NoMix]
    /\ UNCHANGED <<desk, room, sounds, asked, speed, turns>>

PressSpeed(button) ==
    /\ DeskActs("speed") /\ DeskSpent
    /\ speed' = [speed EXCEPT !.lit = button, !.pressed = button]
    /\ UNCHANGED <<desk, room, sounds, mixes, waiting, asked>>

(* The slow button is scrolled: it applies once the wheel has been still.  *)
NudgeSlowSpeed ==
    /\ DeskActs("speed") /\ DeskSpent
    /\ speed' = [speed EXCEPT !.timer = TRUE, !.pressed = "slow"]
    /\ UNCHANGED <<desk, room, sounds, mixes, waiting, asked>>

SlowApplies ==
    /\ speed.timer
    /\ speed' = [speed EXCEPT !.timer = FALSE, !.lit = "slow"]
    /\ UNCHANGED <<desk, room, sounds, mixes, waiting, asked, turns>>

DeskNext ==
    \/ MixAnswers \/ CanPlayMounts \/ EngineComesUp \/ ResetMixer \/ MuteAll \/ ClearAllSolos
    \/ ResetAllKeys \/ NudgeSlowSpeed \/ SlowApplies
    \/ \E t \in Tracked : OpenRecord(t) \/ MixSaves(t)
    \/ \E n \in Strips : \/ SetLaneVolume(n, 0) \/ SetLaneVolume(n, 2)
                         \/ ToggleStemMute(n) \/ ToggleStemSolo(n) \/ SoloOnlyStem(n)
                         \/ SetLanePitch(n, desk[n].key + 1) \/ SetLanePitch(n, desk[n].key - 1)
    \/ ApplyPitch(room.key + 1) \/ ApplyPitch(room.key - 1)
    \/ \E b \in {"half", "slow", "normal"} : PressSpeed(b)

DeskSpec == DeskInit /\ [][DeskNext]_deskVars

----------------------------------------------------------------------------
(* What is expected.                                                       *)

DeskTypeOK ==
    /\ \A n \in Strips : /\ desk[n].volume \in 0..2 /\ desk[n].key \in -KeyEnd..KeyEnd
                         /\ desk[n].muted \in BOOLEAN /\ desk[n].soloed \in BOOLEAN
    /\ room.track \in Tracked /\ room.stage \in Stages /\ room.key \in -KeyEnd..KeyEnd
    /\ speed.lit \in {"half", "slow", "normal"}

(* Whichever of the mix and the engine comes first, and whatever is        *)
(* pressed meanwhile or on the track before, once the mix is there the     *)
(* gains heard are those of the faders, mutes and solos shown.             *)
HeardIsShown == Up /\ asked = <<>> => sounds.gains = Gains(desk, Shown)
=============================================================================

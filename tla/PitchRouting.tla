---------------------------- MODULE PitchRouting ----------------------------
(***************************************************************************)
(* How a lane of either engine is put in its key: one bus per semitone     *)
(* into the pitch worklet, a lane connected to the bus of its transpose,   *)
(* and a bus wired into the worklet only while a lane is on it.  While the *)
(* track plays the change of bus is ducked, so it happens a little later.  *)
(***************************************************************************)
EXTENDS Integers, FiniteSets, Sequences

CONSTANTS
    Lanes,          \* the tracks of the engine
    Drums,          \* the lanes that must never be resampled
    MaxPitch,       \* PITCH_MAX, and -PITCH_MIN
    Nowhere,        \* a lane that is not connected yet
    MaxSwaps        \* bound: bus changes on their way at once

ASSUME RoutingAssumption ==
    /\ IsFiniteSet(Lanes) /\ Drums \subseteq Lanes
    /\ MaxPitch \in Nat /\ Nowhere \notin Int

VARIABLES
    pitch,          \* the transpose of each lane
    bus,            \* the bus each lane is connected to
    busLanes,       \* how many lanes each bus counts
    wired,          \* the buses connected to the worklet
    worklet,        \* "loading", "ready" or "failed"
    swaps,          \* bus changes waiting for their timer
    sounding,       \* the engine plays
    gone            \* the engine was destroyed

routingVars == <<pitch, bus, busLanes, wired, worklet, swaps, sounding, gone>>

Pitches == (-MaxPitch)..MaxPitch
ZeroInput == 0
Buses == Pitches    \* inputForPitch() only shifts the number

RoutingTypeOK ==
    /\ pitch \in [Lanes -> Pitches]
    /\ bus \in [Lanes -> Buses \cup {Nowhere}]
    /\ busLanes \in [Buses -> Int]
    /\ wired \subseteq Buses
    /\ worklet \in {"loading", "ready", "failed"}
    /\ swaps \in Seq([lane : Lanes, target : Buses])
    /\ sounding \in BOOLEAN /\ gone \in BOOLEAN

EffectivePitch(l, p) == IF l \in Drums THEN ZeroInput ELSE p

RoutingInit ==
    /\ pitch = [l \in Lanes |-> 0]
    /\ bus = [l \in Lanes |-> Nowhere]
    /\ busLanes = [k \in Buses |-> 0]
    /\ wired = {}
    /\ worklet = "loading"
    /\ swaps = <<>>
    /\ sounding = FALSE
    /\ gone = FALSE

----------------------------------------------------------------------------
(* swap(): the first lane on a bus wires it, the last to leave unwires it. *)
(* The unpitched bus is wired for good, the click is scheduled on it.      *)
Arrived(target) == [busLanes EXCEPT ![target] = @ + 1]

Left(counts, previous) ==
    IF previous = Nowhere THEN counts ELSE [counts EXCEPT ![previous] = @ - 1]

Emptied(counts, k) == k \in Buses /\ k # ZeroInput /\ counts[k] = 0

(* A slip of the code: the bus left behind stays wired.                    *)
SwapKeepingTheWire(l, target) ==
    /\ bus' = [bus EXCEPT ![l] = target]
    /\ busLanes' = Left(Arrived(target), bus[l])
    /\ wired' = IF worklet = "ready" THEN wired \cup {target} ELSE wired

Swap(l, target) ==
    LET counts == Left(Arrived(target), bus[l])
    IN /\ bus' = [bus EXCEPT ![l] = target]
       /\ busLanes' = counts
       /\ wired' = IF worklet = "ready"
                   THEN (wired \cup {target}) \ {k \in {bus[l]} : Emptied(counts, k)}
                   ELSE wired

(* A stem is built, or decoded, and goes to the bus of no transpose.       *)
AddLane(l) ==
    /\ ~gone /\ bus[l] = Nowhere
    /\ Swap(l, ZeroInput)
    /\ UNCHANGED <<pitch, worklet, swaps, sounding, gone>>

(* The worklet arrives after some lanes: what they occupy is wired now.    *)
WorkletReady ==
    /\ worklet = "loading"
    /\ worklet' = "ready"
    /\ wired' = {ZeroInput} \cup {k \in Buses : busLanes[k] > 0}
    /\ UNCHANGED <<pitch, bus, busLanes, swaps, sounding, gone>>

WorkletFails ==
    /\ worklet = "loading"
    /\ worklet' = "failed"
    /\ UNCHANGED <<pitch, bus, busLanes, wired, swaps, sounding, gone>>

(* setStemPitch() and routeStem() or routeTrack().                         *)
SetStemPitch(l, p) ==
    /\ ~gone /\ worklet = "ready" /\ bus[l] # Nowhere /\ pitch[l] # p
    /\ pitch' = [pitch EXCEPT ![l] = p]
    /\ LET target == EffectivePitch(l, p)
       IN CASE bus[l] = target -> UNCHANGED <<bus, busLanes, wired, swaps>>
            [] bus[l] # target /\ ~sounding -> Swap(l, target) /\ UNCHANGED swaps
            [] bus[l] # target /\ sounding ->
                 /\ Len(swaps) < MaxSwaps
                 /\ swaps' = Append(swaps, [lane |-> l, target |-> target])
                 /\ UNCHANGED <<bus, busLanes, wired>>
    /\ UNCHANGED <<worklet, sounding, gone>>

(* The timers fire in the order they were set.                             *)
FireSwap ==
    /\ swaps # <<>>
    /\ swaps' = Tail(swaps)
    /\ IF gone THEN UNCHANGED <<bus, busLanes, wired>>
               ELSE Swap(Head(swaps).lane, Head(swaps).target)
    /\ UNCHANGED <<pitch, worklet, sounding, gone>>

StartOrStop ==
    /\ ~gone
    /\ sounding' = ~sounding
    /\ UNCHANGED <<pitch, bus, busLanes, wired, worklet, swaps, gone>>

Dispose ==
    /\ ~gone
    /\ gone' = TRUE /\ sounding' = FALSE
    /\ UNCHANGED <<pitch, bus, busLanes, wired, worklet, swaps>>

RoutingNext ==
    \/ \E l \in Lanes : AddLane(l) \/ \E p \in Pitches : SetStemPitch(l, p)
    \/ WorkletReady \/ WorkletFails \/ FireSwap \/ StartOrStop \/ Dispose

RoutingSpec == RoutingInit /\ [][RoutingNext]_routingVars

----------------------------------------------------------------------------
On(k) == {l \in Lanes : bus[l] = k}

CountsAreTrue == \A k \in Buses : busLanes[k] = Cardinality(On(k))

(* Every lane that is connected reaches the worklet, and no bus without a  *)
(* lane does: an idle bus costs a whole pitch chain on silence, #576.      *)
BusesFollowLanes ==
    worklet = "ready" =>
        \A k \in Buses : k \in wired <=> (k = ZeroInput \/ On(k) # {})

(* Resampling a snare makes it a different drum: whatever is asked, drums  *)
(* are heard at their own key (effectivePitch in pitchBus.js).             *)
DrumsKeepTheirKey == \A l \in Drums : bus[l] \in {Nowhere, ZeroInput}

(* Every lane reaches the worklet, and the drums at their own key.         *)
LanesAreRouted == BusesFollowLanes /\ DrumsKeepTheirKey
=============================================================================

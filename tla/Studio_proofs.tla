---------------------------- MODULE Studio_proofs -----------------------------
(* Proofs about the parts of the studio.                                   *)
EXTENDS Studio, Editors_proofs

-----------------------------------------------------------------------------
(***************************************************************************)
(* Proofs about PitchRouting for any lanes, any range of transposes and    *)
(* any number of bus changes on their way: the types, and that every lane  *)
(* is routed.  RoutingInv is inductive; all that moves a lane is Swap, so  *)
(* one lemma, SwapKeeps, carries the proof.                                *)
(***************************************************************************)

USE DEF routingVars

-----------------------------------------------------------------------------
(* No change on its way takes a drum off its own key.                      *)
SwapsSpareDrums ==
    \A i \in DOMAIN swaps : swaps[i].lane \in Drums => swaps[i].target = ZeroInput

RoutingInv ==
    /\ RoutingTypeOK
    /\ CountsAreTrue
    /\ BusesFollowLanes
    /\ DrumsKeepTheirKey
    /\ SwapsSpareDrums

LEMMA BusFacts ==
    /\ ZeroInput \in Buses /\ Nowhere \notin Buses /\ Buses \subseteq Int
    /\ \A l \in Lanes, p \in Pitches : EffectivePitch(l, p) \in Buses
  BY RoutingAssumption DEF ZeroInput, Buses, Pitches, EffectivePitch

(* The lanes of a bus can be counted, and are counted as none only when    *)
(* there are none.                                                         *)
LEMMA LanesOfBus ==
    ASSUME NEW k
    PROVE  /\ IsFiniteSet(On(k)) /\ Cardinality(On(k)) \in Nat
           /\ Cardinality(On(k)) = 0 <=> On(k) = {}
<1>1. IsFiniteSet(On(k))
  <2>1. On(k) \subseteq Lanes
    BY DEF On
  <2> QED  BY <2>1, RoutingAssumption, FS_Subset
<1> QED  BY <1>1, FS_CardinalityType, FS_EmptySet

(* How a change of bus changes who is where.                               *)
LEMMA SwapMoves ==
    ASSUME RoutingTypeOK, NEW l \in Lanes, NEW target \in Buses, Swap(l, target), NEW k \in Buses
    PROVE  On(k)' = IF k = target THEN On(k) \cup {l} ELSE On(k) \ {l}
<1>1. bus' = [bus EXCEPT ![l] = target] /\ bus \in [Lanes -> Buses \cup {Nowhere}]
  BY DEF Swap, RoutingTypeOK
<1>2. \A x \in Lanes : bus'[x] = IF x = l THEN target ELSE bus[x]
  BY <1>1
<1>3. On(k)' = {x \in Lanes : bus'[x] = k}
  BY DEF On
<1> QED  BY <1>2, <1>3 DEF On

(* How it changes the counts.                                              *)
LEMMA SwapCounts ==
    ASSUME RoutingTypeOK, NEW l \in Lanes, NEW target \in Buses, Swap(l, target)
    PROVE  /\ busLanes' \in [Buses -> Int]
           /\ \A k \in Buses :
                busLanes'[k] = busLanes[k] + (IF k = target THEN 1 ELSE 0)
                                           - (IF k = bus[l] THEN 1 ELSE 0)
<1> DEFINE more == [busLanes EXCEPT ![target] = busLanes[target] + 1]
<1>1. busLanes \in [Buses -> Int] /\ bus[l] \in Buses \cup {Nowhere}
  BY DEF RoutingTypeOK
<1>2. busLanes' = IF bus[l] = Nowhere THEN more ELSE [more EXCEPT ![bus[l]] = more[bus[l]] - 1]
  BY DEF Swap, Left, Arrived
<1>3. more \in [Buses -> Int] /\ \A k \in Buses : more[k] = busLanes[k] + (IF k = target THEN 1 ELSE 0)
  BY <1>1
<1> HIDE DEF more
<1>4. CASE bus[l] = Nowhere
  <2>1. \A k \in Buses : k # bus[l]
    BY <1>4, BusFacts
  <2> QED  BY <1>2, <1>3, <1>4, <2>1, <1>1
<1>5. CASE bus[l] # Nowhere
  <2>1. bus[l] \in Buses /\ busLanes' = [more EXCEPT ![bus[l]] = more[bus[l]] - 1]
    BY <1>1, <1>2, <1>5
  <2>2. busLanes' \in [Buses -> Int]
    BY <2>1, <1>3
  <2>3. \A k \in Buses : busLanes'[k] = more[k] - (IF k = bus[l] THEN 1 ELSE 0)
    BY <2>1, <1>3
  <2> QED  BY <2>2, <2>3, <1>3, <1>1
<1> QED  BY <1>4, <1>5

(* So the counts stay true, ...                                            *)
LEMMA SwapKeepsCounts ==
    ASSUME RoutingTypeOK, CountsAreTrue, NEW l \in Lanes, NEW target \in Buses, Swap(l, target)
    PROVE  CountsAreTrue'
<1> SUFFICES ASSUME NEW k \in Buses PROVE busLanes'[k] = Cardinality(On(k)')
  BY DEF CountsAreTrue
<1>1. busLanes[k] = Cardinality(On(k)) /\ IsFiniteSet(On(k)) /\ Cardinality(On(k)) \in Nat
  BY LanesOfBus DEF CountsAreTrue
<1>2. busLanes'[k] = busLanes[k] + (IF k = target THEN 1 ELSE 0) - (IF k = bus[l] THEN 1 ELSE 0)
  BY SwapCounts
<1>3. On(k)' = IF k = target THEN On(k) \cup {l} ELSE On(k) \ {l}
  BY SwapMoves
<1>4. l \in On(k) <=> bus[l] = k
  BY DEF On
<1>5. Cardinality(On(k) \cup {l}) = IF l \in On(k) THEN Cardinality(On(k)) ELSE Cardinality(On(k)) + 1
  BY <1>1, FS_AddElement
<1>6. Cardinality(On(k) \ {l}) = IF l \in On(k) THEN Cardinality(On(k)) - 1 ELSE Cardinality(On(k))
  BY <1>1, FS_RemoveElement
<1>7. CASE k = target
  BY <1>1, <1>2, <1>3, <1>4, <1>5, <1>7
<1>8. CASE k # target
  BY <1>1, <1>2, <1>3, <1>4, <1>6, <1>8
<1> QED  BY <1>7, <1>8

(* ... and a bus is wired while it has a lane: the one gone to has one     *)
(* now, the one left goes with its last.                                   *)
LEMMA SwapKeepsWires ==
    ASSUME RoutingTypeOK, CountsAreTrue, BusesFollowLanes,
           NEW l \in Lanes, NEW target \in Buses, Swap(l, target), UNCHANGED worklet
    PROVE  wired' \subseteq Buses /\ BusesFollowLanes'
<1>1. wired' = IF worklet = "ready"
               THEN (wired \cup {target}) \ {k \in {bus[l]} : Emptied(busLanes', k)}
               ELSE wired
  BY DEF Swap
<1>2. wired' \subseteq Buses
  BY <1>1 DEF RoutingTypeOK
<1>3. ASSUME worklet = "ready", NEW k \in Buses
      PROVE  k \in wired' <=> (k = ZeroInput \/ On(k)' # {})
  <2>1. k \in wired <=> (k = ZeroInput \/ On(k) # {})
    BY <1>3 DEF BusesFollowLanes
  <2>2. On(k)' = IF k = target THEN On(k) \cup {l} ELSE On(k) \ {l}
    BY SwapMoves
  <2>3. busLanes'[k] = Cardinality(On(k)')
    BY SwapKeepsCounts DEF CountsAreTrue
  <2>4. Cardinality(On(k)') = 0 <=> On(k)' = {}
    <3>1. On(k)' \subseteq Lanes
      BY DEF On
    <3> QED  BY <3>1, RoutingAssumption, FS_Subset, FS_EmptySet
  <2>5. k \in wired' <=> (k \in wired \/ k = target) /\ ~(k = bus[l] /\ k # ZeroInput /\ On(k)' = {})
    BY <1>1, <1>3, <2>3, <2>4 DEF Emptied
  <2>6. k # bus[l] => l \notin On(k)
    BY DEF On
  <2> QED  BY <2>1, <2>2, <2>5, <2>6
<1> QED  BY <1>2, <1>3 DEF BusesFollowLanes

(* All a change of bus does to the invariant, when it spares the drums.    *)
LEMMA SwapKeeps ==
    ASSUME RoutingInv, NEW l \in Lanes, NEW target \in Buses, Swap(l, target), UNCHANGED worklet,
           l \in Drums => target = ZeroInput
    PROVE  /\ bus' \in [Lanes -> Buses \cup {Nowhere}] /\ busLanes' \in [Buses -> Int]
           /\ wired' \subseteq Buses
           /\ CountsAreTrue' /\ BusesFollowLanes' /\ DrumsKeepTheirKey'
<1> USE DEF RoutingInv
<1>1. bus' = [bus EXCEPT ![l] = target] /\ bus \in [Lanes -> Buses \cup {Nowhere}]
  BY DEF Swap, RoutingTypeOK
<1>2. bus' \in [Lanes -> Buses \cup {Nowhere}]
  BY <1>1
<1>3. DrumsKeepTheirKey'
  BY <1>1, RoutingAssumption DEF DrumsKeepTheirKey
<1> QED  BY <1>2, <1>3, SwapCounts, SwapKeepsCounts, SwapKeepsWires

-----------------------------------------------------------------------------
LEMMA RoutingInitially == RoutingInit => RoutingInv
<1> SUFFICES ASSUME RoutingInit PROVE RoutingInv
  OBVIOUS
<1>1. RoutingTypeOK
  <2>1. 0 \in Pitches
    BY RoutingAssumption DEF Pitches
  <2>2. /\ pitch \in [Lanes -> Pitches] /\ bus \in [Lanes -> Buses \cup {Nowhere}]
        /\ busLanes \in [Buses -> Int] /\ wired \subseteq Buses
    BY <2>1 DEF RoutingInit
  <2>3. swaps \in Seq([lane : Lanes, target : Buses])
    BY DEF RoutingInit
  <2> QED  BY <2>2, <2>3 DEF RoutingInit, RoutingTypeOK
<1>2. \A k \in Buses : On(k) = {}
  BY BusFacts DEF RoutingInit, On
<1>3. CountsAreTrue
  BY <1>2, LanesOfBus DEF RoutingInit, CountsAreTrue
<1>4. BusesFollowLanes /\ DrumsKeepTheirKey /\ SwapsSpareDrums
  BY RoutingAssumption DEF RoutingInit, BusesFollowLanes, DrumsKeepTheirKey, SwapsSpareDrums
<1> QED  BY <1>1, <1>3, <1>4 DEF RoutingInv

LEMMA RoutingStep == RoutingInv /\ [RoutingNext]_routingVars => RoutingInv'
<1> SUFFICES ASSUME RoutingInv, [RoutingNext]_routingVars PROVE RoutingInv'
  OBVIOUS
<1> USE DEF RoutingInv
<1>1. ASSUME NEW l \in Lanes, AddLane(l) PROVE RoutingInv'
  <2>1. Swap(l, ZeroInput) /\ UNCHANGED <<pitch, worklet, swaps, sounding, gone>>
    BY <1>1 DEF AddLane
  <2>2. /\ bus' \in [Lanes -> Buses \cup {Nowhere}] /\ busLanes' \in [Buses -> Int]
        /\ wired' \subseteq Buses
        /\ CountsAreTrue' /\ BusesFollowLanes' /\ DrumsKeepTheirKey'
    BY <2>1, BusFacts, SwapKeeps
  <2> QED  BY <2>1, <2>2 DEF RoutingTypeOK, SwapsSpareDrums
<1>2. ASSUME NEW l \in Lanes, NEW p \in Pitches, SetStemPitch(l, p) PROVE RoutingInv'
  <2> DEFINE target == EffectivePitch(l, p)
  <2>1. /\ target \in Buses /\ (l \in Drums => target = ZeroInput)
        /\ pitch' \in [Lanes -> Pitches] /\ UNCHANGED <<worklet, sounding, gone>>
    BY <1>2, BusFacts DEF SetStemPitch, RoutingTypeOK, EffectivePitch
  <2>2. \/ UNCHANGED <<bus, busLanes, wired, swaps>>
        \/ Swap(l, target) /\ UNCHANGED swaps
        \/ UNCHANGED <<bus, busLanes, wired>> /\ swaps' = Append(swaps, [lane |-> l, target |-> target])
    BY <1>2 DEF SetStemPitch
  <2> HIDE DEF target
  <2>3. CASE UNCHANGED <<bus, busLanes, wired, swaps>>
    BY <2>1, <2>3 DEF RoutingTypeOK, CountsAreTrue, On, BusesFollowLanes, DrumsKeepTheirKey, SwapsSpareDrums
  <2>4. CASE Swap(l, target) /\ UNCHANGED swaps
    <3>1. /\ bus' \in [Lanes -> Buses \cup {Nowhere}] /\ busLanes' \in [Buses -> Int]
          /\ wired' \subseteq Buses
          /\ CountsAreTrue' /\ BusesFollowLanes' /\ DrumsKeepTheirKey'
      BY <2>1, <2>4, SwapKeeps
    <3> QED  BY <2>1, <2>4, <3>1 DEF RoutingTypeOK, SwapsSpareDrums
  <2>5. CASE UNCHANGED <<bus, busLanes, wired>> /\ swaps' = Append(swaps, [lane |-> l, target |-> target])
    <3> DEFINE one == [lane |-> l, target |-> target]
    <3>1. one \in [lane : Lanes, target : Buses] /\ swaps \in Seq([lane : Lanes, target : Buses])
      BY <2>1 DEF RoutingTypeOK
    <3>2. RoutingTypeOK'
      BY <2>1, <2>5, <3>1 DEF RoutingTypeOK
    <3>3. \A i \in DOMAIN swaps' : swaps'[i] = one \/ (i \in DOMAIN swaps /\ swaps'[i] = swaps[i])
      BY <2>5, <3>1
    <3>4. SwapsSpareDrums'
      BY <3>3, <2>1 DEF SwapsSpareDrums
    <3> QED  BY <2>1, <2>5, <3>2, <3>4 DEF CountsAreTrue, On, BusesFollowLanes, DrumsKeepTheirKey
  <2> QED  BY <2>2, <2>3, <2>4, <2>5
<1>3. ASSUME WorkletReady PROVE RoutingInv'
  <2>1. /\ worklet' = "ready" /\ wired' = {ZeroInput} \cup {k \in Buses : busLanes[k] > 0}
        /\ UNCHANGED <<pitch, bus, busLanes, swaps, sounding, gone>>
    BY <1>3 DEF WorkletReady
  <2>2. \A k \in Buses : busLanes[k] > 0 <=> On(k) # {}
    BY LanesOfBus DEF CountsAreTrue
  <2>3. BusesFollowLanes'
    BY <2>1, <2>2, BusFacts DEF BusesFollowLanes, On
  <2> QED  BY <2>1, <2>3, BusFacts DEF RoutingTypeOK, CountsAreTrue, On, DrumsKeepTheirKey, SwapsSpareDrums
<1>4. ASSUME FireSwap PROVE RoutingInv'
  <2>1. /\ swaps # <<>> /\ swaps' = Tail(swaps) /\ UNCHANGED <<pitch, worklet, sounding, gone>>
        /\ \/ UNCHANGED <<bus, busLanes, wired>>
           \/ Swap(Head(swaps).lane, Head(swaps).target)
    BY <1>4 DEF FireSwap
  <2>2. swaps \in Seq([lane : Lanes, target : Buses])
    BY DEF RoutingTypeOK
  <2>3. /\ Head(swaps).lane \in Lanes /\ Head(swaps).target \in Buses
        /\ Head(swaps).lane \in Drums => Head(swaps).target = ZeroInput
    <3> DEFINE Change == [lane : Lanes, target : Buses]
    <3>1. swaps \in Seq(Change)
      BY <2>2
    <3> HIDE DEF Change
    <3>2. 1 \in DOMAIN swaps /\ Head(swaps) = swaps[1] /\ swaps[1] \in Change
      BY <2>1, <3>1
    <3> QED  BY <3>2 DEF SwapsSpareDrums, Change
  <2>4. swaps' \in Seq([lane : Lanes, target : Buses]) /\ SwapsSpareDrums'
    <3>1. \A i \in DOMAIN swaps' : i + 1 \in DOMAIN swaps /\ swaps'[i] = swaps[i + 1]
      BY <2>1, <2>2
    <3> QED  BY <2>1, <2>2, <3>1 DEF SwapsSpareDrums
  <2>5. CASE UNCHANGED <<bus, busLanes, wired>>
    BY <2>1, <2>4, <2>5 DEF RoutingTypeOK, CountsAreTrue, On, BusesFollowLanes, DrumsKeepTheirKey
  <2>6. CASE Swap(Head(swaps).lane, Head(swaps).target)
    <3>1. /\ bus' \in [Lanes -> Buses \cup {Nowhere}] /\ busLanes' \in [Buses -> Int]
          /\ wired' \subseteq Buses
          /\ CountsAreTrue' /\ BusesFollowLanes' /\ DrumsKeepTheirKey'
      BY <2>1, <2>3, <2>6, SwapKeeps
    <3> QED  BY <2>1, <2>4, <3>1 DEF RoutingTypeOK
  <2> QED  BY <2>1, <2>5, <2>6
<1>5. ASSUME WorkletFails \/ StartOrStop \/ Dispose \/ UNCHANGED routingVars PROVE RoutingInv'
  BY <1>5 DEF WorkletFails, StartOrStop, Dispose, RoutingTypeOK, CountsAreTrue, On,
              BusesFollowLanes, DrumsKeepTheirKey, SwapsSpareDrums
<1> QED  BY <1>1, <1>2, <1>3, <1>4, <1>5 DEF RoutingNext

LEMMA RoutingInvHolds == RoutingSpec => []RoutingInv
  BY RoutingInitially, RoutingStep, PTL DEF RoutingSpec

(* The state of the routing is of its type.                                *)
THEOREM RoutingTypeCorrect == RoutingSpec => []RoutingTypeOK
<1>1. RoutingInv => RoutingTypeOK
  BY DEF RoutingInv
<1> QED  BY <1>1, RoutingInvHolds, PTL

(* _laneArriving and _laneLeft count the lanes of each bus, through every  *)
(* change that lands late: no bus is unwired under a lane, or kept for one *)
(* that left.                                                              *)
THEOREM BusCountsAreTrue == RoutingSpec => []CountsAreTrue
<1>1. RoutingInv => CountsAreTrue
  BY DEF RoutingInv
<1> QED  BY <1>1, RoutingInvHolds, PTL

(* Every lane that is connected reaches the worklet, no bus without a lane *)
(* does, and the drums are heard at their own key.                         *)
THEOREM EveryLaneIsRouted == RoutingSpec => []LanesAreRouted
<1>1. RoutingInv => LanesAreRouted
  BY DEF RoutingInv, LanesAreRouted
<1> QED  BY <1>1, RoutingInvHolds, PTL

-----------------------------------------------------------------------------
(***************************************************************************)
(* Proofs about PlayerSession for any tracks and any number of loads that  *)
(* overlap: one engine lives at a time and owns the click.  A handler is a *)
(* composition of functions of the page's state, so the invariant is a     *)
(* predicate of that state and each function has its lemma.                *)
(***************************************************************************)

Kinds == {"chunked", "fulldecode"}
PlayerRecs ==
    [mode : Kinds \cup {"streaming"}, fits : SUBSET Tracks, current : Tracks \cup {Nobody},
     token : Nat, mounted : Nat, engine : Nat, click : Nat, editor : Nat, refused : Nat]
LoadRecs == [track : Tracks, peaks : Answers, beats : Answers, shown : BOOLEAN]
EngineRecs == [load : Nat \ {0}, kind : Kinds, state : EngineStates, asked : BOOLEAN]

SessionType(s) == s \in [p : PlayerRecs, e : Seq(EngineRecs), l : Seq(LoadRecs)]

(* What the page holds are loads and engines there are; its multitrack is  *)
(* of the newest load or there is none; a load with an engine was shown.   *)
HoldsWhatIs(s) ==
    /\ s.p.token = Len(s.l) /\ s.p.mounted \in {0, s.p.token}
    /\ s.p.refused \in 0..Len(s.l) /\ s.p.editor \in 0..Len(s.l)
    /\ s.p.engine \in 0..Len(s.e) /\ s.p.click \in 0..Len(s.e)
    /\ \A e \in DOMAIN s.e : s.e[e].load \in DOMAIN s.l /\ s.l[s.e[e].load].shown

(* The engine playing is the one that lives, and once it answered it is up.*)
OneAlive(s) ==
    \A e \in DOMAIN s.e :
        /\ s.e[e].state # "dead" <=> s.p.engine = e
        /\ s.e[e].state # "dead" /\ ~s.e[e].asked => s.e[e].state = "up"

ClickIsOwned(s) ==
    /\ s.p.click # 0 => s.p.click = s.p.engine /\ s.e[s.p.click].state = "up"
    /\ s.p.editor # 0 => s.p.click # 0 /\ s.p.editor = s.e[s.p.click].load

Base(s) == SessionType(s) /\ HoldsWhatIs(s) /\ OneAlive(s) /\ ClickIsOwned(s)

(* An answer of the newest load's can only come from the engine playing:   *)
(* it may bring that one up, never one that was dropped.                   *)
Expected(s, e) == s.e[e].asked /\ Newest(s, e)
OnlyPlayingIsExpected(s) == \A e \in DOMAIN s.e : Expected(s, e) => s.p.engine = e

SessionInv(s) == Base(s) /\ OnlyPlayingIsExpected(s)

-----------------------------------------------------------------------------
(* What each piece of the handlers does to the parts of the page's state.  *)
LEMMA TeardownParts ==
    ASSUME NEW s, SessionType(s)
    PROVE  LET r == TeardownMetronome(s)
           IN /\ SessionType(r) /\ r.e = s.e /\ r.l = s.l
              /\ r.p = [s.p EXCEPT !.click = 0, !.editor = 0]
<1> DEFINE q == [s.p EXCEPT !.click = 0, !.editor = 0]
<1>1. TeardownMetronome(s) = [s EXCEPT !.p = q]
  BY DEF TeardownMetronome, SessionType
<1>2. q \in PlayerRecs
  BY DEF SessionType, PlayerRecs
<1> HIDE DEF q
<1> QED  BY <1>1, <1>2 DEF SessionType, q

LEMMA RetireParts ==
    ASSUME NEW s, SessionType(s), NEW e \in DOMAIN s.e
    PROVE  LET r == Retire(s, e)
           IN /\ SessionType(r) /\ r.l = s.l /\ DOMAIN r.e = DOMAIN s.e /\ Len(r.e) = Len(s.e)
              /\ r.e[e] = [s.e[e] EXCEPT !.state = "dead"]
              /\ \A d \in DOMAIN s.e \ {e} : r.e[d] = s.e[d]
              /\ r.p = [s.p EXCEPT !.engine = IF s.p.engine = e THEN 0 ELSE s.p.engine]
<1> DEFINE dead == [s.e[e] EXCEPT !.state = "dead"]
           x == [s.e EXCEPT ![e] = dead]
           q == [s.p EXCEPT !.engine = IF s.p.engine = e THEN 0 ELSE s.p.engine]
<1>1. Retire(s, e) = [s EXCEPT !.e = x, !.p = q]
  BY DEF Retire, SessionType
<1>2. s.e \in Seq(EngineRecs) /\ e \in 1..Len(s.e)
  BY DEF SessionType
<1>3. dead \in EngineRecs
  <2>1. s.e[e] \in EngineRecs
    BY <1>2, ElementOfSeq
  <2> QED  BY <2>1 DEF EngineRecs, EngineStates
<1>4. q \in PlayerRecs
  BY DEF SessionType, PlayerRecs
<1> HIDE DEF dead, q
<1>5. x \in Seq(EngineRecs) /\ Len(x) = Len(s.e)
      /\ \A j \in 1..Len(s.e) : x[j] = IF j = e THEN dead ELSE s.e[j]
  BY <1>2, <1>3, ExceptSeq
<1> HIDE DEF x
<1>6. DOMAIN x = 1..Len(s.e) /\ DOMAIN s.e = 1..Len(s.e)
  BY <1>2, <1>5, LenProperties
<1> QED  BY <1>1, <1>2, <1>4, <1>5, <1>6 DEF SessionType, dead, q

HasStarted(s, r, n, load, kind) ==
    /\ SessionType(r) /\ r.l = s.l /\ Len(r.e) = n /\ DOMAIN r.e = 1..n
    /\ n \in Nat \ {0} /\ DOMAIN s.e = 1..(n - 1)
    /\ r.e[n] = [load |-> load, kind |-> kind, state |-> "starting", asked |-> TRUE]
    /\ \A d \in 1..(n - 1) : r.e[d] = s.e[d]
    /\ r.p = [s.p EXCEPT !.engine = n, !.refused = 0]

LEMMA StartParts ==
    ASSUME NEW s, SessionType(s), NEW load \in Nat \ {0}, NEW kind \in Kinds
    PROVE  HasStarted(s, StartEngine(s, load, kind), Len(s.e) + 1, load, kind)
<1> DEFINE new == [load |-> load, kind |-> kind, state |-> "starting", asked |-> TRUE]
           x == Append(s.e, new)
           n == Len(s.e) + 1
           q == [s.p EXCEPT !.engine = n, !.refused = 0]
<1>1. StartEngine(s, load, kind) = [s EXCEPT !.e = x, !.p = q]
  BY DEF StartEngine, SessionType
<1>2. s.e \in Seq(EngineRecs) /\ Len(s.e) \in Nat /\ DOMAIN s.e = 1..Len(s.e)
  BY LenProperties DEF SessionType
<1>3. new \in EngineRecs
  BY DEF EngineRecs, EngineStates
<1>4. n \in Nat \ {0} /\ s.p \in PlayerRecs /\ n - 1 = Len(s.e)
  BY <1>2 DEF SessionType
<1>5. x \in Seq(EngineRecs) /\ Len(x) = n /\ DOMAIN x = 1..n
      /\ x[n] = new /\ \A d \in 1..Len(s.e) : x[d] = s.e[d]
  <2>1. x \in Seq(EngineRecs) /\ Len(x) = n /\ x[n] = new /\ \A d \in 1..Len(s.e) : x[d] = s.e[d]
    BY <1>2, <1>3, AppendProperties
  <2> QED  BY <2>1, LenProperties
<1> HIDE DEF n, x
<1>6. q \in PlayerRecs
  BY <1>4 DEF PlayerRecs
<1> HIDE DEF q
<1> DEFINE r == StartEngine(s, load, kind)
<1>7. SessionType(r) /\ r.e = x /\ r.l = s.l /\ r.p = q
  BY <1>1, <1>5, <1>6 DEF SessionType
<1> HIDE DEF r
<1>8. DOMAIN s.e = 1..(n - 1) /\ \A d \in 1..(n - 1) : x[d] = s.e[d]
  BY <1>2, <1>4, <1>5
<1>9. HasStarted(s, r, n, load, kind)
  BY <1>4, <1>5, <1>7, <1>8 DEF HasStarted, new, q
<1> QED  BY <1>9 DEF n, r

-----------------------------------------------------------------------------
(* What each piece keeps of the invariant.                                 *)
USE DEF Newest, Expected

LEMMA Things ==
    ASSUME NEW s, Base(s)
    PROVE  /\ s.e \in Seq(EngineRecs) /\ Len(s.e) \in Nat /\ DOMAIN s.e = 1..Len(s.e)
           /\ s.l \in Seq(LoadRecs) /\ Len(s.l) \in Nat /\ DOMAIN s.l = 1..Len(s.l)
           /\ s.p \in PlayerRecs
           /\ \A e \in DOMAIN s.e : s.e[e] \in EngineRecs /\ e \in Nat \ {0}
           /\ \A l \in DOMAIN s.l : s.l[l] \in LoadRecs /\ l \in Nat \ {0}
<1>1. s.e \in Seq(EngineRecs) /\ s.l \in Seq(LoadRecs) /\ s.p \in PlayerRecs
  BY DEF Base, SessionType
<1>2. /\ Len(s.e) \in Nat /\ DOMAIN s.e = 1..Len(s.e)
      /\ Len(s.l) \in Nat /\ DOMAIN s.l = 1..Len(s.l)
  BY <1>1, LenProperties
<1> QED  BY <1>1, <1>2, ElementOfSeq

LEMMA TeardownKeeps ==
    ASSUME NEW s, Base(s)
    PROVE  LET r == TeardownMetronome(s)
           IN /\ Base(r) /\ r.p.click = 0 /\ r.p.editor = 0 /\ r.e = s.e /\ r.l = s.l
              /\ r.p.engine = s.p.engine /\ r.p.token = s.p.token /\ r.p.mounted = s.p.mounted
              /\ r.p.mode = s.p.mode /\ r.p.fits = s.p.fits
              /\ OnlyPlayingIsExpected(s) => OnlyPlayingIsExpected(r)
<1> DEFINE r == TeardownMetronome(s)
<1>1. SessionType(r) /\ r.e = s.e /\ r.l = s.l /\ r.p = [s.p EXCEPT !.click = 0, !.editor = 0]
  BY TeardownParts DEF Base
<1> HIDE DEF r
<1>2. /\ r.p.click = 0 /\ r.p.editor = 0 /\ r.p.refused = s.p.refused
      /\ r.p.engine = s.p.engine /\ r.p.token = s.p.token /\ r.p.mounted = s.p.mounted
      /\ r.p.mode = s.p.mode /\ r.p.fits = s.p.fits
  BY <1>1, Things DEF PlayerRecs
<1>3. HoldsWhatIs(r)
  BY <1>1, <1>2, Things DEF Base, HoldsWhatIs
<1>4. OneAlive(r) /\ ClickIsOwned(r)
  BY <1>1, <1>2 DEF Base, OneAlive, ClickIsOwned
<1>5. OnlyPlayingIsExpected(s) => OnlyPlayingIsExpected(r)
  BY <1>1, <1>2 DEF OnlyPlayingIsExpected
<1> QED  BY <1>1, <1>2, <1>3, <1>4, <1>5 DEF Base, r

LEMMA RetireKeeps ==
    ASSUME NEW s, Base(s), s.p.click = 0, s.p.editor = 0, NEW e \in DOMAIN s.e
    PROVE  LET r == Retire(s, e)
           IN /\ Base(r) /\ r.p.click = 0 /\ r.p.editor = 0 /\ r.l = s.l /\ DOMAIN r.e = DOMAIN s.e
              /\ r.p.engine = (IF s.p.engine = e THEN 0 ELSE s.p.engine)
              /\ r.p.token = s.p.token /\ r.p.mounted = s.p.mounted
              /\ r.p.mode = s.p.mode /\ r.p.fits = s.p.fits
              /\ r.e[e].state = "dead"
              /\ \A d \in DOMAIN s.e : r.e[d].asked = s.e[d].asked /\ r.e[d].load = s.e[d].load
<1> DEFINE r == Retire(s, e)
<1>1. /\ SessionType(r) /\ r.l = s.l /\ DOMAIN r.e = DOMAIN s.e /\ Len(r.e) = Len(s.e)
      /\ r.e[e] = [s.e[e] EXCEPT !.state = "dead"]
      /\ \A d \in DOMAIN s.e \ {e} : r.e[d] = s.e[d]
      /\ r.p = [s.p EXCEPT !.engine = IF s.p.engine = e THEN 0 ELSE s.p.engine]
  BY RetireParts DEF Base
<1> HIDE DEF r
<1>2. /\ r.p.engine = (IF s.p.engine = e THEN 0 ELSE s.p.engine)
      /\ r.p.click = 0 /\ r.p.editor = 0 /\ r.p.refused = s.p.refused
      /\ r.p.token = s.p.token /\ r.p.mounted = s.p.mounted
      /\ r.p.mode = s.p.mode /\ r.p.fits = s.p.fits
  BY <1>1, Things DEF PlayerRecs
<1>3. r.e[e].state = "dead" /\ r.e[e].asked = s.e[e].asked /\ r.e[e].load = s.e[e].load
  <2>1. s.e[e] \in EngineRecs
    BY Things
  <2> QED  BY <1>1, <2>1 DEF EngineRecs
<1>4. \A d \in DOMAIN s.e : r.e[d].asked = s.e[d].asked /\ r.e[d].load = s.e[d].load
  BY <1>1, <1>3
<1>5. HoldsWhatIs(r)
  BY <1>1, <1>2, <1>4, Things DEF Base, HoldsWhatIs
<1>6. OneAlive(r)
  <2>1. r.p.engine # e /\ r.e[e].state = "dead"
    BY <1>2, <1>3, Things
  <2>2. ASSUME NEW d \in DOMAIN s.e, d # e
        PROVE  /\ s.e[d].state # "dead" <=> r.p.engine = d
               /\ s.e[d].state # "dead" /\ ~s.e[d].asked => s.e[d].state = "up"
    <3>1. s.p.engine = d <=> r.p.engine = d
      BY <1>2, <2>2, Things
    <3> QED  BY <3>1 DEF Base, OneAlive
  <2> SUFFICES ASSUME NEW d \in DOMAIN r.e
               PROVE  /\ r.e[d].state # "dead" <=> r.p.engine = d
                      /\ r.e[d].state # "dead" /\ ~r.e[d].asked => r.e[d].state = "up"
    BY DEF OneAlive
  <2>3. CASE d = e
    BY <2>1, <2>3
  <2>4. CASE d # e
    <3>1. r.e[d] = s.e[d] /\ d \in DOMAIN s.e
      BY <1>1, <2>4
    <3> QED  BY <2>2, <2>4, <3>1
  <2> QED  BY <2>3, <2>4
<1>7. ClickIsOwned(r)
  BY <1>2 DEF ClickIsOwned
<1> QED  BY <1>1, <1>2, <1>3, <1>4, <1>5, <1>6, <1>7 DEF Base, r

LEMMA StartKeeps ==
    ASSUME NEW s, Base(s), s.p.click = 0, s.p.editor = 0, s.p.engine = 0,
           NEW load \in DOMAIN s.l, s.l[load].shown, NEW kind \in Kinds,
           \A e \in DOMAIN s.e : ~Expected(s, e)
    PROVE  SessionInv(StartEngine(s, load, kind))
<1> DEFINE r == StartEngine(s, load, kind)
           n == Len(s.e) + 1
<1>1. /\ SessionType(r) /\ r.l = s.l /\ Len(r.e) = n /\ DOMAIN r.e = 1..n
      /\ n \in Nat \ {0} /\ DOMAIN s.e = 1..(n - 1)
      /\ r.e[n] = [load |-> load, kind |-> kind, state |-> "starting", asked |-> TRUE]
      /\ \A d \in 1..(n - 1) : r.e[d] = s.e[d]
      /\ r.p = [s.p EXCEPT !.engine = n, !.refused = 0]
  <2>1. load \in Nat \ {0} /\ SessionType(s)
    BY Things DEF Base
  <2>2. HasStarted(s, r, n, load, kind)
    BY <2>1, StartParts
  <2> HIDE DEF r, n
  <2> QED  BY <2>2 DEF HasStarted
<1> HIDE DEF n, r
<1>2. /\ r.p.engine = n /\ r.p.refused = 0 /\ r.p.click = 0 /\ r.p.editor = 0
      /\ r.p.token = s.p.token /\ r.p.mounted = s.p.mounted
  BY <1>1, Things DEF PlayerRecs
<1>3. \A d \in DOMAIN r.e : d = n \/ (d \in DOMAIN s.e /\ r.e[d] = s.e[d] /\ d # n)
  BY <1>1
<1>4. HoldsWhatIs(r)
  <2>1. \A e \in DOMAIN r.e : r.e[e].load \in DOMAIN r.l /\ r.l[r.e[e].load].shown
    <3>1. \A d \in DOMAIN s.e : s.e[d].load \in DOMAIN s.l /\ s.l[s.e[d].load].shown
      BY DEF Base, HoldsWhatIs
    <3>2. r.e[n].load = load
      BY <1>1
    <3> QED  BY <1>1, <1>3, <3>1, <3>2
  <2>2. s.p.token = Len(s.l) /\ s.p.mounted \in {0, s.p.token} /\ Len(s.l) \in Nat
    BY Things DEF Base, HoldsWhatIs
  <2> QED  BY <1>1, <1>2, <2>1, <2>2 DEF HoldsWhatIs
<1>5. OneAlive(r)
  <2>1. \A d \in DOMAIN s.e : s.e[d].state = "dead"
    BY Things DEF Base, OneAlive
  <2> QED  BY <1>1, <1>2, <1>3, <2>1 DEF OneAlive
<1>6. ClickIsOwned(r)
  BY <1>2 DEF ClickIsOwned
<1>7. OnlyPlayingIsExpected(r)
  BY <1>2, <1>3 DEF OnlyPlayingIsExpected
<1> QED  BY <1>1, <1>4, <1>5, <1>6, <1>7 DEF SessionInv, Base, r

(* Two states with the same parts are as good as each other.               *)
LEMMA SamePartsKeep ==
    ASSUME NEW s, SessionInv(s), NEW r, SessionType(r), r.p = s.p, r.e = s.e, r.l = s.l
    PROVE  SessionInv(r)
  BY DEF SessionInv, Base, HoldsWhatIs, OneAlive, ClickIsOwned, OnlyPlayingIsExpected

LEMMA BecomesKeeps == ASSUME NEW s, SessionInv(s), Becomes(s) PROVE SessionInv(Page)'
<1> DEFINE r == [p |-> s.p, e |-> s.e, l |-> s.l]
<1>1. SessionType(r)
  BY DEF SessionInv, Base, SessionType
<1>2. SessionInv(r)
  BY <1>1, SamePartsKeep
<1>3. Page' = r
  BY DEF Becomes, Page
<1> QED  BY <1>2, <1>3

(* The engine playing, once it answered, may be given the click, ...       *)
LEMMA MountKeeps ==
    ASSUME NEW s, SessionInv(s), NEW e \in DOMAIN s.e, s.e[e].asked = FALSE
    PROVE  SessionInv(MountClick(s, e)) /\ MountClick(s, e).e = s.e
<1>1. CASE ~Playing(s, e) \/ s.l[s.e[e].load].beats = "asked"
  BY <1>1 DEF MountClick
<1>2. CASE ~(~Playing(s, e) \/ s.l[s.e[e].load].beats = "asked") /\ s.l[s.e[e].load].beats = "none"
  <2>1. MountClick(s, e) = TeardownMetronome(s)
    BY <1>2 DEF MountClick
  <2> QED  BY <2>1, TeardownKeeps DEF SessionInv
<1>3. CASE ~(~Playing(s, e) \/ s.l[s.e[e].load].beats = "asked") /\ s.l[s.e[e].load].beats # "none"
  <2> DEFINE r == MountClick(s, e)
             q == [s.p EXCEPT !.click = e, !.editor = s.e[e].load]
  <2>1. s.p.engine = e /\ s.e[e].state = "up"
    BY <1>3 DEF Playing, SessionInv, Base, OneAlive
  <2>2. s.e[e].load \in DOMAIN s.l /\ s.e[e].load \in Nat \ {0} /\ e \in Nat \ {0} /\ s.p \in PlayerRecs
    BY Things DEF SessionInv, Base, HoldsWhatIs
  <2>3. r = [s EXCEPT !.p = q]
    BY <1>3 DEF MountClick, SessionInv, Base, SessionType
  <2>4. /\ q \in PlayerRecs /\ q.click = e /\ q.editor = s.e[e].load /\ q.engine = s.p.engine
        /\ q.token = s.p.token /\ q.mounted = s.p.mounted /\ q.refused = s.p.refused
    BY <2>2 DEF PlayerRecs
  <2> HIDE DEF q
  <2>5. SessionType(r) /\ r.p = q /\ r.e = s.e /\ r.l = s.l
    BY <2>3, <2>4 DEF SessionInv, Base, SessionType
  <2> HIDE DEF r
  <2>6. HoldsWhatIs(r)
    <3>1. s.e[e].load \in 0..Len(s.l) /\ e \in 0..Len(s.e)
      BY <2>2, Things DEF SessionInv
    <3> QED  BY <2>4, <2>5, <3>1 DEF SessionInv, Base, HoldsWhatIs
  <2>7. OneAlive(r) /\ ClickIsOwned(r) /\ OnlyPlayingIsExpected(r)
    BY <2>1, <2>2, <2>4, <2>5 DEF SessionInv, Base, OneAlive, ClickIsOwned, OnlyPlayingIsExpected
  <2> QED  BY <2>5, <2>6, <2>7 DEF SessionInv, Base, r
<1> QED  BY <1>1, <1>2, <1>3

(* ... or hand the track over to an engine that needs no peaks.            *)
LEMMA SwapForPeaksKeeps ==
    ASSUME NEW s, SessionInv(s), NEW e \in DOMAIN s.e, s.e[e].asked = FALSE
    PROVE  SessionInv(SwapForPeaks(s, e))
<1> DEFINE t == TeardownMetronome(s)
           r == Retire(t, e)
<1>1. CASE SwapForPeaks(s, e) = s
  BY <1>1
<1>2. CASE Playing(s, e) /\ SwapForPeaks(s, e) = StartEngine(r, s.e[e].load, "fulldecode")
  <2>1. /\ Base(t) /\ t.p.click = 0 /\ t.p.editor = 0 /\ t.e = s.e /\ t.l = s.l
        /\ t.p.engine = s.p.engine /\ t.p.token = s.p.token /\ t.p.mounted = s.p.mounted
    BY TeardownKeeps DEF SessionInv
  <2> HIDE DEF t
  <2>2. /\ Base(r) /\ r.p.click = 0 /\ r.p.editor = 0 /\ r.l = t.l /\ DOMAIN r.e = DOMAIN t.e
        /\ r.p.engine = (IF t.p.engine = e THEN 0 ELSE t.p.engine)
        /\ r.p.token = t.p.token /\ r.p.mounted = t.p.mounted
        /\ \A d \in DOMAIN t.e : r.e[d].asked = t.e[d].asked /\ r.e[d].load = t.e[d].load
    BY <2>1, RetireKeeps
  <2> HIDE DEF r
  <2>3. s.p.engine = e
    BY <1>2 DEF Playing
  <2>4. \A d \in DOMAIN r.e : ~Expected(r, d)
    BY <2>1, <2>2, <2>3 DEF SessionInv, OnlyPlayingIsExpected
  <2>5. s.e[e].load \in DOMAIN r.l /\ r.l[s.e[e].load].shown
    BY <2>1, <2>2 DEF SessionInv, Base, HoldsWhatIs
  <2> QED  BY <1>2, <2>1, <2>2, <2>3, <2>4, <2>5, StartKeeps DEF Kinds
<1> QED  BY <1>1, <1>2 DEF SwapForPeaks

(* An engine that answered and is not to be used.                          *)
Answered(s, e) == [Retire(TeardownMetronome(s), e) EXCEPT !.e[e].asked = FALSE]

LEMMA AnsweredKeeps ==
    ASSUME NEW s, SessionInv(s), NEW e \in DOMAIN s.e
    PROVE  LET r == Answered(s, e)
           IN /\ SessionInv(r) /\ r.l = s.l /\ DOMAIN r.e = DOMAIN s.e
              /\ r.p.click = 0 /\ r.p.editor = 0
              /\ r.p.mode = s.p.mode /\ r.p.fits = s.p.fits
              /\ Expected(s, e) => r.p.engine = 0 /\ \A d \in DOMAIN r.e : ~Expected(r, d)
<1> DEFINE t == TeardownMetronome(s)
           u == Retire(t, e)
           r == Answered(s, e)
           x == [u.e EXCEPT ![e] = [u.e[e] EXCEPT !.asked = FALSE]]
<1>1. /\ Base(t) /\ t.p.click = 0 /\ t.p.editor = 0 /\ t.e = s.e /\ t.l = s.l
      /\ t.p.engine = s.p.engine /\ t.p.token = s.p.token /\ t.p.mounted = s.p.mounted
      /\ t.p.mode = s.p.mode /\ t.p.fits = s.p.fits
  BY TeardownKeeps DEF SessionInv
<1>2. r = [u EXCEPT !.e[e].asked = FALSE]
  BY DEF Answered
<1> HIDE DEF t
<1>3. /\ Base(u) /\ u.p.click = 0 /\ u.p.editor = 0 /\ u.l = t.l /\ DOMAIN u.e = DOMAIN t.e
      /\ u.p.engine = (IF t.p.engine = e THEN 0 ELSE t.p.engine)
      /\ u.p.token = t.p.token /\ u.p.mounted = t.p.mounted
      /\ u.p.mode = t.p.mode /\ u.p.fits = t.p.fits
      /\ u.e[e].state = "dead"
      /\ \A d \in DOMAIN t.e : u.e[d].asked = t.e[d].asked /\ u.e[d].load = t.e[d].load
  BY <1>1, RetireKeeps
<1> HIDE DEF u, r
<1>4. u.e \in Seq(EngineRecs) /\ u.e[e] \in EngineRecs /\ e \in 1..Len(u.e) /\ e # 0
      /\ DOMAIN u.e = 1..Len(u.e) /\ DOMAIN u.e = DOMAIN s.e
  BY <1>1, <1>3, Things
<1> DEFINE y == [u.e[e] EXCEPT !.asked = FALSE]
<1>5. y \in EngineRecs /\ y.state = "dead" /\ y.asked = FALSE /\ y.load = u.e[e].load
  BY <1>3, <1>4 DEF EngineRecs
<1>6. r = [u EXCEPT !.e = x]
  BY <1>2, <1>3 DEF Base, SessionType
<1> HIDE DEF y
<1>7. x = [u.e EXCEPT ![e] = y]
  BY DEF y
<1> HIDE DEF x
<1>8. /\ x \in Seq(EngineRecs) /\ Len(x) = Len(u.e) /\ DOMAIN x = DOMAIN u.e
      /\ \A d \in DOMAIN u.e : x[d] = IF d = e THEN y ELSE u.e[d]
  <2>1. /\ x \in Seq(EngineRecs) /\ Len(x) = Len(u.e)
        /\ \A d \in 1..Len(u.e) : x[d] = IF d = e THEN y ELSE u.e[d]
    BY <1>4, <1>5, <1>7, ExceptSeq
  <2> QED  BY <2>1, <1>4, LenProperties
<1>9. SessionType(r) /\ r.p = u.p /\ r.l = u.l /\ r.e = x
  BY <1>3, <1>6, <1>8 DEF Base, SessionType
<1>10. r.e[e] = y /\ \A d \in DOMAIN u.e : d # e => r.e[d] = u.e[d]
  BY <1>4, <1>8, <1>9
<1>11. HoldsWhatIs(r)
  BY <1>3, <1>5, <1>8, <1>9 DEF Base, HoldsWhatIs
<1>12. OneAlive(r)
  <2>1. u.p.engine # e
    BY <1>3, <1>4
  <2> SUFFICES ASSUME NEW d \in DOMAIN u.e
               PROVE  /\ r.e[d].state # "dead" <=> r.p.engine = d
                      /\ r.e[d].state # "dead" /\ ~r.e[d].asked => r.e[d].state = "up"
    BY <1>8, <1>9 DEF OneAlive
  <2>2. CASE d = e
    BY <2>1, <2>2, <1>5, <1>9, <1>10
  <2>3. CASE d # e
    BY <2>3, <1>3, <1>9, <1>10 DEF Base, OneAlive
  <2> QED  BY <2>2, <2>3
<1>13. ClickIsOwned(r)
  BY <1>3, <1>9 DEF ClickIsOwned
<1>14. ASSUME NEW d \in DOMAIN r.e, Expected(r, d) PROVE d # e /\ Expected(s, d) /\ s.p.engine = d
  <2>1. d # e
    BY <1>5, <1>10, <1>14
  <2>2. Expected(s, d)
    BY <2>1, <1>1, <1>3, <1>4, <1>8, <1>9, <1>10, <1>14
  <2> QED  BY <2>1, <2>2, <1>4, <1>8, <1>9 DEF SessionInv, OnlyPlayingIsExpected
<1>15. OnlyPlayingIsExpected(r)
  BY <1>1, <1>3, <1>9, <1>14 DEF OnlyPlayingIsExpected
<1>16. Expected(s, e) => r.p.engine = 0 /\ \A d \in DOMAIN r.e : ~Expected(r, d)
  <2>1. Expected(s, e) => s.p.engine = e
    BY DEF SessionInv, OnlyPlayingIsExpected
  <2> QED  BY <2>1, <1>1, <1>3, <1>9, <1>14
<1> QED  BY <1>1, <1>3, <1>4, <1>8, <1>9, <1>11, <1>12, <1>13, <1>15, <1>16 DEF SessionInv, Base, r

-----------------------------------------------------------------------------
(* The handlers.                                                           *)
PlayerInv == SessionInv(Page)

LEMMA PageParts == Page.p = player /\ Page.e = engines /\ Page.l = loads
  BY DEF Page

(* An engine goes when its track does, and before the next one starts.     *)
LEMMA DropKeeps ==
    ASSUME NEW s, Base(s), s.p.click = 0, s.p.editor = 0
    PROVE  LET r == DropEngine(s)
           IN /\ Base(r) /\ r.p.click = 0 /\ r.p.editor = 0 /\ r.p.engine = 0
              /\ r.l = s.l /\ DOMAIN r.e = DOMAIN s.e
              /\ r.p.token = s.p.token /\ r.p.mounted = s.p.mounted
              /\ r.p.mode = s.p.mode /\ r.p.fits = s.p.fits
              /\ \A d \in DOMAIN s.e : r.e[d].asked = s.e[d].asked /\ r.e[d].load = s.e[d].load
<1>1. CASE s.p.engine = 0
  BY <1>1 DEF DropEngine
<1>2. CASE s.p.engine # 0
  <2> DEFINE e == s.p.engine
  <2>1. e \in DOMAIN s.e
    <3>1. e \in 0..Len(s.e) /\ DOMAIN s.e = 1..Len(s.e) /\ Len(s.e) \in Nat
      BY Things DEF Base, HoldsWhatIs
    <3> QED  BY <3>1, <1>2
  <2>2. DropEngine(s) = Retire(s, e)
    BY <1>2 DEF DropEngine
  <2> QED  BY <2>1, <2>2, RetireKeeps
<1> QED  BY <1>1, <1>2

LEMMA WireUpKeeps == ASSUME PlayerInv, NEW t \in Tracks, WireUpAudio(t) PROVE PlayerInv'
<1> DEFINE load == [track |-> t, peaks |-> "asked", beats |-> "asked", shown |-> FALSE]
           n == player.token + 1
           q == [player EXCEPT !.token = n, !.mounted = n, !.current = t]
           x == Append(loads, load)
           r == [p |-> q, e |-> engines, l |-> x]
<1>1. /\ player \in PlayerRecs /\ loads \in Seq(LoadRecs) /\ engines \in Seq(EngineRecs)
      /\ Len(loads) \in Nat /\ DOMAIN loads = 1..Len(loads)
      /\ HoldsWhatIs(Page) /\ OneAlive(Page) /\ ClickIsOwned(Page)
  BY Things, PageParts DEF PlayerInv, SessionInv, Base
<1>2. /\ q \in PlayerRecs /\ q.token = player.token + 1 /\ q.mounted = q.token
      /\ q.engine = player.engine /\ q.click = player.click /\ q.editor = player.editor
      /\ q.refused = player.refused
  <2>1. n \in Nat
    BY <1>1 DEF PlayerRecs
  <2> HIDE DEF n
  <2>2. q \in PlayerRecs /\ q.token = n /\ q.mounted = n
    BY <2>1, <1>1 DEF PlayerRecs
  <2>3. /\ q.engine = player.engine /\ q.click = player.click /\ q.editor = player.editor
        /\ q.refused = player.refused
    BY <1>1 DEF PlayerRecs
  <2> QED  BY <2>2, <2>3 DEF n
<1> HIDE DEF q
<1>3. load \in LoadRecs
  BY DEF LoadRecs, Answers
<1> HIDE DEF load
<1>4. /\ x \in Seq(LoadRecs) /\ Len(x) = Len(loads) + 1 /\ DOMAIN x = 1..(Len(loads) + 1)
      /\ \A i \in DOMAIN loads : i \in DOMAIN x /\ x[i] = loads[i]
  <2>1. /\ x \in Seq(LoadRecs) /\ Len(x) = Len(loads) + 1
        /\ \A i \in 1..Len(loads) : x[i] = loads[i]
    BY <1>1, <1>3, AppendProperties
  <2>2. DOMAIN x = 1..Len(x)
    BY <2>1, LenProperties
  <2> QED  BY <2>1, <2>2, <1>1
<1> HIDE DEF x
<1>5. SessionType(r) /\ r.p = q /\ r.e = engines /\ r.l = x
  BY <1>1, <1>2, <1>4 DEF SessionType
<1>6. Becomes(r)
  <2>1. player' = q /\ engines' = engines /\ loads' = x
    BY DEF WireUpAudio, Becomes, Page, q, x, load
  <2> QED  BY <2>1 DEF Becomes
<1> HIDE DEF r
<1>7. HoldsWhatIs(r)
  <2>1. player.token = Len(loads) /\ player.refused \in 0..Len(loads) /\ player.editor \in 0..Len(loads)
        /\ player.engine \in 0..Len(engines) /\ player.click \in 0..Len(engines)
        /\ \A e \in DOMAIN engines : engines[e].load \in DOMAIN loads /\ loads[engines[e].load].shown
    BY <1>1, PageParts DEF HoldsWhatIs
  <2>2. Len(engines) \in Nat
    BY <1>1, Things
  <2>3. q.token = Len(x) /\ q.refused \in 0..Len(x) /\ q.editor \in 0..Len(x)
    BY <2>1, <1>1, <1>2, <1>4
  <2>4. q.mounted = q.token /\ q.engine \in 0..Len(engines) /\ q.click \in 0..Len(engines)
    BY <2>1, <1>2
  <2>5. \A e \in DOMAIN engines : engines[e].load \in DOMAIN x /\ x[engines[e].load].shown
    BY <2>1, <1>4
  <2> QED  BY <2>3, <2>4, <2>5, <1>5 DEF HoldsWhatIs
<1>8. OneAlive(r) /\ ClickIsOwned(r)
  BY <1>1, <1>2, <1>5, PageParts DEF OneAlive, ClickIsOwned
<1>9. OnlyPlayingIsExpected(r)
  <2>1. \A e \in DOMAIN engines : engines[e].load \in 1..Len(loads) /\ player.token = Len(loads)
    BY <1>1, PageParts DEF HoldsWhatIs
  <2> QED  BY <2>1, <1>1, <1>2, <1>5 DEF OnlyPlayingIsExpected
<1> QED  BY <1>5, <1>6, <1>7, <1>8, <1>9, BecomesKeeps DEF PlayerInv, SessionInv, Base

LEMMA DestroyKeeps == PlayerInv /\ DestroyPlayer => PlayerInv'
<1> SUFFICES ASSUME PlayerInv, DestroyPlayer PROVE PlayerInv'
  OBVIOUS
<1> DEFINE t == TeardownMetronome(Page)
           u == DropEngine(t)
           r == [u EXCEPT !.p.mounted = 0, !.p.current = Nobody]
           q == [u.p EXCEPT !.mounted = 0, !.current = Nobody]
<1>1. Base(t) /\ t.p.click = 0 /\ t.p.editor = 0
  BY TeardownKeeps DEF PlayerInv, SessionInv
<1>2. Becomes(r)
  BY DEF DestroyPlayer
<1> HIDE DEF t
<1>3. Base(u) /\ u.p.click = 0 /\ u.p.editor = 0 /\ u.p.engine = 0
  BY <1>1, DropKeeps
<1> HIDE DEF u
<1>4. u.p \in PlayerRecs
  BY <1>3 DEF Base, SessionType
<1>5. /\ q \in PlayerRecs /\ q.mounted = 0 /\ q.token = u.p.token /\ q.refused = u.p.refused
      /\ q.click = 0 /\ q.editor = 0 /\ q.engine = 0
  BY <1>3, <1>4 DEF PlayerRecs
<1>6. SessionType(r) /\ r.p = q /\ r.e = u.e /\ r.l = u.l
  <2>1. r = [u EXCEPT !.p = q]
    BY <1>3 DEF Base, SessionType
  <2> HIDE DEF r, q
  <2> QED  BY <2>1, <1>3, <1>5 DEF Base, SessionType
<1> HIDE DEF r, q
<1>7. HoldsWhatIs(r)
  BY <1>3, <1>5, <1>6 DEF Base, HoldsWhatIs
<1>8. OneAlive(r) /\ ClickIsOwned(r)
  BY <1>3, <1>5, <1>6 DEF Base, OneAlive, ClickIsOwned
<1>9. OnlyPlayingIsExpected(r)
  BY <1>3, <1>5, <1>6, Things DEF OnlyPlayingIsExpected, EngineRecs
<1> QED  BY <1>2, <1>6, <1>7, <1>8, <1>9, BecomesKeeps DEF PlayerInv, SessionInv, Base

(* A load is given its first engine once, so none of its engines is still  *)
(* to answer.                                                              *)
LEMMA MayPlayKeeps == ASSUME PlayerInv, NEW l \in DOMAIN loads, MayPlay(l) PROVE PlayerInv'
<1> DEFINE t == TeardownMetronome(Page)
           s == [t EXCEPT !.l[l].shown = TRUE]
           large == player.mode = "fulldecode" /\ ~Fits(loads[l])
           shown == [loads[l] EXCEPT !.shown = TRUE]
           x == [loads EXCEPT ![l] = shown]
<1>1. /\ l = player.mounted /\ loads[l].shown # TRUE
      /\ Becomes(IF player.mode = "streaming" \/ large THEN s
                 ELSE StartEngine(DropEngine(s), l, player.mode))
  BY DEF MayPlay
<1>2. /\ loads \in Seq(LoadRecs) /\ l \in 1..Len(loads) /\ loads[l] \in LoadRecs /\ DOMAIN loads = 1..Len(loads)
      /\ player \in PlayerRecs
      /\ \A e \in DOMAIN engines : engines[e].load \in DOMAIN loads /\ loads[engines[e].load].shown
  BY Things, PageParts DEF PlayerInv, SessionInv, Base, HoldsWhatIs
<1>3. /\ Base(t) /\ t.p.click = 0 /\ t.p.editor = 0 /\ t.e = engines /\ t.l = loads
      /\ t.p.mounted = player.mounted
  BY TeardownKeeps, PageParts DEF PlayerInv, SessionInv
<1> HIDE DEF t
<1>4. shown \in LoadRecs /\ shown.shown = TRUE
  BY <1>2 DEF LoadRecs
<1>5. s = [t EXCEPT !.l = x]
  BY <1>3 DEF Base, SessionType
<1> HIDE DEF s, shown
<1>6. /\ x \in Seq(LoadRecs) /\ Len(x) = Len(loads) /\ DOMAIN x = DOMAIN loads
      /\ \A i \in DOMAIN loads : x[i] = IF i = l THEN shown ELSE loads[i]
  <2>1. /\ x \in Seq(LoadRecs) /\ Len(x) = Len(loads)
        /\ \A j \in 1..Len(loads) : x[j] = IF j = l THEN shown ELSE loads[j]
    BY <1>2, <1>4, ExceptSeq
  <2> QED  BY <2>1, <1>2, LenProperties
<1> HIDE DEF x
<1>7. SessionType(s) /\ s.p = t.p /\ s.e = engines /\ s.l = x
  BY <1>3, <1>5, <1>6 DEF Base, SessionType
<1>8. Base(s)
  <2>1. HoldsWhatIs(s)
    <3>1. HoldsWhatIs(t)
      BY <1>3 DEF Base
    <3>2. \A e \in DOMAIN engines : engines[e].load \in DOMAIN x /\ x[engines[e].load].shown
      BY <1>2, <1>4, <1>6
    <3> QED  BY <3>1, <3>2, <1>3, <1>6, <1>7 DEF HoldsWhatIs
  <2>2. OneAlive(s) /\ ClickIsOwned(s)
    BY <1>3, <1>7 DEF Base, OneAlive, ClickIsOwned
  <2> QED  BY <1>7, <2>1, <2>2 DEF Base
<1>9. \A e \in DOMAIN engines : engines[e].load # player.mounted
  BY <1>1, <1>2
<1>10. SessionInv(s)
  BY <1>3, <1>7, <1>8, <1>9 DEF SessionInv, OnlyPlayingIsExpected
<1>11. CASE player.mode = "streaming" \/ large
  BY <1>1, <1>10, <1>11, BecomesKeeps DEF PlayerInv
<1>12. CASE ~(player.mode = "streaming" \/ large)
  <2> DEFINE u == DropEngine(s)
  <2>1. /\ Base(u) /\ u.p.click = 0 /\ u.p.editor = 0 /\ u.p.engine = 0
        /\ u.l = s.l /\ DOMAIN u.e = DOMAIN s.e /\ u.p.mounted = s.p.mounted
        /\ \A d \in DOMAIN s.e : u.e[d].asked = s.e[d].asked /\ u.e[d].load = s.e[d].load
    BY <1>3, <1>7, <1>8, DropKeeps
  <2>2. Becomes(StartEngine(u, l, player.mode))
    BY <1>1, <1>12
  <2> HIDE DEF u
  <2>3. player.mode \in Kinds
    BY <1>2, <1>12 DEF PlayerRecs
  <2>4. l \in DOMAIN u.l /\ u.l[l].shown
    BY <2>1, <1>4, <1>6, <1>7
  <2>5. \A d \in DOMAIN u.e : ~Expected(u, d)
    BY <2>1, <1>3, <1>7, <1>9
  <2>6. SessionInv(StartEngine(u, l, player.mode))
    BY <2>1, <2>3, <2>4, <2>5, StartKeeps
  <2> QED  BY <2>2, <2>6, BecomesKeeps DEF PlayerInv
<1> QED  BY <1>11, <1>12

(* An engine answers.                                                      *)
LEMMA ReadyKeeps ==
    ASSUME PlayerInv, NEW e \in DOMAIN engines,
           ReadyTooLate(e) \/ ReadyUnusable(e) \/ ReadyThrows(e)
    PROVE  PlayerInv'
<1> DEFINE r == Answered(Page, e)
           load == engines[e].load
           q == [r.p EXCEPT !.refused = load]
           shown == [r EXCEPT !.p.refused = load]
<1>1. /\ SessionInv(r) /\ r.l = loads /\ DOMAIN r.e = DOMAIN engines
      /\ r.p.click = 0 /\ r.p.editor = 0
      /\ Expected(Page, e) => r.p.engine = 0 /\ \A d \in DOMAIN r.e : ~Expected(r, d)
  BY AnsweredKeeps, PageParts DEF PlayerInv
<1>2. load \in DOMAIN loads /\ load \in 0..Len(loads) /\ load \in Nat /\ loads[load].shown
  BY Things, PageParts DEF PlayerInv, SessionInv, Base, HoldsWhatIs
<1>3. \/ Becomes(r)
      \/ Becomes(shown)
      \/ Expected(Page, e) /\ Becomes(StartEngine(r, load, "fulldecode"))
  <2>1. CASE ReadyTooLate(e)
    BY <2>1 DEF ReadyTooLate, Answered
  <2>2. CASE ReadyThrows(e)
    BY <2>2 DEF ReadyThrows, Answered
  <2>3. CASE ReadyUnusable(e)
    BY <2>3, PageParts DEF ReadyUnusable, Answered
  <2> QED  BY <2>1, <2>2, <2>3
<1> HIDE DEF r
<1>4. SessionInv(shown)
  <2>1. r.p \in PlayerRecs
    BY <1>1 DEF SessionInv, Base, SessionType
  <2>2. /\ q \in PlayerRecs /\ q.refused = load /\ q.click = r.p.click /\ q.editor = r.p.editor
        /\ q.engine = r.p.engine /\ q.token = r.p.token /\ q.mounted = r.p.mounted
    BY <2>1, <1>2 DEF PlayerRecs
  <2>3. shown = [r EXCEPT !.p = q]
    BY <1>1 DEF SessionInv, Base, SessionType
  <2> HIDE DEF shown, q
  <2>4. SessionType(shown) /\ shown.p = q /\ shown.e = r.e /\ shown.l = r.l
    BY <2>2, <2>3, <1>1 DEF SessionInv, Base, SessionType
  <2>5. HoldsWhatIs(shown)
    BY <2>2, <2>4, <1>1, <1>2 DEF SessionInv, Base, HoldsWhatIs
  <2>6. OneAlive(shown) /\ ClickIsOwned(shown) /\ OnlyPlayingIsExpected(shown)
    BY <2>2, <2>4, <1>1 DEF SessionInv, Base, OneAlive, ClickIsOwned, OnlyPlayingIsExpected
  <2> QED  BY <2>4, <2>5, <2>6 DEF SessionInv, Base
<1>5. CASE Expected(Page, e) /\ Becomes(StartEngine(r, load, "fulldecode"))
  <2>1. SessionInv(StartEngine(r, load, "fulldecode"))
    BY <1>1, <1>2, <1>5, StartKeeps DEF SessionInv, Kinds
  <2> QED  BY <2>1, <1>5, BecomesKeeps DEF PlayerInv
<1> HIDE DEF shown
<1> QED  BY <1>1, <1>3, <1>4, <1>5, BecomesKeeps DEF PlayerInv

LEMMA ReadyUpKeeps == ASSUME PlayerInv, NEW e \in DOMAIN engines, ReadyUp(e) PROVE PlayerInv'
<1> DEFINE s == [Page EXCEPT !.e[e].asked = FALSE, !.e[e].state = "up"]
           up == [engines[e] EXCEPT !.asked = FALSE, !.state = "up"]
           x == [engines EXCEPT ![e] = up]
<1>1. Becomes(SwapForPeaks(MountClick(s, e), e)) /\ engines[e].asked /\ Newest(Page, e)
  BY DEF ReadyUp
<1>2. /\ engines \in Seq(EngineRecs) /\ engines[e] \in EngineRecs /\ e \in 1..Len(engines)
      /\ DOMAIN engines = 1..Len(engines)
      /\ SessionType(Page) /\ HoldsWhatIs(Page) /\ OneAlive(Page) /\ ClickIsOwned(Page)
      /\ OnlyPlayingIsExpected(Page)
  BY Things, PageParts DEF PlayerInv, SessionInv, Base
<1>3. player.engine = e
  BY <1>1, <1>2, PageParts DEF OnlyPlayingIsExpected
<1>4. up \in EngineRecs /\ up.asked = FALSE /\ up.state = "up" /\ up.load = engines[e].load
  BY <1>2 DEF EngineRecs, EngineStates
<1>5. s = [Page EXCEPT !.e = x]
  BY <1>2, PageParts DEF SessionType, Page
<1> HIDE DEF s, up
<1>6. /\ x \in Seq(EngineRecs) /\ Len(x) = Len(engines) /\ DOMAIN x = DOMAIN engines
      /\ \A d \in DOMAIN engines : x[d] = IF d = e THEN up ELSE engines[d]
  <2>1. /\ x \in Seq(EngineRecs) /\ Len(x) = Len(engines)
        /\ \A d \in 1..Len(engines) : x[d] = IF d = e THEN up ELSE engines[d]
    BY <1>2, <1>4, ExceptSeq
  <2> QED  BY <2>1, <1>2, LenProperties
<1> HIDE DEF x
<1>7. SessionType(s) /\ s.p = player /\ s.l = loads /\ s.e = x
  BY <1>2, <1>5, <1>6, PageParts DEF SessionType
<1>8. x[e] = up /\ \A d \in DOMAIN engines : d # e => x[d] = engines[d]
  BY <1>6
<1>9. HoldsWhatIs(s)
  BY <1>2, <1>4, <1>6, <1>7, PageParts DEF HoldsWhatIs
<1>10. OneAlive(s)
  <2> SUFFICES ASSUME NEW d \in DOMAIN engines
               PROVE  /\ x[d].state # "dead" <=> player.engine = d
                      /\ x[d].state # "dead" /\ ~x[d].asked => x[d].state = "up"
    BY <1>6, <1>7 DEF OneAlive
  <2>1. CASE d = e
    BY <2>1, <1>3, <1>4, <1>8
  <2>2. CASE d # e
    BY <2>2, <1>2, <1>8, PageParts DEF OneAlive
  <2> QED  BY <2>1, <2>2
<1>11. ClickIsOwned(s)
  <2>1. player.click # 0 => player.click = e
    BY <1>2, <1>3, PageParts DEF ClickIsOwned
  <2>2. player.editor # 0 => player.click # 0 /\ player.editor = engines[player.click].load
    BY <1>2, PageParts DEF ClickIsOwned
  <2> QED  BY <2>1, <2>2, <1>3, <1>4, <1>7, <1>8 DEF ClickIsOwned
<1>12. OnlyPlayingIsExpected(s)
  <2> SUFFICES ASSUME NEW d \in DOMAIN x, Expected(s, d) PROVE player.engine = d
    BY <1>7 DEF OnlyPlayingIsExpected
  <2>1. d # e
    BY <1>4, <1>7, <1>8
  <2> QED  BY <2>1, <1>2, <1>6, <1>7, <1>8, PageParts DEF OnlyPlayingIsExpected
<1>13. SessionInv(s) /\ e \in DOMAIN s.e /\ s.e[e].asked = FALSE
  BY <1>4, <1>6, <1>7, <1>8, <1>9, <1>10, <1>11, <1>12 DEF SessionInv, Base
<1> DEFINE m == MountClick(s, e)
<1>14. SessionInv(m) /\ m.e = s.e
  BY <1>13, MountKeeps
<1> HIDE DEF m
<1>15. SessionInv(SwapForPeaks(m, e))
  BY <1>13, <1>14, SwapForPeaksKeeps
<1> QED  BY <1>1, <1>15, BecomesKeeps DEF PlayerInv, m

LEMMA WaitingHasAnswered ==
    ASSUME NEW s, SessionInv(s), NEW l, NEW e \in WaitingEngine(s, l)
    PROVE  e \in DOMAIN s.e /\ s.e[e].asked = FALSE
<1>1. e \in DOMAIN s.e /\ ~s.e[e].asked
  BY DEF WaitingEngine
<1>2. s.e[e] \in EngineRecs
  BY <1>1, Things DEF SessionInv
<1> QED  BY <1>1, <1>2 DEF EngineRecs

(* A grid or the peaks of a load arrive.                                   *)
LEMMA AnswerKeeps ==
    ASSUME PlayerInv, NEW l \in DOMAIN loads, NEW answer \in {"some", "none"},
           BeatsAnswer(l, answer) \/ PeaksAnswer(l, answer)
    PROVE  PlayerInv'
<1>1. /\ loads \in Seq(LoadRecs) /\ loads[l] \in LoadRecs /\ l \in 1..Len(loads)
      /\ DOMAIN loads = 1..Len(loads) /\ SessionType(Page)
  BY Things, PageParts DEF PlayerInv, SessionInv, Base
<1>2. ASSUME NEW s, NEW rec \in LoadRecs, rec.shown = loads[l].shown,
             s = [Page EXCEPT !.l = [loads EXCEPT ![l] = rec]]
      PROVE  SessionInv(s)
  <2> DEFINE x == [loads EXCEPT ![l] = rec]
  <2>1. /\ x \in Seq(LoadRecs) /\ Len(x) = Len(loads) /\ DOMAIN x = DOMAIN loads
        /\ \A i \in DOMAIN loads : x[i] = IF i = l THEN rec ELSE loads[i]
    <3>1. /\ x \in Seq(LoadRecs) /\ Len(x) = Len(loads)
          /\ \A i \in 1..Len(loads) : x[i] = IF i = l THEN rec ELSE loads[i]
      BY <1>1, ExceptSeq
    <3> QED  BY <3>1, <1>1, LenProperties
  <2> HIDE DEF x
  <2>2. s = [Page EXCEPT !.l = x]
    BY <1>2 DEF x
  <2>3. SessionType(s) /\ s.p = player /\ s.e = engines /\ s.l = x
    BY <2>1, <2>2, <1>1, PageParts DEF SessionType
  <2>4. \A i \in DOMAIN loads : x[i].shown = loads[i].shown
    BY <2>1, <1>2
  <2>5. HoldsWhatIs(s)
    BY <2>1, <2>3, <2>4, PageParts DEF PlayerInv, SessionInv, Base, HoldsWhatIs
  <2>6. OneAlive(s) /\ ClickIsOwned(s) /\ OnlyPlayingIsExpected(s)
    BY <2>3, PageParts DEF PlayerInv, SessionInv, Base, OneAlive, ClickIsOwned, OnlyPlayingIsExpected
  <2> QED  BY <2>3, <2>5, <2>6 DEF SessionInv, Base
<1>3. CASE BeatsAnswer(l, answer)
  <2> DEFINE rec == [loads[l] EXCEPT !.beats = answer]
             s == [Page EXCEPT !.l[l].beats = answer]
  <2>1. rec \in LoadRecs /\ rec.shown = loads[l].shown
    BY <1>1 DEF LoadRecs, Answers
  <2>2. s = [Page EXCEPT !.l = [loads EXCEPT ![l] = rec]]
    BY PageParts
  <2>3. Becomes(Deliver(s, l, MountClick))
    BY <1>3 DEF BeatsAnswer
  <2>4. \/ Deliver(s, l, MountClick) = s
        \/ \E e \in WaitingEngine(s, l) : Deliver(s, l, MountClick) = MountClick(s, e)
    BY DEF Deliver
  <2> HIDE DEF rec, s
  <2>5. SessionInv(s)
    BY <1>2, <2>1, <2>2
  <2>6. \A e \in WaitingEngine(s, l) : SessionInv(MountClick(s, e))
    BY <2>5, WaitingHasAnswered, MountKeeps
  <2>7. CASE Deliver(s, l, MountClick) = s
    BY <2>3, <2>5, <2>7, BecomesKeeps DEF PlayerInv
  <2>8. ASSUME NEW e \in WaitingEngine(s, l), Deliver(s, l, MountClick) = MountClick(s, e)
        PROVE  PlayerInv'
    BY <2>3, <2>6, <2>8, BecomesKeeps DEF PlayerInv
  <2> QED  BY <2>4, <2>7, <2>8
<1>4. CASE PeaksAnswer(l, answer)
  <2> DEFINE rec == [loads[l] EXCEPT !.peaks = answer]
             s == [Page EXCEPT !.l[l].peaks = answer]
  <2>1. rec \in LoadRecs /\ rec.shown = loads[l].shown
    BY <1>1 DEF LoadRecs, Answers
  <2>2. s = [Page EXCEPT !.l = [loads EXCEPT ![l] = rec]]
    BY PageParts
  <2>3. Becomes(Deliver(s, l, SwapForPeaks))
    BY <1>4 DEF PeaksAnswer
  <2>4. \/ Deliver(s, l, SwapForPeaks) = s
        \/ \E e \in WaitingEngine(s, l) : Deliver(s, l, SwapForPeaks) = SwapForPeaks(s, e)
    BY DEF Deliver
  <2> HIDE DEF rec, s
  <2>5. SessionInv(s)
    BY <1>2, <2>1, <2>2
  <2>6. \A e \in WaitingEngine(s, l) : SessionInv(SwapForPeaks(s, e))
    BY <2>5, WaitingHasAnswered, SwapForPeaksKeeps
  <2>7. CASE Deliver(s, l, SwapForPeaks) = s
    BY <2>3, <2>5, <2>7, BecomesKeeps DEF PlayerInv
  <2>8. ASSUME NEW e \in WaitingEngine(s, l), Deliver(s, l, SwapForPeaks) = SwapForPeaks(s, e)
        PROVE  PlayerInv'
    BY <2>3, <2>6, <2>8, BecomesKeeps DEF PlayerInv
  <2> QED  BY <2>4, <2>7, <2>8
<1> QED  BY <1>3, <1>4

-----------------------------------------------------------------------------
LEMMA PlayerInitially == PlayerInit => PlayerInv
<1> SUFFICES ASSUME PlayerInit PROVE SessionInv(Page)
  BY DEF PlayerInv
<1>1. PICK setup \in Setups : player = SetUp(setup) /\ loads = <<>> /\ engines = <<>>
  BY DEF PlayerInit
<1>2. setup.mode \in Kinds \cup {"streaming"} /\ setup.fits \in SUBSET Tracks
  BY PlayerAssumption DEF Kinds
<1>3. player \in PlayerRecs
  BY <1>1, <1>2 DEF SetUp, PlayerRecs
<1>4. SessionType(Page)
  BY <1>1, <1>3, EmptySeq DEF Page, SessionType
<1>5. HoldsWhatIs(Page) /\ OneAlive(Page) /\ ClickIsOwned(Page) /\ OnlyPlayingIsExpected(Page)
  BY <1>1, PageParts DEF SetUp, HoldsWhatIs, OneAlive, ClickIsOwned, OnlyPlayingIsExpected
<1> QED  BY <1>4, <1>5 DEF SessionInv, Base

LEMMA PlayerStep == PlayerInv /\ [PlayerNext]_playerVars => PlayerInv'
<1> SUFFICES ASSUME PlayerInv, [PlayerNext]_playerVars PROVE PlayerInv'
  OBVIOUS
<1>1. ASSUME UNCHANGED playerVars PROVE PlayerInv'
  <2>1. SessionInv(Page) /\ Becomes(Page)
    BY <1>1, PageParts DEF PlayerInv, Becomes, playerVars
  <2> QED  BY <2>1, BecomesKeeps DEF PlayerInv
<1> QED  BY <1>1, WireUpKeeps, DestroyKeeps, MayPlayKeeps, ReadyKeeps, ReadyUpKeeps, AnswerKeeps
         DEF PlayerNext

LEMMA PlayerInvHolds == PlayerSpec => []PlayerInv
  BY PlayerInitially, PlayerStep, PTL DEF PlayerSpec

LEMMA PlayerTypes == PlayerInv => PlayerTypeOK
<1> SUFFICES ASSUME PlayerInv PROVE PlayerTypeOK
  OBVIOUS
<1>1. Base(Page) /\ HoldsWhatIs(Page)
  BY DEF PlayerInv, SessionInv, Base
<1>2. /\ Len(engines) \in Nat /\ Len(loads) \in Nat /\ player \in PlayerRecs
      /\ \A e \in DOMAIN engines : engines[e] \in EngineRecs
      /\ \A l \in DOMAIN loads : loads[l] \in LoadRecs
  BY <1>1, Things, PageParts
<1>3. player.current \in Tracks \cup {Nobody}
  BY <1>2 DEF PlayerRecs
<1>4. /\ player.token = Len(loads) /\ player.mounted \in 0..Len(loads)
      /\ player.refused \in 0..Len(loads) /\ player.editor \in 0..Len(loads)
      /\ player.engine \in 0..Len(engines) /\ player.click \in 0..Len(engines)
  BY <1>1, <1>2, PageParts DEF HoldsWhatIs
<1>5. \A l \in DOMAIN loads :
         /\ loads[l].track \in Tracks /\ loads[l].shown \in BOOLEAN
         /\ loads[l].beats \in Answers /\ loads[l].peaks \in Answers
  BY <1>2 DEF LoadRecs
<1>6. \A e \in DOMAIN engines :
         /\ engines[e].state \in EngineStates /\ engines[e].load \in DOMAIN loads
         /\ engines[e].kind \in {"chunked", "fulldecode"} /\ engines[e].asked \in BOOLEAN
  BY <1>1, <1>2, PageParts DEF HoldsWhatIs, EngineRecs, Kinds
<1> QED  BY <1>3, <1>4, <1>5, <1>6 DEF PlayerTypeOK

(* However the loads overlap, one engine lives at a time, the one the page *)
(* can pause, and the click and the grid editor are of that one.           *)
THEOREM EveryPlayerIsWhole == PlayerSpec => [](PlayerTypeOK /\ PlayersAreWhole)
<1>1. PlayerInv => PlayersAreWhole
  BY PageParts DEF PlayerInv, SessionInv, Base, OneAlive, ClickIsOwned, PlayersAreWhole,
                   OneEngineAtATime, ClickLivesWithItsEngine
<1> QED  BY <1>1, PlayerTypes, PlayerInvHolds, PTL

-----------------------------------------------------------------------------
(* The mixer.  The last mix that is asked for is the open track's, and     *)
(* until it is there the engine's gains are nobody's.                      *)

(* A lane's settings, and a desk of them.                                  *)
Lane == [volume : 0..2, muted : BOOLEAN, soloed : BOOLEAN, key : -KeyEnd..KeyEnd]
Desks == [Strips -> Lane]

DeskInv ==
    /\ desk \in Desks /\ mixes \in [Tracked -> Desks] /\ waiting \in [Tracked -> Desks \cup {NoMix}]
    /\ room \in [track : Tracked, stage : Stages, key : -KeyEnd..KeyEnd]
    /\ asked \in Seq(Tracked) /\ (asked # <<>> => asked[Len(asked)] = room.track)
    /\ sounds = [gains |-> sounds.gains, keys |-> sounds.keys]
    /\ speed = [timer |-> speed.timer, lit |-> speed.lit, pressed |-> speed.pressed]
    /\ speed.lit \in {"half", "slow", "normal"}
    /\ HeardIsShown

(* What the gains are of.                                                  *)
SameGains(d, e) ==
    \A n \in Strips : e[n].volume = d[n].volume /\ e[n].muted = d[n].muted /\ e[n].soloed = d[n].soloed

LEMMA GainsAreSame ==
    ASSUME NEW d \in Desks, NEW e \in Desks, SameGains(d, e), NEW shown \in SUBSET Strips
    PROVE  Gains(e, shown) = Gains(d, shown)
BY DEF SameGains, Gains

LEMMA ClampIs == ASSUME NEW k \in Int PROVE Clamp(k) \in -KeyEnd..KeyEnd
BY DeskAssumption DEF Clamp

(* A lane's key is moved, and nothing else of it.                          *)
LEMMA NudgedIs ==
    ASSUME NEW d \in Desks, NEW n \in Strips, NEW k \in Int
    PROVE  /\ Nudged(d, n, k) \in Lane /\ Nudged(d, n, k).volume = d[n].volume
           /\ Nudged(d, n, k).muted = d[n].muted /\ Nudged(d, n, k).soloed = d[n].soloed
<1>1. PICK l \in Lane : l = d[n]
  BY DEF Desks
<1>2. PICK c \in -KeyEnd..KeyEnd : c = Clamp(k)
  BY ClampIs
<1>3. Nudged(d, n, k) = IF n = "drums" THEN l ELSE [l EXCEPT !.key = c]
  BY <1>1, <1>2 DEF Nudged
<1>4. /\ [l EXCEPT !.key = c] \in Lane /\ [l EXCEPT !.key = c].volume = l.volume
      /\ [l EXCEPT !.key = c].muted = l.muted /\ [l EXCEPT !.key = c].soloed = l.soloed
  BY DEF Lane
<1> QED BY <1>1, <1>3, <1>4

LEMMA FreshIs == Fresh \in Lane /\ FreshDesk \in Desks
<1>1. Fresh \in Lane
  BY DeskAssumption DEF Fresh, Lane
<1> QED BY <1>1 DEF FreshDesk, Desks

(* A gesture on the lanes is heard when the engine is up.                  *)
LEMMA MovesOK ==
    ASSUME DeskInv, NEW what, NEW d \in Desks, Moves(what, d) PROVE DeskInv'
<1>1. desk' = d /\ UNCHANGED <<room, mixes, asked, speed>>
  BY DEF Moves
<1>2. waiting' \in [Tracked -> Desks \cup {NoMix}]
  BY DEF Moves, Save, DeskInv
<1>3. sounds' = [gains |-> sounds'.gains, keys |-> sounds'.keys]
      /\ (Up => sounds'.gains = Gains(d, Shown))
  BY DEF Moves, Hear, DeskInv
<1>4. HeardIsShown'
  BY <1>1, <1>3 DEF HeardIsShown, Up, Shown
<1> QED BY <1>1, <1>2, <1>3, <1>4 DEF DeskInv

LEMMA LaneStepsOK ==
    ASSUME DeskInv,
           \/ ResetMixer \/ MuteAll \/ ClearAllSolos
           \/ \E n \in Strips : \/ SetLaneVolume(n, 0) \/ SetLaneVolume(n, 2)
                                \/ ToggleStemMute(n) \/ ToggleStemSolo(n) \/ SoloOnlyStem(n)
    PROVE  DeskInv'
<1>1. desk \in Desks
  BY DEF DeskInv
<1>2. CASE ResetMixer
  <2>1. \A n \in Strips : [Fresh EXCEPT !.key = desk[n].key] \in Lane
    BY <1>1, FreshIs DEF Desks, Lane
  <2>2. [n \in Strips |-> [Fresh EXCEPT !.key = desk[n].key]] \in Desks
    BY <2>1 DEF Desks
  <2> QED BY <1>2, <2>2, MovesOK DEF ResetMixer
<1>3. CASE MuteAll
  <2>1. PICK mute \in BOOLEAN : mute = ~(\A n \in Shown : desk[n].muted)
    OBVIOUS
  <2>2. \A n \in Strips : [desk[n] EXCEPT !.muted = mute] \in Lane
    BY <1>1 DEF Desks, Lane
  <2>3. [n \in Strips |-> [desk[n] EXCEPT !.muted = mute]] \in Desks
    BY <2>2 DEF Desks
  <2> QED BY <1>3, <2>1, <2>3, MovesOK DEF MuteAll
<1>4. CASE ClearAllSolos
  <2>1. \A n \in Strips : [desk[n] EXCEPT !.soloed = FALSE] \in Lane
    BY <1>1 DEF Desks, Lane
  <2>2. [n \in Strips |-> [desk[n] EXCEPT !.soloed = FALSE]] \in Desks
    BY <2>1 DEF Desks
  <2> QED BY <1>4, <2>2, MovesOK DEF ClearAllSolos
<1>5. ASSUME NEW n \in Strips, NEW v \in {0, 2}, SetLaneVolume(n, v) PROVE DeskInv'
  <2>1. [desk EXCEPT ![n].volume = v] \in Desks
    BY <1>1 DEF Desks, Lane
  <2> QED BY <1>5, <2>1, MovesOK DEF SetLaneVolume
<1>6. ASSUME NEW n \in Strips, ToggleStemMute(n) PROVE DeskInv'
  <2>1. [desk EXCEPT ![n].muted = ~@] \in Desks
    BY <1>1 DEF Desks, Lane
  <2> QED BY <1>6, <2>1, MovesOK DEF ToggleStemMute
<1>7. ASSUME NEW n \in Strips, ToggleStemSolo(n) PROVE DeskInv'
  <2>1. [desk EXCEPT ![n].soloed = ~@] \in Desks
    BY <1>1 DEF Desks, Lane
  <2> QED BY <1>7, <2>1, MovesOK DEF ToggleStemSolo
<1>8. ASSUME NEW n \in Strips, SoloOnlyStem(n) PROVE DeskInv'
  <2>1. [desk EXCEPT ![n].soloed = FALSE] \in Desks
    BY <1>1 DEF Desks, Lane
  <2>2. \A m \in Strips : [desk[m] EXCEPT !.soloed = (m = n), !.muted = @ /\ m # n] \in Lane
    BY <1>1 DEF Desks, Lane
  <2>3. [m \in Strips |-> [desk[m] EXCEPT !.soloed = (m = n), !.muted = @ /\ m # n]] \in Desks
    BY <2>2 DEF Desks
  <2> QED BY <1>8, <2>1, <2>3, MovesOK DEF SoloOnlyStem
<1> QED BY <1>2, <1>3, <1>4, <1>5, <1>6, <1>7, <1>8

(* A key is heard in no gain.                                              *)
LEMMA RekeyedOK ==
    ASSUME DeskInv, NEW d \in Desks, SameGains(desk, d), Rekeyed(d), NEW k \in -KeyEnd..KeyEnd,
           room' = [room EXCEPT !.key = k]
    PROVE  DeskInv'
<1>1. desk' = d /\ UNCHANGED <<mixes, asked, speed>>
  BY DEF Rekeyed
<1>2. waiting' \in [Tracked -> Desks \cup {NoMix}]
  BY DEF Rekeyed, DeskInv
<1>3. sounds' = [gains |-> sounds'.gains, keys |-> sounds'.keys] /\ sounds'.gains = sounds.gains
  BY DEF Rekeyed, DeskInv
<1>4. room' \in [track : Tracked, stage : Stages, key : -KeyEnd..KeyEnd]
      /\ room'.track = room.track /\ room'.stage = room.stage
  BY DEF DeskInv
<1>5. Shown \in SUBSET Strips
  BY DeskAssumption DEF DeskInv, Shown, Tracked
<1>6. Gains(d, Shown) = Gains(desk, Shown)
  BY <1>5, GainsAreSame DEF DeskInv
<1>7. HeardIsShown'
  BY <1>1, <1>3, <1>4, <1>6 DEF HeardIsShown, Up, Shown, DeskInv
<1> QED BY <1>1, <1>2, <1>3, <1>4, <1>7 DEF DeskInv

(* Every lane is moved to a key of its own.                                *)
NudgedAll(at) == [n \in Strips |-> Nudged(desk, n, at[n])]

LEMMA NudgedAllIs ==
    ASSUME desk \in Desks, NEW at \in [Strips -> Int], NEW d, d = NudgedAll(at)
    PROVE  d \in Desks /\ SameGains(desk, d)
<1>1. \A n \in Strips : /\ Nudged(desk, n, at[n]) \in Lane
                        /\ Nudged(desk, n, at[n]).volume = desk[n].volume
                        /\ Nudged(desk, n, at[n]).muted = desk[n].muted
                        /\ Nudged(desk, n, at[n]).soloed = desk[n].soloed
  <2> SUFFICES ASSUME NEW n \in Strips
               PROVE  /\ Nudged(desk, n, at[n]) \in Lane
                      /\ Nudged(desk, n, at[n]).volume = desk[n].volume
                      /\ Nudged(desk, n, at[n]).muted = desk[n].muted
                      /\ Nudged(desk, n, at[n]).soloed = desk[n].soloed
    OBVIOUS
  <2>1. PICK k \in Int : k = at[n]
    OBVIOUS
  <2> QED BY <2>1, NudgedIs
<1> QED BY <1>1 DEF NudgedAll, Desks, SameGains

LEMMA KeyStepsOK ==
    ASSUME DeskInv,
           \/ ResetAllKeys \/ ApplyPitch(room.key + 1) \/ ApplyPitch(room.key - 1)
           \/ \E n \in Strips : SetLanePitch(n, desk[n].key + 1) \/ SetLanePitch(n, desk[n].key - 1)
    PROVE  DeskInv'
<1>1. /\ desk \in Desks /\ room.key \in Int /\ \A n \in Strips : desk[n].key \in Int
      /\ room.key \in -KeyEnd..KeyEnd /\ room = [room EXCEPT !.key = room.key]
  BY DeskAssumption DEF DeskInv, Desks, Lane
<1>2. ASSUME NEW k \in Int, ApplyPitch(k) PROVE DeskInv'
  <2>1. PICK c \in -KeyEnd..KeyEnd : c = Clamp(k)
    BY ClampIs
  <2>2. PICK at : at \in [Strips -> Int] /\ at = [n \in Strips |-> desk[n].key + c - room.key]
    <3>1. PICK r \in Int : r = room.key
      BY <1>1
    <3>2. c \in Int
      BY DeskAssumption
    <3>3. \A n \in Strips : desk[n].key + c - r \in Int
      <4> SUFFICES ASSUME NEW n \in Strips PROVE desk[n].key + c - r \in Int
        OBVIOUS
      <4>1. PICK q \in Int : q = desk[n].key
        BY <1>1
      <4> QED BY <3>2, <4>1
    <3>4. [n \in Strips |-> desk[n].key + c - r] \in [Strips -> Int]
      BY <3>3
    <3> QED BY <3>1, <3>4
  <2>3. PICK d : d = NudgedAll(at)
    OBVIOUS
  <2>4. d \in Desks /\ SameGains(desk, d)
    BY <1>1, <2>2, <2>3, NudgedAllIs
  <2>5. d = [n \in Strips |-> Nudged(desk, n, desk[n].key + Clamp(k) - room.key)]
    BY <2>1, <2>2, <2>3 DEF NudgedAll
  <2>6. Rekeyed(d) /\ room' = [room EXCEPT !.key = c]
    BY <1>2, <2>1, <2>5 DEF ApplyPitch
  <2> QED BY <2>4, <2>6, RekeyedOK
<1>3. CASE ResetAllKeys
  <2>1. PICK at : at \in [Strips -> Int] /\ at = [n \in Strips |-> 0]
    <3>1. [n \in Strips |-> 0] \in [Strips -> Int]
      OBVIOUS
    <3> QED BY <3>1
  <2>2. PICK d : d = NudgedAll(at)
    OBVIOUS
  <2>3. d \in Desks /\ SameGains(desk, d)
    BY <1>1, <2>1, <2>2, NudgedAllIs
  <2>4. d = [n \in Strips |-> Nudged(desk, n, 0)]
    BY <2>1, <2>2 DEF NudgedAll
  <2>5. Rekeyed(d) /\ room' = [room EXCEPT !.key = 0] /\ 0 \in -KeyEnd..KeyEnd
    BY <1>3, <2>4, DeskAssumption DEF ResetAllKeys
  <2> QED BY <2>3, <2>5, RekeyedOK
<1>4. ASSUME NEW n \in Strips, NEW k \in Int, SetLanePitch(n, k) PROVE DeskInv'
  <2>1. PICK l \in Lane : l = Nudged(desk, n, k)
    BY <1>1, NudgedIs
  <2>2. l.volume = desk[n].volume /\ l.muted = desk[n].muted /\ l.soloed = desk[n].soloed
    BY <1>1, <2>1, NudgedIs
  <2>3. PICK d : d = [desk EXCEPT ![n] = l]
    OBVIOUS
  <2>4. d \in Desks /\ SameGains(desk, d)
    BY <1>1, <2>2, <2>3 DEF Desks, SameGains
  <2>5. Rekeyed(d) /\ room' = room
    BY <1>4, <2>1, <2>3 DEF SetLanePitch
  <2> QED BY <1>1, <2>4, <2>5, RekeyedOK
<1>5. ASSUME NEW n \in Strips PROVE desk[n].key + 1 \in Int /\ desk[n].key - 1 \in Int
  <2>1. PICK k \in Int : k = desk[n].key
    BY <1>1
  <2> QED BY <2>1
<1> QED BY <1>1, <1>2, <1>3, <1>4, <1>5

(* Opening a track, its mix and its engine.                                *)
LEMMA OpeningStepsOK ==
    ASSUME DeskInv, MixAnswers \/ CanPlayMounts \/ EngineComesUp \/ \E t \in Tracked : OpenRecord(t)
    PROVE  DeskInv'
<1>1. /\ desk \in Desks /\ room \in [track : Tracked, stage : Stages, key : -KeyEnd..KeyEnd]
      /\ asked \in Seq(Tracked)
  BY DEF DeskInv
<1>2. CASE MixAnswers
  <2>1. PICK n \in Nat : n = Len(asked)
    BY <1>1
  <2>2. n # 0 /\ Head(asked) \in Tracked /\ Tail(asked) \in Seq(Tracked) /\ Head(asked) = asked[1]
    BY <1>1, <1>2, <2>1, HeadTailProperties, EmptySeq DEF MixAnswers
  <2>3. Tail(asked) # <<>> => Tail(asked)[Len(Tail(asked))] = asked[Len(asked)]
    BY <1>1, <1>2, HeadTailProperties DEF MixAnswers
  <2>4. Tail(asked) = <<>> => Head(asked) = asked[Len(asked)]
    <3> SUFFICES ASSUME Tail(asked) = <<>> PROVE Head(asked) = asked[Len(asked)]
      OBVIOUS
    <3>1. Len(Tail(asked)) = n - 1
      BY <1>1, <1>2, <2>1, HeadTailProperties DEF MixAnswers
    <3>2. Len(Tail(asked)) = 0
      <4>1. PICK rest : rest = Tail(asked)
        OBVIOUS
      <4>2. rest = <<>>
        BY <4>1
      <4>3. Len(rest) = 0
        BY <4>2
      <4> QED BY <4>1, <4>3
    <3> QED BY <2>1, <2>2, <3>1, <3>2
  <2>5. UNCHANGED <<room, mixes, waiting, speed>> /\ asked' = Tail(asked)
    BY <1>2 DEF MixAnswers
  <2>6. PICK m \in Desks : m = mixes[Head(asked)]
    BY <2>2 DEF DeskInv
  <2>7. \A s \in Strips : m[s] \in Lane /\ [m[s] EXCEPT !.muted = FALSE] \in Lane
    BY DEF Desks, Lane
  <2>8. desk' \in Desks
    BY <1>2, <2>6, <2>7 DEF MixAnswers, Desks
  <2>9. /\ sounds' = [gains |-> sounds'.gains, keys |-> sounds'.keys]
        /\ Head(asked) = room.track /\ Up => sounds'.gains = Gains(desk', Shown)
    BY <1>2 DEF MixAnswers, MixReachesEngine, DeskInv
  <2>10. HeardIsShown'
    BY <1>2, <2>4, <2>5, <2>9 DEF HeardIsShown, Up, Shown, DeskInv, MixAnswers
  <2> QED BY <1>2, <2>2, <2>3, <2>5, <2>8, <2>9, <2>10 DEF DeskInv, MixAnswers
<1>3. CASE CanPlayMounts
  BY <1>1, <1>3 DEF CanPlayMounts, DeskInv, HeardIsShown, Up, Stages
<1>4. CASE EngineComesUp
  <2>1. /\ room' \in [track : Tracked, stage : Stages, key : -KeyEnd..KeyEnd]
        /\ room'.track = room.track
    BY <1>1, <1>4 DEF EngineComesUp, Stages
  <2>2. sounds'.gains = Gains(desk, Shown) /\ sounds' = [gains |-> sounds'.gains, keys |-> sounds'.keys]
    BY <1>4 DEF EngineComesUp
  <2>3. HeardIsShown'
    BY <1>4, <2>1, <2>2 DEF EngineComesUp, HeardIsShown, Shown
  <2> QED BY <1>1, <1>4, <2>1, <2>2, <2>3 DEF EngineComesUp, DeskInv
<1>5. ASSUME NEW t \in Tracked, OpenRecord(t) PROVE DeskInv'
  <2>1. room' \in [track : Tracked, stage : Stages, key : -KeyEnd..KeyEnd] /\ room'.track = t
    BY <1>5, DeskAssumption DEF OpenRecord, Stages
  <2>2. asked' \in Seq(Tracked) /\ asked'[Len(asked')] = t
    BY <1>1, <1>5, AppendProperties DEF OpenRecord
  <2>3. sounds' = [gains |-> sounds'.gains, keys |-> sounds'.keys]
    BY <1>5 DEF OpenRecord
  <2>4. HeardIsShown'
    BY <1>5 DEF OpenRecord, HeardIsShown, Up
  <2> QED BY <1>1, <1>5, <2>1, <2>2, <2>3, <2>4 DEF OpenRecord, DeskInv
<1> QED BY <1>2, <1>3, <1>4, <1>5

LEMMA OtherDeskStepsOK ==
    ASSUME DeskInv,
           \/ NudgeSlowSpeed \/ SlowApplies \/ \E t \in Tracked : MixSaves(t)
           \/ \E b \in {"half", "slow", "normal"} : PressSpeed(b)
    PROVE  DeskInv'
<1>1. ASSUME NEW t \in Tracked, MixSaves(t) PROVE DeskInv'
  <2>1. mixes' \in [Tracked -> Desks] /\ waiting' \in [Tracked -> Desks \cup {NoMix}]
    BY <1>1 DEF MixSaves, DeskInv
  <2> QED BY <1>1, <2>1 DEF MixSaves, DeskInv, HeardIsShown, Up, Shown
<1>2. ASSUME NudgeSlowSpeed \/ SlowApplies \/ \E b \in {"half", "slow", "normal"} : PressSpeed(b)
      PROVE  DeskInv'
  <2>1. UNCHANGED <<desk, room, sounds, mixes, waiting, asked>>
    BY <1>2 DEF NudgeSlowSpeed, SlowApplies, PressSpeed
  <2>2. /\ speed' = [timer |-> speed'.timer, lit |-> speed'.lit, pressed |-> speed'.pressed]
        /\ speed'.lit \in {"half", "slow", "normal"}
    BY <1>2 DEF NudgeSlowSpeed, SlowApplies, PressSpeed, DeskInv
  <2> QED BY <2>1, <2>2 DEF DeskInv, HeardIsShown, Up, Shown
<1> QED BY <1>1, <1>2

LEMMA DeskInitOK == DeskInit => DeskInv
<1> SUFFICES ASSUME DeskInit PROVE DeskInv
  OBVIOUS
<1>1. PICK t \in Tracked : room = [track |-> t, stage |-> "mounting", key |-> 0] /\ asked = <<t>>
  BY DEF DeskInit
<1>2. room \in [track : Tracked, stage : Stages, key : -KeyEnd..KeyEnd] /\ room.track = t
  BY <1>1, DeskAssumption DEF Stages
<1>3. asked \in Seq(Tracked) /\ asked[Len(asked)] = room.track
  BY <1>1, <1>2
<1>4. desk \in Desks /\ mixes \in [Tracked -> Desks] /\ waiting \in [Tracked -> Desks \cup {NoMix}]
  BY FreshIs DEF DeskInit
<1>5. /\ speed = [timer |-> speed.timer, lit |-> speed.lit, pressed |-> speed.pressed]
      /\ speed.lit \in {"half", "slow", "normal"} /\ sounds = [gains |-> sounds.gains, keys |-> sounds.keys]
  BY DEF DeskInit
<1> QED BY <1>1, <1>2, <1>3, <1>4, <1>5 DEF DeskInv, HeardIsShown, Up

LEMMA DeskStepOK == DeskInv /\ [DeskNext]_deskVars => DeskInv'
<1>1. ASSUME DeskInv, DeskNext PROVE DeskInv'
  BY <1>1, LaneStepsOK, KeyStepsOK, OpeningStepsOK, OtherDeskStepsOK DEF DeskNext
<1>2. ASSUME DeskInv, UNCHANGED deskVars PROVE DeskInv'
  BY <1>2 DEF DeskInv, deskVars, HeardIsShown, Up, Shown
<1> QED BY <1>1, <1>2

(* Whichever of the mix and the engine comes first, and whatever is        *)
(* pressed meanwhile, what is heard is what the desk shows (mixer.js).     *)
THEOREM DeskStaysHeard == DeskSpec => [](DeskTypeOK /\ HeardIsShown)
<1>1. DeskInv => DeskTypeOK /\ HeardIsShown
  BY DEF DeskInv, DeskTypeOK, Desks, Lane
<1> QED BY <1>1, DeskInitOK, DeskStepOK, PTL DEF DeskSpec

-----------------------------------------------------------------------------
(* The lyrics tab.  What a read of the latest load finds is of the tab's   *)
(* track, or was kept for it over another; and a timing given to the       *)
(* server's lyrics is the last one on its way there, has arrived, or was   *)
(* lost.                                                                   *)

(* What the tab holds, and what is on its way.                             *)
TrackOrSilence == Ballads \cup {Silence}
Send == [track : Ballads, of : Ballads, from : {"store", "server"}, timing : Nat]
LyricKinds == {"empty", "entry", "removed", "offer", "unknown", "notfound", "offline"}
Theirs == {"entry", "offer", "unknown"}
Panels ==
    [current : TrackOrSilence, visible : BOOLEAN, track : TrackOrSilence, kind : LyricKinds, of : TrackOrSilence,
     from : {"store", "server"}, timing : Nat, sync : BOOLEAN, wait : Send \cup {NoSend}, token : Nat]
ReadStages == {"store", "server", "tags"}
LyricReads == [track : Ballads, token : Nat, stage : ReadStages \cup {"keep", "remove"}, to : Ballads]
LookupSays == [kind : {"none", "entry", "versions", "failed"}, timing : Nat]
LyricLookups ==
    [track : Ballads, stage : {"asked", "answered", "reading"}, wanted : BOOLEAN, says : LookupSays]
StoreEntries == [kind : {"none", "othersong", "entry", "dismissed"}, timing : Nat, of : TrackOrSilence]
ServerEntries == [kind : {"none", "entry", "versions"}, timing : Nat]
LyricsScript ==
    [does : SUBSET {"open", "tab", "keep", "remove", "edit"}, gestures : Int,
     stores : {"none", "othersong", "entry"}, serves : {"none", "entry", "versions"},
     tagged : {"lyrics", "song", "nothing"}, edits : Nat]

(* The last timing sent for the server's lyrics of t is n, or none was and *)
(* n is the one they have.                                                 *)
For(s, t) == s.from = "server" /\ s.track = t
Said(list, t, n, had) ==
    \/ \E i \in DOMAIN list : /\ For(list[i], t) /\ list[i].timing = n
                              /\ \A k \in DOMAIN list : For(list[k], t) => k <= i
    \/ (\A i \in DOMAIN list : ~For(list[i], t)) /\ had = n

OnItsWay(t) ==
    \/ given[t] = 0 \/ given[t] \in lost
    \/ IF panel.wait # NoSend /\ For(panel.wait, t) THEN panel.wait.timing = given[t]
       ELSE Said(sends, t, given[t], served[t].timing)

HasLyrics(sv, t) == t \in Ballads /\ sv[t].kind = "entry"

(* What is sent or waits to be is of lyrics its track has.                 *)
SendFits(s, st, sv) ==
    /\ s.of = s.track \/ <<s.of, s.track>> \in st
    /\ s.from = "server" => HasLyrics(sv, s.track)

SendsInv ==
    /\ sends \in Seq(Send) /\ served \in [Ballads -> ServerEntries] /\ given \in [Ballads -> Nat]
    /\ \A i \in DOMAIN sends : SendFits(sends[i], strayed, served)
    /\ panel.wait # NoSend => panel.wait \in Send /\ SendFits(panel.wait, strayed, served)
    /\ \A t \in Ballads : given[t] # 0 => HasLyrics(served, t)
    /\ \A t \in Ballads : OnItsWay(t)

PanelInv ==
    /\ panel \in Panels /\ LyricsAreTheTracks
    /\ panel.kind \in Theirs => panel.of \in Ballads
    /\ panel.kind = "entry" /\ panel.from = "server" => panel.of = panel.track /\ HasLyrics(served, panel.track)
    /\ panel.wait # NoSend => panel.wait.track = panel.track /\ panel.wait.from = panel.from

(* The reads of the latest load: there is one at most.                     *)
LatestReads == {r \in reads : r.token = panel.token /\ r.stage \in ReadStages}

ReadsInv ==
    /\ reads \subseteq LyricReads
    /\ \A r \in reads : r.token <= panel.token /\ (r.stage = "keep" => Belong(r.track, r.to))
    /\ \A r, s \in LatestReads : r = s
    /\ \A r \in LatestReads : r.track = panel.track

LookupsInv ==
    /\ lookups \subseteq LyricLookups
    /\ \A l \in lookups : /\ l.wanted => l.track = panel.track
                          /\ l.says.kind = "entry" => HasLyrics(served, l.track)

StoreInv ==
    /\ stored \in [Ballads -> StoreEntries]
    /\ \A t \in Ballads : stored[t].kind = "entry" => stored[t].of \in Ballads /\ Belong(stored[t].of, t)

LyricsInv == SendsInv /\ PanelInv /\ ReadsInv /\ LookupsInv /\ StoreInv /\ scene \in LyricsScript

(* A timing sent after the others.                                         *)
LEMMA SaidLast ==
    ASSUME NEW list \in Seq(Send), NEW s \in Send, NEW t, NEW n, NEW had, NEW all, all = list \o <<s>>
    PROVE  /\ For(s, t) /\ s.timing = n => Said(all, t, n, had)
           /\ ~For(s, t) /\ Said(list, t, n, had) => Said(all, t, n, had)
<1>1. PICK m \in Nat : m = Len(list)
  OBVIOUS
<1>2. DOMAIN list = 1..m /\ DOMAIN all = 1..(m + 1) /\ all[m + 1] = s /\ \A i \in 1..m : all[i] = list[i]
  BY <1>1
<1>3. ASSUME For(s, t), s.timing = n PROVE Said(all, t, n, had)
  <2>1. m + 1 \in DOMAIN all /\ \A k \in DOMAIN all : k <= m + 1
    BY <1>2
  <2> QED BY <1>2, <1>3, <2>1 DEF Said
<1>4. ASSUME ~For(s, t), Said(list, t, n, had) PROVE Said(all, t, n, had)
  <2>1. ASSUME NEW i \in DOMAIN list, For(list[i], t), list[i].timing = n,
               \A k \in DOMAIN list : For(list[k], t) => k <= i
        PROVE  Said(all, t, n, had)
    <3>1. i \in DOMAIN all /\ all[i] = list[i]
      BY <1>2
    <3>2. ASSUME NEW k \in DOMAIN all, For(all[k], t) PROVE k <= i
      <4>1. k \in 1..m
        BY <1>2, <1>4, <3>2
      <4> QED BY <1>2, <2>1, <3>2, <4>1
    <3> QED BY <2>1, <3>1, <3>2 DEF Said
  <2>2. CASE (\A i \in DOMAIN list : ~For(list[i], t)) /\ had = n
    <3>1. \A i \in DOMAIN all : ~For(all[i], t)
      BY <1>2, <1>4, <2>2
    <3> QED BY <2>2, <3>1 DEF Said
  <2> QED BY <1>4, <2>1, <2>2 DEF Said
<1> QED BY <1>3, <1>4

(* The first of them arrives.                                              *)
LEMMA SaidFirst ==
    ASSUME NEW list \in Seq(Send), list # <<>>, NEW t, NEW n, NEW had, Said(list, t, n, had),
           NEW has, has = IF For(Head(list), t) THEN Head(list).timing ELSE had
    PROVE  Said(Tail(list), t, n, has)
<1>1. PICK m \in Nat : m = Len(list)
  OBVIOUS
<1>2. PICK rest : rest = Tail(list)
  OBVIOUS
<1>3. PICK s : s = Head(list)
  OBVIOUS
<1>4. /\ m # 0 /\ DOMAIN list = 1..m /\ DOMAIN rest = 1..(m - 1) /\ list[1] = s
      /\ \A i \in 1..(m - 1) : rest[i] = list[i + 1]
  BY <1>1, <1>2, <1>3
<1>5. ASSUME NEW i \in DOMAIN list, For(list[i], t), list[i].timing = n,
             \A k \in DOMAIN list : For(list[k], t) => k <= i
      PROVE  Said(rest, t, n, has)
  <2>1. CASE i = 1
    <3>1. has = n
      BY <1>3, <1>4, <1>5, <2>1
    <3>2. ASSUME NEW k \in DOMAIN rest PROVE ~For(rest[k], t)
      <4>1. k + 1 \in DOMAIN list /\ rest[k] = list[k + 1] /\ ~(k + 1 <= i)
        BY <1>4, <2>1
      <4> QED BY <1>5, <4>1
    <3> QED BY <3>1, <3>2 DEF Said
  <2>2. CASE i # 1
    <3>1. i - 1 \in DOMAIN rest /\ rest[i - 1] = list[i]
      BY <1>4, <2>2
    <3>2. ASSUME NEW k \in DOMAIN rest, For(rest[k], t) PROVE k <= i - 1
      <4>1. k + 1 \in DOMAIN list /\ rest[k] = list[k + 1]
        BY <1>4
      <4>2. k + 1 <= i
        BY <1>5, <3>2, <4>1
      <4> QED BY <1>4, <4>2
    <3> QED BY <1>5, <3>1, <3>2 DEF Said
  <2> QED BY <2>1, <2>2
<1>6. CASE (\A i \in DOMAIN list : ~For(list[i], t)) /\ had = n
  <2>1. 1 \in DOMAIN list
    BY <1>4
  <2>2. has = n
    BY <1>3, <1>4, <1>6, <2>1
  <2>3. ASSUME NEW k \in DOMAIN rest PROVE ~For(rest[k], t)
    <3>1. k + 1 \in DOMAIN list /\ rest[k] = list[k + 1]
      BY <1>4
    <3> QED BY <1>6, <3>1
  <2> QED BY <1>2, <2>2, <2>3 DEF Said
<1> QED BY <1>2, <1>5, <1>6 DEF Said

(* The first of them is lost.                                              *)
LEMMA SaidLost ==
    ASSUME NEW list \in Seq(Send), list # <<>>, NEW t, NEW n, NEW had, Said(list, t, n, had),
           Head(list).timing # n
    PROVE  Said(Tail(list), t, n, had)
<1>1. PICK m \in Nat : m = Len(list)
  OBVIOUS
<1>2. PICK rest : rest = Tail(list)
  OBVIOUS
<1>3. /\ m # 0 /\ DOMAIN list = 1..m /\ DOMAIN rest = 1..(m - 1) /\ list[1].timing # n
      /\ \A i \in 1..(m - 1) : rest[i] = list[i + 1]
  BY <1>1, <1>2
<1>4. ASSUME NEW i \in DOMAIN list, For(list[i], t), list[i].timing = n,
             \A k \in DOMAIN list : For(list[k], t) => k <= i
      PROVE  Said(rest, t, n, had)
  <2>1. i # 1
    BY <1>3, <1>4
  <2>2. i - 1 \in DOMAIN rest /\ rest[i - 1] = list[i]
    BY <1>3, <2>1
  <2>3. ASSUME NEW k \in DOMAIN rest, For(rest[k], t) PROVE k <= i - 1
    <3>1. k + 1 \in DOMAIN list /\ rest[k] = list[k + 1]
      BY <1>3
    <3>2. k + 1 <= i
      BY <1>4, <2>3, <3>1
    <3> QED BY <1>3, <3>2
  <2> QED BY <1>4, <2>2, <2>3 DEF Said
<1>5. CASE (\A i \in DOMAIN list : ~For(list[i], t)) /\ had = n
  <2>1. ASSUME NEW k \in DOMAIN rest PROVE ~For(rest[k], t)
    <3>1. k + 1 \in DOMAIN list /\ rest[k] = list[k + 1]
      BY <1>3
    <3> QED BY <1>5, <3>1
  <2> QED BY <1>5, <2>1 DEF Said
<1> QED BY <1>2, <1>4, <1>5 DEF Said

-----------------------------------------------------------------------------
(* What each part keeps while the others move.                             *)

(* Tracks keep the lyrics and the timing they have at the server, and what *)
(* has strayed.                                                            *)
NothingTaken ==
    /\ strayed \subseteq strayed' /\ served' \in [Ballads -> ServerEntries]
    /\ \A t \in Ballads : served[t].kind = "entry" => served'[t] = served[t]

(* The timing that waits: it waits on, it is sent, or it was for the store *)
(* and is forgotten.                                                       *)
WaitGoesTo(p) ==
    \/ p.wait = panel.wait /\ p.from = panel.from /\ sends' = sends
    \/ p.wait = NoSend /\ sends' = Flushed(sends, panel)
    \/ p.wait = NoSend /\ sends' = sends /\ panel.wait.from # "server"

LEMMA SendsStay ==
    ASSUME LyricsInv, NothingTaken, NEW p, panel' = p, WaitGoesTo(p), UNCHANGED <<given, lost>>
    PROVE  SendsInv'
<1>1. PICK w : w = panel.wait
  OBVIOUS
<1>2. sends \in Seq(Send) /\ (w # NoSend => w \in Send) /\ w \in Send \cup {NoSend}
  BY <1>1 DEF LyricsInv, SendsInv, PanelInv, Panels
<1>3. \A t : HasLyrics(served, t) => HasLyrics(served', t) /\ served'[t] = served[t]
  BY DEF HasLyrics, NothingTaken
<1>4. \A s : SendFits(s, strayed, served) => SendFits(s, strayed', served')
  BY <1>3 DEF SendFits, NothingTaken
<1>5. served' \in [Ballads -> ServerEntries] /\ given' \in [Ballads -> Nat]
  BY DEF LyricsInv, SendsInv, NothingTaken
<1>6. \A t \in Ballads : given'[t] # 0 => HasLyrics(served', t) /\ served'[t].timing = served[t].timing
  BY <1>3 DEF LyricsInv, SendsInv
<1>7. CASE p.wait = w /\ sends' = sends
  <2>1. \A i \in DOMAIN sends' : SendFits(sends'[i], strayed', served')
    BY <1>4, <1>7 DEF LyricsInv, SendsInv
  <2>2. panel'.wait # NoSend => panel'.wait \in Send /\ SendFits(panel'.wait, strayed', served')
    BY <1>1, <1>4, <1>7 DEF LyricsInv, SendsInv
  <2>3. \A t \in Ballads : OnItsWay(t)'
    BY <1>1, <1>6, <1>7 DEF LyricsInv, SendsInv, OnItsWay
  <2> QED BY <1>2, <1>5, <1>6, <1>7, <2>1, <2>2, <2>3 DEF SendsInv
<1>8. CASE p.wait = NoSend /\ (w = NoSend \/ w.from # "server") /\ sends' = sends
  <2>1. \A i \in DOMAIN sends' : SendFits(sends'[i], strayed', served')
    BY <1>4, <1>8 DEF LyricsInv, SendsInv
  <2>2. \A t \in Ballads : OnItsWay(t)'
    BY <1>1, <1>6, <1>8 DEF LyricsInv, SendsInv, OnItsWay, For
  <2> QED BY <1>2, <1>5, <1>6, <1>8, <2>1, <2>2 DEF SendsInv
<1>9. CASE p.wait = NoSend /\ w # NoSend /\ sends' = Flushed(sends, panel)
  <2>1. PICK all : all = sends \o <<w>>
    OBVIOUS
  <2>2. sends' = all /\ w \in Send /\ all \in Seq(Send)
    BY <1>1, <1>2, <1>9, <2>1 DEF Flushed, Waiting
  <2>3. ASSUME NEW i \in DOMAIN all PROVE SendFits(all[i], strayed, served)
    <3>1. PICK m \in Nat : m = Len(sends)
      BY <1>2
    <3>2. DOMAIN sends = 1..m /\ ((i \in 1..m /\ all[i] = sends[i]) \/ all[i] = w)
      BY <1>2, <2>1, <2>3, <3>1
    <3> QED BY <1>1, <1>9, <3>2 DEF LyricsInv, SendsInv
  <2>4. \A i \in DOMAIN sends' : SendFits(sends'[i], strayed', served')
    BY <1>4, <2>2, <2>3
  <2>5. ASSUME NEW t \in Ballads, given[t] # 0, given[t] \notin lost PROVE OnItsWay(t)'
    <3>1. IF For(w, t) THEN w.timing = given[t] ELSE Said(sends, t, given[t], served[t].timing)
      BY <1>1, <1>9, <2>5 DEF LyricsInv, SendsInv, OnItsWay
    <3>2. Said(all, t, given[t], served[t].timing)
      BY <1>2, <2>1, <2>2, <3>1, SaidLast
    <3> QED BY <1>6, <1>9, <2>2, <2>5, <3>2 DEF OnItsWay
  <2>6. \A t \in Ballads : OnItsWay(t)'
    BY <2>5 DEF OnItsWay
  <2> QED BY <1>5, <1>6, <1>9, <2>2, <2>4, <2>6 DEF SendsInv
<1>10. CASE p.wait = NoSend /\ w = NoSend /\ sends' = Flushed(sends, panel)
  <2>1. Waiting(panel) = <<>> /\ sends \o <<>> = sends
    BY <1>1, <1>2, <1>10 DEF Waiting
  <2>2. sends' = sends
    BY <1>10, <2>1 DEF Flushed
  <2> QED BY <1>8, <1>10, <2>2
<1> QED BY <1>1, <1>7, <1>8, <1>9, <1>10 DEF WaitGoesTo

(* Another panel: nothing of a track's is claimed, or what is shown stays, *)
(* or it is of the tab's track or the open one.                            *)
ShowsTheirs(p) ==
    \/ p.kind \notin Theirs
    \/ /\ p.kind = panel.kind /\ p.of = panel.of /\ p.from = panel.from
       /\ p.current = panel.current /\ p.track = panel.track /\ (p.visible => panel.visible)
    \/ /\ p.of \in Ballads
       /\ \/ p.of \in {p.track, p.current}
          \/ <<p.of, p.track>> \in strayed' \/ <<p.of, p.current>> \in strayed'
       /\ p.kind = "entry" /\ p.from = "server" => p.of = p.track /\ HasLyrics(served', p.track)

LEMMA PanelStays ==
    ASSUME LyricsInv, NothingTaken, NEW p \in Panels, panel' = p, ShowsTheirs(p),
           p.wait = NoSend \/ (p.wait = panel.wait /\ p.from = panel.from /\ p.track = panel.track)
    PROVE  PanelInv'
<1>1. \A t : HasLyrics(served, t) => HasLyrics(served', t)
  BY DEF HasLyrics, NothingTaken
<1>2. panel'.wait # NoSend => panel'.wait.track = panel'.track /\ panel'.wait.from = panel'.from
  BY DEF LyricsInv, PanelInv
<1>3. CASE p.kind \notin Theirs
  BY <1>2, <1>3 DEF PanelInv, LyricsAreTheTracks, Theirs
<1>4. CASE /\ p.kind = panel.kind /\ p.of = panel.of /\ p.from = panel.from
           /\ p.current = panel.current /\ p.track = panel.track /\ (p.visible => panel.visible)
  BY <1>1, <1>2, <1>4 DEF LyricsInv, PanelInv, LyricsAreTheTracks, Belong, NothingTaken
<1>5. CASE /\ p.of \in Ballads
           /\ \/ p.of \in {p.track, p.current}
              \/ <<p.of, p.track>> \in strayed' \/ <<p.of, p.current>> \in strayed'
           /\ p.kind = "entry" /\ p.from = "server" => p.of = p.track /\ HasLyrics(served', p.track)
  BY <1>2, <1>5 DEF PanelInv, LyricsAreTheTracks, Belong
<1> QED BY <1>3, <1>4, <1>5 DEF ShowsTheirs

(* Reads of this load end, and keep() and removeLyrics() begin.            *)
NewRead(r) ==
    /\ r \in LyricReads /\ r.token <= panel.token /\ r.stage \notin ReadStages
    /\ r.stage = "keep" => r.track = r.to \/ <<r.track, r.to>> \in strayed'

LEMMA ReadsStay ==
    ASSUME LyricsInv, NothingTaken, panel'.token = panel.token, panel'.track = panel.track,
           \A r \in reads' : r \in reads \/ NewRead(r)
    PROVE  ReadsInv'
<1>1. \A r \in reads' : r \in LyricReads /\ r.token <= panel'.token
  BY DEF LyricsInv, ReadsInv, NewRead
<1>2. \A r \in reads' : r.stage = "keep" => Belong(r.track, r.to)'
  BY DEF LyricsInv, ReadsInv, NewRead, Belong, NothingTaken
<1>3. LatestReads' \subseteq LatestReads
  BY DEF LatestReads, NewRead
<1> QED BY <1>1, <1>2, <1>3 DEF LyricsInv, ReadsInv

(* The read of the latest load goes on.                                    *)
LEMMA ReadMoves ==
    ASSUME LyricsInv, NothingTaken, panel'.token = panel.token, panel'.track = panel.track,
           NEW r \in LatestReads, NEW stage \in {"server", "tags"}, reads' = Moved(r, stage)
    PROVE  ReadsInv'
<1>1. r \in reads /\ r \in LyricReads /\ r.token = panel.token /\ r.track = panel.track
  BY DEF LatestReads, LyricsInv, ReadsInv
<1>2. PICK q : q = [r EXCEPT !.stage = stage]
  OBVIOUS
<1>3. q \in LyricReads /\ q.token = r.token /\ q.track = r.track /\ q.stage = stage
  BY <1>1, <1>2 DEF LyricReads, ReadStages
<1>4. reads' = (reads \ {r}) \cup {q}
  BY <1>2 DEF Moved
<1>5. \A s \in LatestReads : s = r
  BY DEF LyricsInv, ReadsInv
<1>6. \A s \in LatestReads' : s = q
  BY <1>4, <1>5 DEF LatestReads
<1>7. panel.token \in Nat
  BY DEF LyricsInv, PanelInv, Panels
<1>8. \A s \in reads' : s \in LyricReads /\ s.token <= panel'.token
  BY <1>1, <1>3, <1>4, <1>7 DEF LyricsInv, ReadsInv
<1>9. \A s \in reads' : s.stage = "keep" => Belong(s.track, s.to)'
  BY <1>3, <1>4 DEF LyricsInv, ReadsInv, Belong, NothingTaken
<1> QED BY <1>1, <1>3, <1>6, <1>8, <1>9 DEF ReadsInv

(* Lookups end, are aborted, or begin.                                     *)
LEMMA LookupsStay ==
    ASSUME LyricsInv, NothingTaken,
           \A l \in lookups' : \/ l \in lookups /\ panel'.track = panel.track
                               \/ l \in Aborted(lookups)
                               \/ l \in LyricLookups /\ l.track = panel'.track /\ l.says.kind = "none"
    PROVE  LookupsInv'
<1>1. \A t : HasLyrics(served, t) => HasLyrics(served', t)
  BY DEF HasLyrics, NothingTaken
<1>2. ASSUME NEW l \in Aborted(lookups)
      PROVE  l \in LyricLookups /\ ~l.wanted /\ (l.says.kind = "entry" => HasLyrics(served', l.track))
  <2>1. PICK k \in lookups : l = [k EXCEPT !.wanted = FALSE]
    BY DEF Aborted
  <2>2. k \in LyricLookups /\ (k.says.kind = "entry" => HasLyrics(served, k.track))
    BY DEF LyricsInv, LookupsInv
  <2>3. l \in LyricLookups /\ l.wanted = FALSE /\ l.says = k.says /\ l.track = k.track
    BY <2>1, <2>2 DEF LyricLookups
  <2> QED BY <1>1, <2>2, <2>3
<1>3. ASSUME NEW l \in lookups'
      PROVE  /\ l \in LyricLookups /\ (l.wanted => l.track = panel'.track)
             /\ l.says.kind = "entry" => HasLyrics(served', l.track)
  BY <1>1, <1>2 DEF LyricsInv, LookupsInv
<1> QED BY <1>3 DEF LookupsInv

(* An entry of the store is written, with its track's lyrics.              *)
LEMMA StoreStays ==
    ASSUME LyricsInv, NothingTaken,
           \/ stored' = stored
           \/ \E t \in Ballads, e \in StoreEntries :
                 /\ stored' = [stored EXCEPT ![t] = e]
                 /\ e.kind = "entry" => e.of \in Ballads /\ (e.of = t \/ <<e.of, t>> \in strayed')
    PROVE  StoreInv'
<1>1. CASE stored' = stored
  BY <1>1 DEF LyricsInv, StoreInv, Belong, NothingTaken
<1>2. ASSUME NEW t \in Ballads, NEW e \in StoreEntries, stored' = [stored EXCEPT ![t] = e],
             e.kind = "entry" => e.of \in Ballads /\ (e.of = t \/ <<e.of, t>> \in strayed')
      PROVE  StoreInv'
  BY <1>2 DEF LyricsInv, StoreInv, Belong, NothingTaken
<1> QED BY <1>1, <1>2

-----------------------------------------------------------------------------
(* Panels that are shown.                                                  *)
LEMMA ClearedIs ==
    ASSUME NEW p \in Panels
    PROVE  /\ Cleared(p) \in Panels /\ Cleared(p).current = p.current /\ Cleared(p).track = p.track
           /\ Cleared(p).token = p.token /\ Cleared(p).wait = NoSend /\ Cleared(p).kind = "empty"
           /\ Cleared(p).visible = p.visible
BY DEF Cleared, Panels, LyricKinds, TrackOrSilence

LEMMA EntryIs ==
    ASSUME NEW p \in Panels, NEW t \in Ballads, NEW from \in {"store", "server"}, NEW timing \in Nat
    PROVE  \E e \in Panels :
              /\ e = ShowEntry(p, t, from, timing) /\ e.current = p.current /\ e.track = p.track
              /\ e.token = p.token /\ e.wait = NoSend /\ e.of = t /\ e.kind = "entry" /\ e.from = from
<1> PICK e : e = ShowEntry(p, t, from, timing)
  OBVIOUS
<1>1. PICK c \in Panels : c = Cleared(p)
  BY ClearedIs
<1>2. c.current = p.current /\ c.track = p.track /\ c.token = p.token /\ c.wait = NoSend
  BY <1>1, ClearedIs
<1>3. e = [c EXCEPT !.kind = "entry", !.of = t, !.from = from, !.timing = timing]
  BY <1>1 DEF ShowEntry
<1>4. e \in Panels
  BY <1>3 DEF Panels, TrackOrSilence, LyricKinds
<1>5. /\ e.current = c.current /\ e.track = c.track /\ e.token = c.token
      /\ e.wait = c.wait /\ e.kind = "entry" /\ e.of = t /\ e.from = from
  BY <1>3 DEF Panels
<1> QED BY <1>2, <1>4, <1>5

LEMMA StoreEntryIs ==
    ASSUME NEW p \in Panels, NEW t \in Ballads, NEW timing \in Nat
    PROVE  \E e \in Panels :
              /\ e = ShowEntry(p, t, "store", timing) /\ e.current = p.current /\ e.track = p.track
              /\ e.token = p.token /\ e.wait = NoSend /\ e.of = t /\ e.kind = "entry" /\ e.from = "store"
<1> DEFINE from == "store"
<1>1. from \in {"store", "server"}
  OBVIOUS
<1> HIDE DEF from
<1>2. \E e \in Panels :
        /\ e = ShowEntry(p, t, from, timing) /\ e.current = p.current /\ e.track = p.track
        /\ e.token = p.token /\ e.wait = NoSend /\ e.of = t /\ e.kind = "entry" /\ e.from = from
  BY <1>1, EntryIs
<1> QED BY <1>2 DEF from

LEMMA KindIs ==
    ASSUME NEW p \in Panels, NEW t \in Ballads, NEW kind \in {"offer", "removed"}
    PROVE  \E k \in Panels :
              /\ k = ShowAs(p, t, kind) /\ k.current = p.current /\ k.track = p.track
              /\ k.token = p.token /\ k.wait = NoSend /\ k.kind = kind /\ k.of = t
<1> PICK k : k = ShowAs(p, t, kind)
  OBVIOUS
<1>1. PICK c \in Panels : c = Cleared(p)
  BY ClearedIs
<1>2. c.current = p.current /\ c.track = p.track /\ c.token = p.token /\ c.wait = NoSend
  BY <1>1, ClearedIs
<1>3. k = [c EXCEPT !.kind = kind, !.of = t]
  BY <1>1 DEF ShowAs
<1>4. k \in Panels
  BY <1>3 DEF Panels, TrackOrSilence, LyricKinds
<1>5. /\ k.current = c.current /\ k.track = c.track /\ k.token = c.token
      /\ k.wait = c.wait /\ k.kind = kind /\ k.of = t
  BY <1>3 DEF Panels
<1> QED BY <1>2, <1>4, <1>5

(* A line of status leaves what is shown, or claims nothing but the track  *)
(* it is about.                                                            *)
LEMMA StatusIs ==
    ASSUME NEW p \in Panels, NEW t \in Ballads, NEW kind \in {"unknown", "notfound"}, NEW k, k = Says(p, t, kind)
    PROVE  /\ k \in Panels /\ k.current = p.current /\ k.track = p.track /\ k.token = p.token
           /\ k.wait = p.wait /\ k.from = p.from /\ k.visible = p.visible
           /\ (k.kind = p.kind /\ k.of = p.of) \/ (k.kind = kind /\ k.of = t)
<1>1. CASE k = p
  BY <1>1
<1>2. CASE k = [p EXCEPT !.kind = kind, !.of = t]
  <2>1. k \in Panels
    BY <1>2 DEF Panels, TrackOrSilence, LyricKinds
  <2> QED BY <1>2, <2>1 DEF Panels
<1> QED BY <1>1, <1>2 DEF Says

(* A gesture is taken off the scene.                                       *)
LEMMA SpentIs == ASSUME scene \in LyricsScript, LyricsSpent PROVE scene' \in LyricsScript
BY DEF LyricsSpent, LyricsScript

LEMMA NothingMoves ==
    ASSUME LyricsInv, UNCHANGED served, strayed \subseteq strayed' PROVE NothingTaken
BY DEF LyricsInv, SendsInv, NothingTaken

(* A read of the latest load is of the tab's track.                        *)
LEMMA LatestIs ==
    ASSUME LyricsInv, NEW r \in reads
    PROVE  /\ r \in LyricReads /\ r.track \in Ballads /\ r.to \in Ballads /\ r.token <= panel.token
           /\ r.stage \in ReadStages /\ StillAsked(r) => r \in LatestReads /\ r.track = panel.track
BY DEF LyricsInv, ReadsInv, LatestReads, StillAsked, LyricReads

(* A step that leaves the panel, and takes nothing from it.                *)
LEMMA QuietStep ==
    ASSUME LyricsInv, NothingTaken, UNCHANGED <<panel, sends, given, lost>>, ReadsInv', LookupsInv', StoreInv',
           scene' \in LyricsScript
    PROVE  LyricsInv'
<1>1. PICK p \in Panels : p = panel
  BY DEF LyricsInv, PanelInv
<1>2. panel' = p /\ WaitGoesTo(p) /\ ShowsTheirs(p) /\ p.wait = panel.wait /\ p.from = panel.from
      /\ p.track = panel.track
  BY <1>1 DEF WaitGoesTo, ShowsTheirs
<1>3. SendsInv' /\ PanelInv'
  BY <1>2, SendsStay, PanelStays
<1> QED BY <1>3 DEF LyricsInv

(* Another panel, of the same load.                                        *)
LEMMA PanelStep ==
    ASSUME LyricsInv, NothingTaken, NEW p \in Panels, panel' = p, WaitGoesTo(p), ShowsTheirs(p),
           p.track = panel.track, UNCHANGED <<given, lost>>, ReadsInv', LookupsInv', StoreInv',
           scene' \in LyricsScript
    PROVE  LyricsInv'
<1>1. p.wait = NoSend \/ (p.wait = panel.wait /\ p.from = panel.from /\ p.track = panel.track)
  BY DEF WaitGoesTo
<1>2. SendsInv' /\ PanelInv'
  BY <1>1, SendsStay, PanelStays
<1> QED BY <1>2 DEF LyricsInv

(* A read is done, and nothing is shown.                                   *)
LEMMA ReadDropped ==
    ASSUME LyricsInv, NEW r \in reads, reads' = reads \ {r}, StoreInv',
           UNCHANGED <<panel, sends, served, given, lost, strayed, lookups, scene>>
    PROVE  LyricsInv'
<1>1. NothingTaken
  BY NothingMoves
<1>2. ReadsInv' /\ LookupsInv'
  BY <1>1, ReadsStay, LookupsStay
<1> QED BY <1>1, <1>2, QuietStep DEF LyricsInv

(* A read is done, and something is shown.                                 *)
LEMMA ReadShows ==
    ASSUME LyricsInv, NEW r \in reads, reads' = reads \ {r}, NEW p \in Panels, panel' = p, WaitGoesTo(p),
           ShowsTheirs(p), p.current = panel.current, p.track = panel.track, p.token = panel.token, StoreInv',
           UNCHANGED <<served, given, lost, strayed, lookups, scene>>
    PROVE  LyricsInv'
<1>1. NothingTaken
  BY NothingMoves
<1>2. ReadsInv' /\ LookupsInv'
  BY <1>1, ReadsStay, LookupsStay
<1> QED BY <1>1, <1>2, PanelStep DEF LyricsInv

-----------------------------------------------------------------------------
(* The steps of a load.                                                    *)

LEMMA DropsReadOK == ASSUME LyricsInv, NEW r \in reads, DropsRead(r) PROVE LyricsInv'
<1>1. NothingTaken
  BY NothingMoves DEF DropsRead
<1>2. StoreInv'
  BY <1>1, StoreStays DEF DropsRead
<1> QED BY <1>2, ReadDropped DEF DropsRead

LEMMA StoreFailsOK == ASSUME LyricsInv, NEW r \in reads, StoreFails(r) PROVE LyricsInv'
<1>1. NothingTaken
  BY NothingMoves DEF StoreFails
<1>2. StoreInv'
  BY <1>1, StoreStays DEF StoreFails
<1> QED BY <1>2, ReadDropped DEF StoreFails

LEMMA StoreAnswersOK == ASSUME LyricsInv, NEW r \in reads, StoreAnswers(r) PROVE LyricsInv'
<1>1. r \in LatestReads /\ r.track = panel.track /\ r.track \in Ballads
  BY LatestIs DEF StoreAnswers, ReadStages
<1>2. panel \in Panels /\ stored \in [Ballads -> StoreEntries]
  BY DEF LyricsInv, PanelInv, StoreInv
<1>3. NothingTaken /\ UNCHANGED <<served, given, lost, strayed, lookups, scene>>
  BY NothingMoves DEF StoreAnswers
<1>4. CASE Shows(r, ShowAs(panel, r.track, "removed")) /\ UNCHANGED stored
  <2>1. PICK p \in Panels :
        /\ p = ShowAs(panel, r.track, "removed") /\ p.current = panel.current /\ p.track = panel.track
        /\ p.token = panel.token /\ p.wait = NoSend /\ p.kind = "removed"
    BY <1>1, <1>2, KindIs
  <2>2. panel' = p /\ WaitGoesTo(p) /\ ShowsTheirs(p) /\ reads' = reads \ {r}
    BY <1>4, <2>1 DEF Shows, WaitGoesTo, ShowsTheirs, Theirs
  <2>3. StoreInv'
    BY <1>3, <1>4, StoreStays
  <2> QED BY <1>3, <2>1, <2>2, <2>3, ReadShows
<1>5. CASE /\ stored[r.track].kind = "entry" /\ UNCHANGED stored
           /\ Shows(r, ShowEntry(panel, stored[r.track].of, "store", stored[r.track].timing))
  <2>1. PICK o \in Ballads, n \in Nat :
          stored[r.track].of = o /\ stored[r.track].timing = n /\ (o = r.track \/ <<o, r.track>> \in strayed)
    BY <1>1, <1>2, <1>5 DEF LyricsInv, StoreInv, StoreEntries, Belong
  <2>2. PICK p \in Panels :
        /\ p = ShowEntry(panel, o, "store", n) /\ p.current = panel.current /\ p.track = panel.track
        /\ p.token = panel.token /\ p.wait = NoSend /\ p.of = o /\ p.kind = "entry" /\ p.from = "store"
    BY <1>2, <2>1, StoreEntryIs
  <2>3. panel' = p /\ WaitGoesTo(p) /\ reads' = reads \ {r}
    BY <1>5, <2>2, <2>1 DEF Shows, WaitGoesTo
  <2>4. ShowsTheirs(p)
    BY <1>1, <1>3, <2>1, <2>2 DEF ShowsTheirs
  <2>5. StoreInv'
    BY <1>3, <1>5, StoreStays
  <2> QED BY <1>3, <2>2, <2>3, <2>4, <2>5, ReadShows
<1>6. CASE /\ stored' = [stored EXCEPT ![r.track] = Nothing]
           /\ reads' = Moved(r, "server") /\ UNCHANGED <<panel, sends>>
  <2>1. Nothing \in StoreEntries /\ Nothing.kind = "none"
    BY DEF StoreEntries, Nothing, InStore, TrackOrSilence
  <2>2. StoreInv'
    BY <1>1, <1>3, <1>6, <2>1, StoreStays
  <2>3. ReadsInv' /\ LookupsInv'
    BY <1>1, <1>3, <1>6, ReadMoves, LookupsStay
  <2> QED BY <1>3, <1>6, <2>2, <2>3, QuietStep DEF LyricsInv
<1> QED BY <1>4, <1>5, <1>6 DEF StoreAnswers

LEMMA ServerAnswersOK == ASSUME LyricsInv, NEW r \in reads, ServerAnswers(r) PROVE LyricsInv'
<1>1. r \in LatestReads /\ r.track = panel.track /\ r.track \in Ballads
  BY LatestIs DEF ServerAnswers, ReadStages
<1>2. panel \in Panels /\ served \in [Ballads -> ServerEntries]
  BY DEF LyricsInv, PanelInv, SendsInv
<1>3. NothingTaken /\ UNCHANGED <<served, given, lost, strayed, lookups, scene>>
  BY NothingMoves DEF ServerAnswers
<1>4. StoreInv'
  BY <1>3, StoreStays DEF ServerAnswers
<1>5. CASE /\ served[r.track].kind = "entry"
           /\ Shows(r, ShowEntry(panel, r.track, "server", served[r.track].timing))
  <2>1. PICK p : p = ShowEntry(panel, r.track, "server", served[r.track].timing)
    OBVIOUS
  <2>2. served[r.track].timing \in Nat
    BY <1>1, <1>2 DEF ServerEntries
  <2>3. /\ p \in Panels /\ p.current = panel.current /\ p.track = panel.track /\ p.token = panel.token
        /\ p.wait = NoSend /\ p.of = r.track /\ p.kind = "entry" /\ p.from = "server"
    BY <1>1, <1>2, <2>1, <2>2, EntryIs
  <2>4. panel' = p /\ WaitGoesTo(p) /\ reads' = reads \ {r}
    BY <1>5, <2>1, <2>3 DEF Shows, WaitGoesTo
  <2>5. ShowsTheirs(p)
    BY <1>1, <1>3, <1>5, <2>3 DEF ShowsTheirs, HasLyrics
  <2> QED BY <1>3, <1>4, <2>3, <2>4, <2>5, ReadShows
<1>6. CASE Shows(r, ShowAs(panel, r.track, "offer"))
  <2>1. PICK p \in Panels :
        /\ p = ShowAs(panel, r.track, "offer") /\ p.current = panel.current /\ p.track = panel.track
        /\ p.token = panel.token /\ p.wait = NoSend /\ p.kind = "offer" /\ p.of = r.track
    BY <1>1, <1>2, KindIs
  <2>2. panel' = p /\ WaitGoesTo(p) /\ reads' = reads \ {r}
    BY <1>6, <2>1 DEF Shows, WaitGoesTo
  <2>3. ShowsTheirs(p)
    BY <1>1, <2>1 DEF ShowsTheirs
  <2> QED BY <1>3, <1>4, <2>1, <2>2, <2>3, ReadShows
<1>7. CASE reads' = Moved(r, "tags") /\ UNCHANGED <<panel, sends>>
  <2>1. ReadsInv' /\ LookupsInv'
    BY <1>1, <1>3, <1>7, ReadMoves, LookupsStay
  <2> QED BY <1>3, <1>4, <1>7, <2>1, QuietStep DEF LyricsInv
<1> QED BY <1>5, <1>6, <1>7 DEF ServerAnswers

(* keep() and removeLyrics(): what waits for the store is forgotten.       *)
LEMMA PutsOK ==
    ASSUME LyricsInv, NEW t \in Ballads, NEW rs \in SUBSET reads, NEW stage \in {"keep", "remove"}, Puts(t, rs, stage),
           strayed \subseteq strayed',
           stage = "keep" /\ panel.current \in Ballads => t = panel.current \/ <<t, panel.current>> \in strayed',
           UNCHANGED <<served, given, lost, lookups, stored>>, scene' \in LyricsScript
    PROVE  LyricsInv'
<1>1. panel \in Panels
  BY DEF LyricsInv, PanelInv
<1>2. PICK p : p = [panel EXCEPT !.wait = NoSend]
  OBVIOUS
<1>3. /\ p \in Panels /\ p.wait = NoSend /\ p.current = panel.current /\ p.track = panel.track
      /\ p.token = panel.token /\ p.kind = panel.kind /\ p.of = panel.of /\ p.from = panel.from
      /\ p.visible = panel.visible
  BY <1>1, <1>2 DEF Panels
<1>4. panel' = p /\ sends' = DropStoreSave(sends, panel)
  BY <1>2 DEF Puts
<1>5. WaitGoesTo(p) /\ ShowsTheirs(p) /\ NothingTaken
  BY <1>3, <1>4, NothingMoves DEF WaitGoesTo, ShowsTheirs, DropStoreSave
<1>6. PICK r : r = Read(t, panel.token, stage, panel.current)
  OBVIOUS
<1>7. /\ reads' \subseteq reads \cup {r} /\ (panel.current = Silence => reads' \subseteq reads)
      /\ panel.current \in Ballads \cup {Silence}
  BY <1>1, <1>6 DEF Puts, Panels, TrackOrSilence
<1>8. panel.current \in Ballads => NewRead(r)
  BY <1>1, <1>6 DEF Read, NewRead, LyricReads, ReadStages, Panels
<1>9. \A q \in reads' : q \in reads \/ NewRead(q)
  BY <1>7, <1>8
<1>10. ReadsInv' /\ LookupsInv' /\ StoreInv'
  BY <1>3, <1>4, <1>5, <1>9, ReadsStay, LookupsStay, StoreStays
<1> QED BY <1>3, <1>4, <1>5, <1>10, PanelStep

LEMMA TagsAnswerOK == ASSUME LyricsInv, NEW r \in reads, TagsAnswer(r) PROVE LyricsInv'
<1>1. r \in LatestReads /\ r.track = panel.track /\ r.track \in Ballads
  BY LatestIs DEF TagsAnswer, ReadStages
<1>2. panel \in Panels /\ scene' \in LyricsScript /\ UNCHANGED <<served, stored, given, lost, scene>>
  BY DEF LyricsInv, PanelInv, TagsAnswer
<1>3. CASE /\ Puts(r.track, reads \ {r}, "keep") /\ UNCHANGED lookups
           /\ strayed' = strayed \cup ({<<r.track, panel.current>>} \ {<<t, t>> : t \in Ballads})
  <2>1. r.track = panel.current \/ <<r.track, panel.current>> \in strayed'
    BY <1>3
  <2>2. strayed \subseteq strayed' /\ reads \ {r} \in SUBSET reads
    BY <1>3
  <2> QED BY <1>1, <1>2, <1>3, <2>1, <2>2, PutsOK
<1>4. ASSUME NEW kind \in {"unknown", "notfound"}, ShowsStatus(r, kind), UNCHANGED <<lookups, strayed>>
      PROVE  LyricsInv'
  <2>1. PICK p : p = Says(panel, r.track, kind)
    OBVIOUS
  <2>2. /\ p \in Panels /\ p.current = panel.current /\ p.track = panel.track /\ p.token = panel.token
        /\ p.wait = panel.wait /\ p.from = panel.from /\ p.visible = panel.visible
        /\ (p.kind = panel.kind /\ p.of = panel.of) \/ (p.kind = kind /\ p.of = r.track)
    BY <1>1, <1>2, <2>1, StatusIs
  <2>3. panel' = p /\ WaitGoesTo(p) /\ reads' = reads \ {r}
    BY <1>4, <2>1, <2>2 DEF ShowsStatus, WaitGoesTo
  <2>4. ShowsTheirs(p)
    BY <1>1, <1>4, <2>2 DEF ShowsTheirs, Theirs
  <2>5. StoreInv'
    BY <1>2, <1>4, NothingMoves, StoreStays
  <2> QED BY <1>2, <1>4, <2>2, <2>3, <2>4, <2>5, ReadShows
<1>5. CASE Shows(r, ShowAs(panel, r.track, "offer")) /\ UNCHANGED <<lookups, strayed>>
  <2>1. PICK p \in Panels :
        /\ p = ShowAs(panel, r.track, "offer") /\ p.current = panel.current /\ p.track = panel.track
        /\ p.token = panel.token /\ p.wait = NoSend /\ p.kind = "offer" /\ p.of = r.track
    BY <1>1, <1>2, KindIs
  <2>2. panel' = p /\ WaitGoesTo(p) /\ reads' = reads \ {r}
    BY <1>5, <2>1 DEF Shows, WaitGoesTo
  <2>3. ShowsTheirs(p)
    BY <1>1, <2>1 DEF ShowsTheirs
  <2>4. StoreInv'
    BY <1>2, <1>5, NothingMoves, StoreStays
  <2> QED BY <1>2, <1>5, <2>1, <2>2, <2>3, <2>4, ReadShows
<1>6. CASE lookups' = Aborted(lookups) \cup {Lookup(r.track)} /\ reads' = reads \ {r}
           /\ UNCHANGED <<panel, sends, strayed>>
  <2>1. NothingTaken
    BY <1>2, <1>6, NothingMoves
  <2>2. Lookup(r.track) \in LyricLookups /\ Lookup(r.track).track = r.track /\ Lookup(r.track).says.kind = "none"
    BY <1>1 DEF Lookup, Kept, LyricLookups, LookupSays
  <2>3. ReadsInv'
    BY <1>6, <2>1, ReadsStay
  <2>4. LookupsInv'
    BY <1>1, <1>6, <2>1, <2>2, LookupsStay
  <2>5. StoreInv'
    BY <1>2, <2>1, StoreStays
  <2> QED BY <1>2, <1>6, <2>1, <2>3, <2>4, <2>5, QuietStep
<1> QED BY <1>3, <1>4, <1>5, <1>6 DEF TagsAnswer

-----------------------------------------------------------------------------
(* A lookup, and what the server kept of it.                               *)

LEMMA ServerLooksUpOK ==
    ASSUME LyricsInv, NEW l \in lookups, NEW found \in {"none", "entry", "versions", "failed"}, ServerLooksUp(l, found)
    PROVE  LyricsInv'
<1>1. l \in LyricLookups /\ l.track \in Ballads /\ (l.wanted => l.track = panel.track)
  BY DEF LyricsInv, LookupsInv, LyricLookups
<1>2. PICK t \in Ballads : t = l.track
  BY <1>1
<1>3. served \in [Ballads -> ServerEntries] /\ served[t] \in ServerEntries
  BY DEF LyricsInv, SendsInv
<1>4. PICK has : has = IF served[t].kind = "none" /\ found # "failed" THEN Kept(found, 0) ELSE served[t]
  OBVIOUS
<1>5. has \in ServerEntries /\ (served[t].kind = "entry" => has = served[t])
  BY <1>3, <1>4 DEF Kept, ServerEntries
<1>6. PICK says : says = IF found = "failed" THEN Kept("failed", 0) ELSE has
  OBVIOUS
<1>7. says \in LookupSays /\ (says.kind = "entry" => has.kind = "entry")
  BY <1>5, <1>6 DEF Kept, LookupSays, ServerEntries
<1>8. PICK m : m = [l EXCEPT !.stage = "answered", !.says = says]
  OBVIOUS
<1>9. m \in LyricLookups /\ m.says = says /\ m.track = t /\ m.wanted = l.wanted
  BY <1>1, <1>2, <1>7, <1>8 DEF LyricLookups
<1>10. /\ served' = [served EXCEPT ![t] = has] /\ lookups' = (lookups \ {l}) \cup {m}
       /\ UNCHANGED <<panel, reads, stored, sends, given, lost, strayed, scene>>
  BY <1>2, <1>4, <1>6, <1>8 DEF ServerLooksUp
<1>11. NothingTaken
  BY <1>3, <1>5, <1>10 DEF NothingTaken
<1>12. ReadsInv' /\ StoreInv'
  BY <1>10, <1>11, ReadsStay, StoreStays
<1>13. LookupsInv'
  <2>1. \A u : HasLyrics(served, u) => HasLyrics(served', u)
    BY <1>11 DEF HasLyrics, NothingTaken
  <2>2. m.says.kind = "entry" => HasLyrics(served', m.track)
    BY <1>3, <1>7, <1>9, <1>10 DEF HasLyrics
  <2> QED BY <1>1, <1>2, <1>9, <1>10, <2>1, <2>2 DEF LyricsInv, LookupsInv
<1> QED BY <1>10, <1>11, <1>12, <1>13, QuietStep DEF LyricsInv

LEMMA LookupHeardOK == ASSUME LyricsInv, NEW l \in lookups, LookupHeard(l) PROVE LyricsInv'
<1>1. /\ UNCHANGED <<reads, stored, served, sends, given, lost, strayed, scene>> /\ scene' \in LyricsScript
      /\ panel \in Panels
  BY DEF LookupHeard, LyricsInv, PanelInv
<1>2. NothingTaken
  BY <1>1, NothingMoves
<1>3. CASE UNCHANGED panel /\ lookups' = lookups \ {l}
  <2>1. ReadsInv' /\ StoreInv' /\ LookupsInv'
    BY <1>1, <1>2, <1>3, ReadsStay, StoreStays, LookupsStay
  <2> QED BY <1>1, <1>2, <1>3, <2>1, QuietStep
<1>4. CASE /\ lookups' = lookups \ {l}
           /\ panel' = [panel EXCEPT !.kind = IF @ = "entry" THEN @ ELSE "offline"]
  <2>1. PICK p : p = [panel EXCEPT !.kind = IF @ = "entry" THEN @ ELSE "offline"]
    OBVIOUS
  <2>2. /\ p \in Panels /\ p.wait = panel.wait /\ p.current = panel.current /\ p.track = panel.track
        /\ p.token = panel.token /\ p.of = panel.of /\ p.from = panel.from /\ p.visible = panel.visible
        /\ p.kind = panel.kind \/ p.kind = "offline"
    BY <1>1, <2>1 DEF Panels, LyricKinds
  <2>3. panel' = p /\ WaitGoesTo(p) /\ ShowsTheirs(p)
    BY <1>1, <1>4, <2>1, <2>2 DEF WaitGoesTo, ShowsTheirs, Theirs
  <2>4. ReadsInv' /\ StoreInv' /\ LookupsInv'
    BY <1>1, <1>2, <1>4, <2>2, <2>3, ReadsStay, StoreStays, LookupsStay
  <2> QED BY <1>1, <1>2, <2>2, <2>3, <2>4, PanelStep
<1>5. CASE UNCHANGED panel /\ lookups' = (lookups \ {l}) \cup {[l EXCEPT !.stage = "reading"]}
  <2>1. PICK m : m = [l EXCEPT !.stage = "reading"]
    OBVIOUS
  <2>2. l \in LyricLookups
    BY DEF LyricsInv, LookupsInv
  <2>3. m \in LyricLookups /\ m.says = l.says /\ m.track = l.track /\ m.wanted = l.wanted
    BY <2>1, <2>2 DEF LyricLookups
  <2>4. LookupsInv'
    BY <1>1, <1>5, <2>1, <2>3 DEF LyricsInv, LookupsInv
  <2>5. ReadsInv' /\ StoreInv'
    BY <1>1, <1>2, <1>5, ReadsStay, StoreStays
  <2> QED BY <1>1, <1>2, <1>5, <2>4, <2>5, QuietStep
<1> QED BY <1>3, <1>4, <1>5 DEF LookupHeard

LEMMA LookupReadOK == ASSUME LyricsInv, NEW l \in lookups, LookupRead(l) PROVE LyricsInv'
<1>1. /\ UNCHANGED <<reads, stored, served, given, lost, strayed, scene>> /\ scene' \in LyricsScript
      /\ panel \in Panels /\ lookups' = lookups \ {l}
  BY DEF LookupRead, LyricsInv, PanelInv
<1>2. NothingTaken
  BY <1>1, NothingMoves
<1>3. /\ l \in LyricLookups /\ l.track \in Ballads /\ l.says.timing \in Nat
      /\ (l.wanted => l.track = panel.track) /\ (l.says.kind = "entry" => HasLyrics(served, l.track))
  BY DEF LyricsInv, LookupsInv, LyricLookups, LookupSays
<1>4. ASSUME NEW p \in Panels, panel' = p, WaitGoesTo(p), ShowsTheirs(p), p.track = panel.track, p.token = panel.token
      PROVE  LyricsInv'
  <2>1. ReadsInv' /\ StoreInv' /\ LookupsInv'
    BY <1>1, <1>2, <1>4, ReadsStay, StoreStays, LookupsStay
  <2> QED BY <1>1, <1>2, <1>4, <2>1, PanelStep
<1>5. CASE /\ l.wanted /\ l.says.kind = "entry" /\ sends' = Flushed(sends, panel)
           /\ panel' = ShowEntry(panel, l.track, "server", l.says.timing)
  <2>1. PICK t \in Ballads, n \in Nat : t = l.track /\ n = l.says.timing
    BY <1>3
  <2>2. PICK p \in Panels :
        /\ p = ShowEntry(panel, t, "server", n) /\ p.current = panel.current /\ p.track = panel.track
        /\ p.token = panel.token /\ p.wait = NoSend /\ p.of = t /\ p.kind = "entry" /\ p.from = "server"
    BY <1>1, EntryIs
  <2>3. panel' = p /\ WaitGoesTo(p)
    BY <1>5, <2>1, <2>2 DEF WaitGoesTo
  <2>4. ShowsTheirs(p)
    BY <1>1, <1>3, <1>5, <2>1, <2>2 DEF ShowsTheirs
  <2> QED BY <1>4, <2>2, <2>3, <2>4
<1>6. CASE l.wanted /\ sends' = Flushed(sends, panel) /\ panel' = ShowAs(panel, l.track, "offer")
  <2>1. PICK p \in Panels :
        /\ p = ShowAs(panel, l.track, "offer") /\ p.current = panel.current /\ p.track = panel.track
        /\ p.token = panel.token /\ p.wait = NoSend /\ p.kind = "offer" /\ p.of = l.track
    BY <1>1, <1>3, KindIs
  <2>2. panel' = p /\ WaitGoesTo(p) /\ ShowsTheirs(p)
    BY <1>3, <1>6, <2>1 DEF WaitGoesTo, ShowsTheirs
  <2> QED BY <1>4, <2>1, <2>2
<1>7. ASSUME NEW kind \in {"unknown", "notfound"}, panel' = Says(panel, l.track, kind), UNCHANGED sends,
             l.wanted \/ kind = "notfound"
      PROVE  LyricsInv'
  <2>1. PICK p : p = Says(panel, l.track, kind)
    OBVIOUS
  <2>2. /\ p \in Panels /\ p.current = panel.current /\ p.track = panel.track /\ p.token = panel.token
        /\ p.wait = panel.wait /\ p.from = panel.from /\ p.visible = panel.visible
        /\ (p.kind = panel.kind /\ p.of = panel.of) \/ (p.kind = kind /\ p.of = l.track)
    BY <1>1, <1>3, <2>1, StatusIs
  <2>3. panel' = p /\ WaitGoesTo(p)
    BY <1>7, <2>1, <2>2 DEF WaitGoesTo
  <2>4. ShowsTheirs(p)
    <3>1. CASE p.kind = panel.kind /\ p.of = panel.of
      BY <2>2, <3>1 DEF ShowsTheirs
    <3>2. CASE p.kind = kind /\ kind = "unknown" /\ p.of = l.track
      BY <1>3, <1>7, <2>2, <3>2 DEF ShowsTheirs
    <3>3. CASE p.kind = "notfound"
      BY <3>3 DEF ShowsTheirs, Theirs
    <3> QED BY <1>7, <2>2, <3>1, <3>2, <3>3
  <2> QED BY <1>4, <2>2, <2>3, <2>4
<1>8. CASE panel' = Says(panel, l.track, "unknown") /\ l.wanted /\ UNCHANGED sends
  BY <1>7, <1>8
<1>9. CASE panel' = Says(panel, l.track, "notfound") /\ UNCHANGED sends
  BY <1>7, <1>9
<1> QED BY <1>5, <1>6, <1>8, <1>9 DEF LookupRead

-----------------------------------------------------------------------------
(* Choosing and removing.                                                  *)

LEMMA KeepVersionOK == ASSUME LyricsInv, KeepVersion PROVE LyricsInv'
<1>1. panel.of \in Ballads /\ (panel.of = panel.current \/ <<panel.of, panel.current>> \in strayed)
  BY DEF KeepVersion, LyricsInv, PanelInv, Theirs, LyricsAreTheTracks, Belong
<1>2. /\ Puts(panel.of, reads, "keep") /\ UNCHANGED <<served, given, lost, lookups, stored, strayed>>
      /\ scene' \in LyricsScript
  BY SpentIs DEF KeepVersion, LyricsInv
<1>3. PICK t \in Ballads : t = panel.of
  BY <1>1
<1>4. Puts(t, reads, "keep") /\ (t = panel.current \/ <<t, panel.current>> \in strayed') /\ strayed \subseteq strayed'
  BY <1>1, <1>2, <1>3
<1> QED BY <1>2, <1>4, PutsOK

LEMMA RemoveLyricsOK == ASSUME LyricsInv, RemoveLyrics PROVE LyricsInv'
<1>1. PICK t \in Ballads : t = panel.of
  BY DEF RemoveLyrics, LyricsInv, PanelInv, Theirs
<1>2. /\ Puts(t, reads, "remove") /\ UNCHANGED <<served, given, lost, lookups, stored, strayed>>
      /\ scene' \in LyricsScript /\ strayed \subseteq strayed'
  BY <1>1, SpentIs DEF RemoveLyrics, LyricsInv
<1> QED BY <1>2, PutsOK

LEMMA KeepLandsOK == ASSUME LyricsInv, NEW r \in reads, KeepLands(r) PROVE LyricsInv'
<1>1. panel \in Panels /\ r.track \in Ballads /\ r.to \in Ballads /\ (r.track = r.to \/ <<r.track, r.to>> \in strayed)
  BY LatestIs DEF KeepLands, LyricsInv, PanelInv, ReadsInv, Belong
<1>2. NothingTaken /\ UNCHANGED <<served, given, lost, strayed, lookups, scene>>
  BY NothingMoves DEF KeepLands
<1>3. PICK e : e = InStore("entry", 0, r.track)
  OBVIOUS
<1>4. e \in StoreEntries /\ e.kind = "entry" /\ e.of = r.track
  BY <1>1, <1>3 DEF InStore, StoreEntries, TrackOrSilence
<1>5. stored' = [stored EXCEPT ![r.to] = e]
  BY <1>3 DEF KeepLands
<1>6. StoreInv'
  BY <1>1, <1>2, <1>4, <1>5, StoreStays
<1>7. CASE panel.current = r.to /\ Shows(r, ShowEntry(panel, r.track, "store", 0))
  <2>1. PICK t \in Ballads : t = r.track
    BY <1>1
  <2>2. PICK p \in Panels :
        /\ p = ShowEntry(panel, t, "store", 0) /\ p.current = panel.current /\ p.track = panel.track
        /\ p.token = panel.token /\ p.wait = NoSend /\ p.of = t /\ p.kind = "entry" /\ p.from = "store"
    BY <1>1, StoreEntryIs
  <2>3. panel' = p /\ WaitGoesTo(p) /\ reads' = reads \ {r}
    BY <1>7, <2>1, <2>2 DEF Shows, WaitGoesTo
  <2>4. ShowsTheirs(p)
    BY <1>1, <1>2, <1>7, <2>1, <2>2 DEF ShowsTheirs
  <2> QED BY <1>2, <1>6, <2>2, <2>3, <2>4, ReadShows
<1>8. CASE reads' = reads \ {r} /\ UNCHANGED <<panel, sends>>
  BY <1>2, <1>6, <1>8, ReadDropped
<1> QED BY <1>7, <1>8 DEF KeepLands

LEMMA RemoveLandsOK == ASSUME LyricsInv, NEW r \in reads, RemoveLands(r) PROVE LyricsInv'
<1>1. panel \in Panels /\ r.track \in Ballads /\ r.to \in Ballads
  BY LatestIs DEF LyricsInv, PanelInv
<1>2. NothingTaken /\ UNCHANGED <<served, given, lost, strayed, lookups, scene>>
  BY NothingMoves DEF RemoveLands
<1>3. PICK e : e = InStore("dismissed", 0, Silence)
  OBVIOUS
<1>4. e \in StoreEntries /\ e.kind = "dismissed"
  BY <1>3 DEF InStore, StoreEntries, TrackOrSilence
<1>5. stored' = [stored EXCEPT ![r.to] = e]
  BY <1>3 DEF RemoveLands
<1>6. StoreInv'
  BY <1>1, <1>2, <1>4, <1>5, StoreStays
<1>7. PICK t \in Ballads : t = r.track
  BY <1>1
<1>8. PICK p \in Panels :
      /\ p = ShowAs(panel, t, "removed") /\ p.current = panel.current /\ p.track = panel.track
      /\ p.token = panel.token /\ p.wait = NoSend /\ p.kind = "removed"
  BY <1>1, KindIs
<1>9. panel' = p /\ WaitGoesTo(p) /\ ShowsTheirs(p) /\ reads' = reads \ {r}
  BY <1>7, <1>8 DEF RemoveLands, Shows, WaitGoesTo, ShowsTheirs, Theirs
<1> QED BY <1>2, <1>6, <1>8, <1>9, ReadShows

-----------------------------------------------------------------------------
(* The tab and the track.                                                  *)

(* A new load, of the track that is open now.                              *)
LEMMA ReloadOK ==
    ASSUME LyricsInv, NEW p \in Panels, p.current = panel.current, p.token = panel.token, p.wait = panel.wait,
           Reload(p), UNCHANGED <<served, given, lost, strayed>>, StoreInv', scene' \in LyricsScript
    PROVE  LyricsInv'
<1>1. PICK c \in Panels : c = Cleared(p)
  BY ClearedIs
<1>2. PICK n \in Nat : n = panel.token + 1
  BY DEF LyricsInv, PanelInv, Panels
<1>3. PICK q : q = [c EXCEPT !.track = c.current, !.token = n]
  OBVIOUS
<1>4. q \in Panels /\ q.track = panel.current /\ q.token = n /\ q.wait = NoSend /\ q.kind = "empty"
  BY <1>1, <1>3, ClearedIs DEF Panels
<1>5. panel' = q
  BY <1>1, <1>2, <1>3, ClearedIs DEF Reload
<1>6. sends' = Flushed(sends, panel)
  BY DEF Reload, Flushed, Waiting
<1>7. NothingTaken /\ WaitGoesTo(q) /\ ShowsTheirs(q)
  BY <1>4, <1>6, NothingMoves DEF WaitGoesTo, ShowsTheirs, Theirs
<1>8. SendsInv' /\ PanelInv'
  BY <1>4, <1>5, <1>7, SendsStay, PanelStays
<1>9. PICK r : r = Read(panel.current, n, "store", panel.current)
  OBVIOUS
<1>10. reads' \subseteq reads \cup {r} /\ (panel.current = Silence => reads' = reads) /\ lookups' = Aborted(lookups)
  BY <1>2, <1>9 DEF Reload
<1>11. r.track = panel.current /\ r.token = n /\ r.stage = "store"
       /\ (panel.current \in Ballads => r \in LyricReads)
  BY <1>9 DEF Read, LyricReads, ReadStages
<1>12. reads' \subseteq LyricReads
  BY <1>10, <1>11 DEF LyricsInv, ReadsInv, PanelInv, Panels, TrackOrSilence
<1>13. \A s \in reads : s.token < n
  <2>1. panel.token \in Nat /\ \A s \in reads : s.token \in Nat /\ s.token <= panel.token
    BY DEF LyricsInv, ReadsInv, LyricReads, PanelInv, Panels
  <2> QED BY <1>2, <2>1
<1>14. LatestReads' \subseteq {r}
  BY <1>4, <1>5, <1>10, <1>13 DEF LatestReads
<1>15. \A s \in reads' : s.token <= n /\ (s.stage = "keep" => Belong(s.track, s.to)')
  <2>1. \A s \in reads : s.token \in Nat /\ (s.stage = "keep" => Belong(s.track, s.to))
    BY DEF LyricsInv, ReadsInv, LyricReads
  <2>2. \A s \in reads : s.stage = "keep" => Belong(s.track, s.to)'
    BY <2>1 DEF Belong
  <2>3. \A s \in reads' : s \in reads \/ (s.token = n /\ s.stage = "store")
    BY <1>10, <1>11
  <2> QED BY <1>13, <2>1, <2>2, <2>3
<1>16. ReadsInv'
  BY <1>4, <1>5, <1>11, <1>12, <1>14, <1>15 DEF ReadsInv
<1>17. LookupsInv'
  BY <1>7, <1>10, LookupsStay
<1> QED BY <1>8, <1>16, <1>17 DEF LyricsInv

LEMMA LyricsTickOK == ASSUME LyricsInv, LyricsTick PROVE LyricsInv'
<1>1. panel \in Panels /\ scene' \in LyricsScript /\ NothingTaken
  BY NothingMoves DEF LyricsInv, PanelInv, LyricsTick
<1>2. StoreInv'
  BY <1>1, StoreStays DEF LyricsTick
<1> QED BY <1>1, <1>2, ReloadOK DEF LyricsTick

LEMMA ShowTabOK == ASSUME LyricsInv, ShowTab PROVE LyricsInv'
<1>1. panel \in Panels /\ scene' \in LyricsScript /\ NothingTaken
  BY SpentIs, NothingMoves DEF LyricsInv, PanelInv, ShowTab
<1>2. StoreInv'
  BY <1>1, StoreStays DEF ShowTab
<1>3. PICK p : p = [panel EXCEPT !.visible = TRUE]
  OBVIOUS
<1>4. p \in Panels /\ p.current = panel.current /\ p.token = panel.token /\ p.wait = panel.wait
  BY <1>1, <1>3 DEF Panels
<1> QED BY <1>1, <1>2, <1>3, <1>4, ReloadOK DEF ShowTab

LEMMA LookAgainOK == ASSUME LyricsInv, LookAgain PROVE LyricsInv'
<1>1. panel \in Panels /\ panel.current \in Ballads /\ scene' \in LyricsScript /\ NothingTaken
  BY SpentIs, NothingMoves DEF LyricsInv, PanelInv, LookAgain, Panels, TrackOrSilence
<1>2. Nothing \in StoreEntries /\ Nothing.kind = "none"
  BY DEF StoreEntries, Nothing, InStore, TrackOrSilence
<1>3. StoreInv'
  BY <1>1, <1>2, StoreStays DEF LookAgain
<1> QED BY <1>1, <1>3, ReloadOK DEF LookAgain

(* The panel as it is but for one field or two.                            *)
LEMMA PanelChanges ==
    ASSUME LyricsInv, NEW p \in Panels, panel' = p, WaitGoesTo(p), ShowsTheirs(p), p.track = panel.track,
           p.token = panel.token, UNCHANGED <<reads, lookups, stored, served, given, lost, strayed>>,
           scene' \in LyricsScript
    PROVE  LyricsInv'
<1>1. NothingTaken
  BY NothingMoves
<1>2. ReadsInv' /\ LookupsInv' /\ StoreInv'
  BY <1>1, ReadsStay, LookupsStay, StoreStays
<1> QED BY <1>1, <1>2, PanelStep

(* Another track is opened: an open tab shows what it did for one frame.   *)
LEMMA OpenTrackOK == ASSUME LyricsInv, NEW t \in Ballads, OpenTrack(t) PROVE LyricsInv'
<1>1. panel \in Panels /\ scene' \in LyricsScript
  BY SpentIs DEF LyricsInv, PanelInv, OpenTrack
<1>2. PICK p : p = [panel EXCEPT !.current = t]
  OBVIOUS
<1>3. /\ p \in Panels /\ p.wait = panel.wait /\ p.track = panel.track /\ p.token = panel.token
      /\ p.kind = panel.kind /\ p.of = panel.of /\ p.from = panel.from /\ p.visible = panel.visible
  BY <1>1, <1>2 DEF Panels, TrackOrSilence
<1>4. panel' = p /\ UNCHANGED <<reads, lookups, stored, served, sends, given, lost, strayed>>
  BY <1>2 DEF OpenTrack
<1>5. WaitGoesTo(p) /\ NothingTaken
  BY <1>3, <1>4, NothingMoves DEF WaitGoesTo
<1>6. SendsInv'
  BY <1>4, <1>5, SendsStay
<1>7. PanelInv'
  BY <1>3, <1>4 DEF OpenTrack, LyricsInv, PanelInv, LyricsAreTheTracks, Belong, Theirs
<1>8. ReadsInv' /\ LookupsInv' /\ StoreInv'
  BY <1>3, <1>4, <1>5, ReadsStay, LookupsStay, StoreStays
<1> QED BY <1>1, <1>6, <1>7, <1>8 DEF LyricsInv

LEMMA HideTabOK == ASSUME LyricsInv, HideTab PROVE LyricsInv'
<1>1. panel \in Panels /\ scene' \in LyricsScript
  BY SpentIs DEF LyricsInv, PanelInv, HideTab
<1>2. PICK p : p = [panel EXCEPT !.visible = FALSE, !.sync = FALSE, !.wait = NoSend]
  OBVIOUS
<1>3. /\ p \in Panels /\ p.wait = NoSend /\ p.current = panel.current /\ p.track = panel.track
      /\ p.token = panel.token /\ p.kind = panel.kind /\ p.of = panel.of /\ p.from = panel.from /\ p.visible = FALSE
  BY <1>1, <1>2 DEF Panels
<1>4. panel' = p /\ WaitGoesTo(p) /\ ShowsTheirs(p)
  BY <1>2, <1>3 DEF HideTab, WaitGoesTo, ShowsTheirs
<1> QED BY <1>1, <1>3, <1>4, PanelChanges DEF HideTab

LEMMA CloseSyncOK == ASSUME LyricsInv, CloseSync PROVE LyricsInv'
<1>1. panel \in Panels /\ scene' \in LyricsScript
  BY SpentIs DEF LyricsInv, PanelInv, CloseSync
<1>2. PICK p : p = [panel EXCEPT !.sync = FALSE, !.wait = NoSend]
  OBVIOUS
<1>3. /\ p \in Panels /\ p.wait = NoSend /\ p.current = panel.current /\ p.track = panel.track
      /\ p.token = panel.token /\ p.kind = panel.kind /\ p.of = panel.of /\ p.from = panel.from
      /\ p.visible = panel.visible
  BY <1>1, <1>2 DEF Panels
<1>4. panel' = p /\ WaitGoesTo(p) /\ ShowsTheirs(p)
  BY <1>2, <1>3 DEF CloseSync, WaitGoesTo, ShowsTheirs
<1> QED BY <1>1, <1>3, <1>4, PanelChanges DEF CloseSync

LEMMA SaveDelayOverOK == ASSUME LyricsInv, SaveDelayOver PROVE LyricsInv'
<1>1. panel \in Panels /\ scene' \in LyricsScript
  BY DEF LyricsInv, PanelInv, SaveDelayOver
<1>2. PICK p : p = [panel EXCEPT !.wait = NoSend]
  OBVIOUS
<1>3. /\ p \in Panels /\ p.wait = NoSend /\ p.current = panel.current /\ p.track = panel.track
      /\ p.token = panel.token /\ p.kind = panel.kind /\ p.of = panel.of /\ p.from = panel.from
      /\ p.visible = panel.visible
  BY <1>1, <1>2 DEF Panels
<1>4. panel' = p /\ WaitGoesTo(p) /\ ShowsTheirs(p)
  BY <1>2, <1>3 DEF SaveDelayOver, WaitGoesTo, ShowsTheirs
<1> QED BY <1>1, <1>3, <1>4, PanelChanges DEF SaveDelayOver

-----------------------------------------------------------------------------
(* Sync lines.                                                             *)

(* An edit of the lines: only those of the server are owed a timing.       *)
LEMMA EditTimingOK == ASSUME LyricsInv, EditTiming PROVE LyricsInv'
<1>1. PICK n \in Nat : n = scene.edits + 1 /\ n # 0
  BY DEF LyricsInv, LyricsScript
<1>2. scene' \in LyricsScript
  <2>1. scene \in LyricsScript
    BY DEF LyricsInv
  <2>2. PICK g \in Int : g = scene.gestures - 1
    BY <2>1 DEF LyricsScript
  <2>3. scene' = [scene EXCEPT !.gestures = g, !.edits = n]
    BY <1>1, <2>2 DEF EditTiming
  <2> QED BY <2>1, <2>3 DEF LyricsScript
<1>3. panel \in Panels /\ panel.track \in Ballads /\ panel.of \in Ballads /\ panel.kind = "entry"
  BY DEF LyricsInv, EditTiming, PanelInv, Theirs, Panels, TrackOrSilence
<1>4. panel.of = panel.track \/ <<panel.of, panel.track>> \in strayed
  BY <1>3 DEF LyricsInv, EditTiming, PanelInv, LyricsAreTheTracks, Belong
<1>5. panel.from = "server" => HasLyrics(served, panel.track)
  BY <1>3 DEF LyricsInv, PanelInv
<1>6. PICK w : w = [track |-> panel.track, of |-> panel.of, from |-> panel.from, timing |-> n]
  OBVIOUS
<1>7. w \in Send /\ w.track = panel.track /\ w.of = panel.of /\ w.from = panel.from /\ w.timing = n /\ w # NoSend
  BY <1>3, <1>6, LyricsAssumption DEF Send, Panels, NoSend
<1>8. SendFits(w, strayed, served)
  BY <1>4, <1>5, <1>7 DEF SendFits
<1>9. PICK p : p = [panel EXCEPT !.sync = TRUE, !.timing = n, !.wait = w]
  OBVIOUS
<1>10. p \in Panels
  BY <1>3, <1>7, <1>9 DEF Panels
<1>11. /\ p.wait = w /\ p.current = panel.current /\ p.track = panel.track /\ p.token = panel.token
       /\ p.kind = panel.kind /\ p.of = panel.of /\ p.from = panel.from /\ p.visible = panel.visible
  BY <1>3, <1>9 DEF Panels
<1>12. /\ panel' = p /\ given' = IF panel.from = "server" THEN [given EXCEPT ![panel.track] = n] ELSE given
       /\ UNCHANGED <<reads, lookups, stored, served, sends, lost, strayed>>
  BY <1>1, <1>6, <1>9 DEF EditTiming
<1>13. given \in [Ballads -> Nat]
  BY DEF LyricsInv, SendsInv
<1>14. given' \in [Ballads -> Nat] /\ \A t \in Ballads : given'[t] # 0 => HasLyrics(served, t)
  BY <1>3, <1>5, <1>12, <1>13 DEF LyricsInv, SendsInv
<1>15. ASSUME NEW t \in Ballads PROVE OnItsWay(t)'
  <2>1. CASE panel.from = "server" /\ t = panel.track
    BY <1>3, <1>7, <1>11, <1>12, <1>13, <2>1 DEF OnItsWay, For
  <2>2. CASE ~(panel.from = "server" /\ t = panel.track)
    <3>1. given'[t] = given[t] /\ ~For(w, t)
      BY <1>3, <1>7, <1>12, <1>13, <2>2 DEF For
    <3>2. ~(panel.wait # NoSend /\ For(panel.wait, t))
      BY <2>2 DEF LyricsInv, PanelInv, For
    <3>3. given[t] = 0 \/ given[t] \in lost \/ Said(sends, t, given[t], served[t].timing)
      BY <3>2 DEF LyricsInv, SendsInv, OnItsWay
    <3> QED BY <1>7, <1>11, <1>12, <3>1, <3>3 DEF OnItsWay
  <2> QED BY <2>1, <2>2
<1>16. SendsInv'
  BY <1>7, <1>8, <1>11, <1>12, <1>14, <1>15 DEF LyricsInv, SendsInv
<1>17. PanelInv'
  BY <1>7, <1>10, <1>11, <1>12 DEF LyricsInv, PanelInv, LyricsAreTheTracks, Belong
<1>18. NothingTaken
  BY <1>12, NothingMoves
<1>19. ReadsInv' /\ LookupsInv' /\ StoreInv'
  BY <1>11, <1>12, <1>18, ReadsStay, LookupsStay, StoreStays
<1> QED BY <1>2, <1>16, <1>17, <1>19 DEF LyricsInv

(* The first of the timings arrives at lyrics its track has.               *)
LEMMA TimingLandsOK == ASSUME LyricsInv, TimingLands PROVE LyricsInv'
<1>1. PICK s : s = Head(sends)
  OBVIOUS
<1>2. sends \in Seq(Send) /\ sends # <<>> /\ sends' = Tail(sends)
  BY DEF TimingLands, LyricsInv, SendsInv
<1>3. s \in Send /\ 1 \in DOMAIN sends /\ sends[1] = s /\ sends' \in Seq(Send)
  BY <1>1, <1>2
<1>4. SendFits(s, strayed, served)
  BY <1>3 DEF LyricsInv, SendsInv
<1>5. PICK t0 \in Ballads : t0 = s.track
  BY <1>3 DEF Send
<1>6. served \in [Ballads -> ServerEntries] /\ panel \in Panels
  BY DEF LyricsInv, SendsInv, PanelInv
<1>7. UNCHANGED <<panel, reads, lookups, given, lost, strayed, scene>>
  BY DEF TimingLands
<1>8. /\ served' \in [Ballads -> ServerEntries]
      /\ \A t \in Ballads : /\ served'[t].kind = served[t].kind
                            /\ served'[t].timing = IF For(s, t) THEN s.timing ELSE served[t].timing
  <2>1. CASE s.from = "server"
    <3>1. PICK e : e = Kept("entry", s.timing)
      OBVIOUS
    <3>2. e \in ServerEntries /\ e.kind = "entry" /\ e.timing = s.timing
      BY <1>3, <3>1 DEF Kept, Send, ServerEntries
    <3>3. served' = [served EXCEPT ![t0] = e]
      BY <1>1, <1>5, <2>1, <3>1 DEF TimingLands
    <3>4. served[t0].kind = "entry"
      BY <1>4, <1>5, <2>1 DEF SendFits, HasLyrics
    <3> QED BY <1>5, <1>6, <2>1, <3>2, <3>3, <3>4 DEF For
  <2>2. CASE s.from # "server"
    BY <1>1, <1>6, <2>2 DEF TimingLands, For
  <2> QED BY <2>1, <2>2
<1>9. StoreInv'
  <2>1. CASE s.from = "server"
    BY <1>1, <1>7, <2>1 DEF TimingLands, LyricsInv, StoreInv, Belong
  <2>2. CASE s.from # "server"
    <3>1. PICK e : e = InStore("entry", s.timing, s.of)
      OBVIOUS
    <3>2. e \in StoreEntries /\ e.of = s.of /\ s.of \in Ballads
      BY <1>3, <3>1 DEF InStore, Send, StoreEntries, TrackOrSilence
    <3>3. stored' = [stored EXCEPT ![t0] = e]
      BY <1>1, <1>5, <2>2, <3>1 DEF TimingLands
    <3>4. s.of = t0 \/ <<s.of, t0>> \in strayed
      BY <1>4, <1>5 DEF SendFits
    <3> QED BY <1>7, <3>2, <3>3, <3>4 DEF LyricsInv, StoreInv, Belong
  <2> QED BY <2>1, <2>2
<1>10. \A t : HasLyrics(served, t) => HasLyrics(served', t)
  BY <1>8 DEF HasLyrics
<1>11. \A x : SendFits(x, strayed, served) => SendFits(x, strayed', served')
  BY <1>7, <1>10 DEF SendFits
<1>12. \A i \in DOMAIN sends' : SendFits(sends'[i], strayed', served')
  <2>1. \A i \in DOMAIN sends' : i + 1 \in DOMAIN sends /\ sends'[i] = sends[i + 1]
    BY <1>2
  <2> QED BY <1>11, <2>1 DEF LyricsInv, SendsInv
<1>13. ASSUME NEW t \in Ballads PROVE OnItsWay(t)'
  <2>1. PICK has : has = IF For(Head(sends), t) THEN Head(sends).timing ELSE served[t].timing
    OBVIOUS
  <2>2. served'[t].timing = has
    BY <1>1, <1>8, <2>1
  <2>3. Said(sends, t, given[t], served[t].timing) => Said(sends', t, given[t], has)
    BY <1>2, <2>1, SaidFirst
  <2> QED BY <1>7, <2>2, <2>3 DEF LyricsInv, SendsInv, OnItsWay
<1>14. SendsInv'
  BY <1>3, <1>7, <1>8, <1>10, <1>11, <1>12, <1>13 DEF LyricsInv, SendsInv
<1>15. PanelInv'
  BY <1>7, <1>10 DEF LyricsInv, PanelInv, LyricsAreTheTracks, Belong
<1>16. ReadsInv'
  BY <1>7 DEF LyricsInv, ReadsInv, LatestReads, Belong
<1>17. LookupsInv'
  BY <1>7, <1>10 DEF LyricsInv, LookupsInv
<1> QED BY <1>7, <1>9, <1>14, <1>15, <1>16, <1>17 DEF LyricsInv

(* It is lost: the lyrics keep the timing they had.                        *)
LEMMA TimingFailsOK == ASSUME LyricsInv, TimingFails PROVE LyricsInv'
<1>1. PICK s : s = Head(sends)
  OBVIOUS
<1>2. sends \in Seq(Send) /\ sends # <<>> /\ sends' = Tail(sends) /\ lost' = lost \cup {s.timing}
  BY <1>1 DEF TimingFails, LyricsInv, SendsInv
<1>3. UNCHANGED <<panel, reads, lookups, stored, served, given, strayed, scene>>
  BY DEF TimingFails
<1>4. sends' \in Seq(Send) /\ \A i \in DOMAIN sends' : i + 1 \in DOMAIN sends /\ sends'[i] = sends[i + 1]
  BY <1>2
<1>5. \A i \in DOMAIN sends' : SendFits(sends'[i], strayed, served)
  BY <1>4 DEF LyricsInv, SendsInv
<1>6. ASSUME NEW t \in Ballads PROVE OnItsWay(t)'
  <2>1. CASE given[t] = s.timing
    BY <1>2, <1>3, <2>1 DEF OnItsWay
  <2>2. CASE given[t] # s.timing
    <3>1. Said(sends, t, given[t], served[t].timing) => Said(sends', t, given[t], served[t].timing)
      BY <1>1, <1>2, <2>2, SaidLost
    <3> QED BY <1>2, <1>3, <3>1 DEF LyricsInv, SendsInv, OnItsWay
  <2> QED BY <2>1, <2>2
<1>7. SendsInv'
  BY <1>3, <1>4, <1>5, <1>6 DEF LyricsInv, SendsInv
<1>8. NothingTaken
  BY <1>3, NothingMoves
<1>9. ReadsInv' /\ LookupsInv' /\ StoreInv'
  BY <1>3, <1>8, ReadsStay, LookupsStay, StoreStays
<1>10. PanelInv'
  BY <1>3 DEF LyricsInv, PanelInv, LyricsAreTheTracks, Belong
<1> QED BY <1>3, <1>7, <1>9, <1>10 DEF LyricsInv

LEMMA LyricsStart == LyricsInit => LyricsInv
<1> SUFFICES ASSUME LyricsInit PROVE LyricsInv
  OBVIOUS
<1>1. scene \in LyricScenes /\ scene \in LyricsScript
  BY LyricsAssumption DEF LyricsInit, LyricsScript
<1>2. panel \in Panels /\ panel.kind = "empty" /\ panel.wait = NoSend
  BY DEF LyricsInit, Panels, TrackOrSilence, LyricKinds
<1>3. /\ reads = {} /\ lookups = {} /\ sends = <<>> /\ given \in [Ballads -> Nat]
      /\ \A t \in Ballads : given[t] = 0
  BY DEF LyricsInit
<1>4. served \in [Ballads -> ServerEntries]
  BY <1>1 DEF LyricsInit, Kept, ServerEntries, LyricsScript
<1>5. SendsInv
  BY <1>2, <1>3, <1>4 DEF SendsInv, OnItsWay
<1>6. PanelInv
  BY <1>2 DEF PanelInv, LyricsAreTheTracks, Theirs
<1>7. ReadsInv /\ LookupsInv
  BY <1>3 DEF ReadsInv, LookupsInv, LatestReads
<1>8. StoreInv
  <2>1. \A t \in Ballads : InStore(scene.stores, 0, t) \in StoreEntries /\ InStore(scene.stores, 0, t).of = t
    BY <1>1 DEF InStore, StoreEntries, LyricsScript, TrackOrSilence
  <2>2. stored = [t \in Ballads |-> InStore(scene.stores, 0, t)]
    BY DEF LyricsInit
  <2> QED BY <2>1, <2>2 DEF StoreInv, Belong
<1> QED BY <1>1, <1>5, <1>6, <1>7, <1>8 DEF LyricsInv

LEMMA LyricsStep == LyricsInv /\ [LyricsNext]_lyricsVars => LyricsInv'
<1> SUFFICES ASSUME LyricsInv, [LyricsNext]_lyricsVars PROVE LyricsInv'
  OBVIOUS
<1>1. CASE UNCHANGED lyricsVars
  <2>1. UNCHANGED <<panel, reads, lookups, stored, served, sends, given, lost, strayed, scene>>
    BY <1>1 DEF lyricsVars
  <2>2. NothingTaken
    BY <2>1, NothingMoves
  <2>3. ReadsInv' /\ LookupsInv' /\ StoreInv'
    BY <2>1, <2>2, ReadsStay, LookupsStay, StoreStays
  <2> QED BY <2>1, <2>2, <2>3, QuietStep DEF LyricsInv
<1>2. CASE LyricsNext
  BY <1>2, OpenTrackOK, LyricsTickOK, ShowTabOK, HideTabOK, KeepVersionOK, RemoveLyricsOK, LookAgainOK,
     EditTimingOK, CloseSyncOK, SaveDelayOverOK, TimingLandsOK, TimingFailsOK, DropsReadOK, StoreAnswersOK,
     ServerAnswersOK, TagsAnswerOK, KeepLandsOK, RemoveLandsOK, StoreFailsOK, LookupHeardOK, LookupReadOK,
     ServerLooksUpOK DEF LyricsNext
<1> QED BY <1>1, <1>2

(* The lyrics tab is as its types say, its lyrics are those of the track   *)
(* it shows or of the one just opened, but for lyrics in a file kept over  *)
(* an opening, and a timing given to the server's lyrics gets there unless *)
(* its own save failed, whatever else answers on the way.                  *)
THEOREM LyricsStayTheirs == LyricsSpec => [](LyricsTypeOK /\ LyricsStayWithTheirTrack)
<1>1. LyricsInv => LyricsTypeOK
  <2> SUFFICES ASSUME LyricsInv PROVE LyricsTypeOK
    OBVIOUS
  <2>1. /\ panel \in Panels /\ reads \subseteq LyricReads /\ lookups \subseteq LyricLookups
        /\ stored \in [Ballads -> StoreEntries] /\ served \in [Ballads -> ServerEntries]
    BY DEF LyricsInv, PanelInv, ReadsInv, LookupsInv, StoreInv, SendsInv
  <2>2. /\ panel.current \in TrackOrSilence /\ panel.track \in TrackOrSilence /\ panel.of \in TrackOrSilence
        /\ panel.kind \in LyricKinds
    BY <2>1 DEF Panels
  <2>3. /\ \A r \in reads : r.stage \in {"store", "server", "tags", "keep", "remove"}
        /\ \A l \in lookups : l.track \in Ballads /\ l.stage \in {"asked", "answered", "reading"}
    BY <2>1 DEF LyricReads, ReadStages, LyricLookups
  <2>4. \A t \in Ballads : /\ stored[t].kind \in {"none", "othersong", "entry", "dismissed"}
                           /\ served[t].kind \in {"none", "entry", "versions"}
    BY <2>1 DEF StoreEntries, ServerEntries
  <2> QED BY <2>2, <2>3, <2>4 DEF LyricsTypeOK, TrackOrSilence, LyricKinds
<1>2. LyricsInv => LyricsStayWithTheirTrack
  <2> SUFFICES ASSUME LyricsInv PROVE LyricsStayWithTheirTrack
    OBVIOUS
  <2>1. ASSUME sends = <<>>, panel.wait = NoSend, NEW t \in Ballads PROVE given[t] \in {0, served[t].timing} \cup lost
    <3>1. given[t] = 0 \/ given[t] \in lost \/ Said(sends, t, given[t], served[t].timing)
      BY <2>1 DEF LyricsInv, SendsInv, OnItsWay
    <3> QED BY <2>1, <3>1 DEF Said
  <2> QED BY <2>1 DEF LyricsInv, PanelInv, LyricsStayWithTheirTrack, TimingGetsThere
<1> QED BY <1>1, <1>2, LyricsStart, LyricsStep, PTL DEF LyricsSpec

-----------------------------------------------------------------------------
(***************************************************************************)
(* Proofs about StudioTransport for any track, chunk and lookahead, any    *)
(* lead of a count-in and any scene: what is heard follows the transport.  *)
(* TransportInv is inductive.  Each operation of the engine has a lemma    *)
(* that says what it leaves of the engine: Follows for one that cannot     *)
(* start it (the mapping to the clock stands, or the engine says it has    *)
(* moved), Started for the start.  The steps of the transport cite those.  *)
(***************************************************************************)

Times == 0..Length
Loops == [start : Times, end : Times]
AudioNodes == [at : Int, from : Int, until : Int]
Flights == [id : Nat \ {0}, chunk : Chunks]
Waits ==
    [what : {"play", "fill"}, chunk : Chunks, flight : Nat \cup {Full}, within : 0..(Chunk - 1),
     lead : Nat, call : Nat]
Engines ==
    [kind : {"chunked", "buffered"}, playing : BOOLEAN, started : BOOLEAN, destroyed : BOOLEAN,
     offset : Times, base : Int, upTo : Nat, filling : BOOLEAN, moved : BOOLEAN,
     loop : {Idle} \cup Loops, tick : {Idle, "frame", "timeout"}, nodes : SUBSET AudioNodes,
     waiting : Seq(Waits), cache : [Chunks -> Nat \cup {Full}], flights : SUBSET Flights]

Whole(e) ==
    /\ e \in Engines /\ IsFiniteSet(e.flights)
    /\ e.started => e.playing
    /\ e.destroyed => ~e.playing /\ e.nodes = {} /\ e.tick = Idle

(* What a fetch leaves alone.                                              *)
Alike(e, f) ==
    /\ f.kind = e.kind /\ f.playing = e.playing /\ f.started = e.started /\ f.destroyed = e.destroyed
    /\ f.offset = e.offset /\ f.base = e.base /\ f.moved = e.moved /\ f.loop = e.loop
    /\ f.tick = e.tick /\ f.nodes = e.nodes

(* The starts an engine still fetches for.                                 *)
Fetching(e) == {i \in DOMAIN e.waiting : e.waiting[i].what = "play"}
Calls(e) == {e.waiting[i].call : i \in Fetching(e)}

LEMMA SameCalls == ASSUME NEW e, NEW f, f.waiting = e.waiting PROVE Calls(f) = Calls(e)
BY DEF Calls, Fetching

(* Chunks and times.                                                       *)
LEMMA ChunkIs == ASSUME NEW t \in Times PROVE ChunkAt(t) \in Chunks /\ t % Chunk \in 0..(Chunk - 1)
<1>1. Chunk \in Nat \ {0} /\ Length \in Nat
  BY EngineAssumption
<1>2. t \div Chunk \in Nat /\ Length \div Chunk \in Nat /\ t % Chunk \in 0..(Chunk - 1)
  BY <1>1 DEF Times
<1>3. t \div Chunk <= Length \div Chunk
  BY <1>1 DEF Times
<1> QED BY <1>2, <1>3 DEF ChunkAt, Chunks, PastEnd

LEMMA PastEndIs == PastEnd \in Nat
BY EngineAssumption DEF PastEnd

LEMMA TwoOf ==
    ASSUME NEW a \in Int, NEW b \in Int
    PROVE  /\ Min({a, b}) \in {a, b} /\ Min({a, b}) <= a /\ Min({a, b}) <= b
           /\ Max({a, b}) \in {a, b} /\ Max({a, b}) >= a /\ Max({a, b}) >= b
<1>1. \E x \in {a, b} : \A y \in {a, b} : x <= y
  OBVIOUS
<1>2. \E x \in {a, b} : \A y \in {a, b} : x >= y
  OBVIOUS
<1>3. Min({a, b}) \in {a, b} /\ \A y \in {a, b} : Min({a, b}) <= y
  BY <1>1 DEF Min
<1>4. Max({a, b}) \in {a, b} /\ \A y \in {a, b} : Max({a, b}) >= y
  BY <1>2 DEF Max
<1> QED BY <1>3, <1>4

LEMMA NextChunkIs == ASSUME NEW c \in Chunks PROVE Min({c + 1, PastEnd}) \in Chunks
<1>1. PICK a \in Int, b \in Int : a = c + 1 /\ b = PastEnd /\ a >= 0 /\ b >= 0
  BY PastEndIs DEF Chunks
<1>2. Min({a, b}) \in {a, b} /\ Min({a, b}) <= b
  BY <1>1, TwoOf
<1>3. Min({a, b}) \in Chunks
  BY <1>1, <1>2 DEF Chunks
<1> QED BY <1>1, <1>3

LEMMA PlayheadIs == ASSUME NEW e \in Engines, now \in Nat PROVE Playhead(e) \in Times
<1>1. e.offset \in Times /\ e.base \in Int /\ Length \in Nat
  BY EngineAssumption DEF Engines
<1>2. PICK a \in Int, z \in Int : a = now - e.base /\ z = 0
  BY <1>1
<1>3. PICK m : m = Max({z, a})
  OBVIOUS
<1>4. m \in {z, a} /\ m >= z
  BY <1>2, <1>3, TwoOf
<1>5. m \in Nat
  BY <1>2, <1>4
<1>6. PICK p \in Int, l \in Int : p = e.offset + m /\ l = Length /\ p >= 0
  BY <1>1, <1>5 DEF Times
<1>7. PICK q : q = Min({l, p})
  OBVIOUS
<1>8. q \in {l, p} /\ q <= l
  BY <1>1, <1>6, <1>7, TwoOf
<1>9. q \in Times
  BY <1>1, <1>6, <1>8 DEF Times
<1> QED BY <1>1, <1>2, <1>3, <1>6, <1>7, <1>9 DEF Playhead

LEMMA NewFlightIs ==
    ASSUME NEW e, Whole(e) PROVE NewFlight(e) \in Nat \ {0} /\ \A f \in e.flights : f.id # NewFlight(e)
<1>1. PICK F : F = e.flights
  OBVIOUS
<1>2. IsFiniteSet(F) /\ F \subseteq Flights
  BY <1>1 DEF Whole, Engines
<1>3. PICK ids : ids = {f.id : f \in F}
  OBVIOUS
<1>4. PICK n \in Nat : n = Cardinality(F)
  BY <1>2, FS_CardinalityType
<1>5. IsFiniteSet(ids) /\ Cardinality(ids) <= n
  <2> DEFINE g == [f \in F |-> f.id]
  <2>1. g \in Surjection(F, ids)
    BY <1>3 DEF Surjection
  <2> HIDE DEF g
  <2> QED BY <1>2, <1>4, <2>1, FS_Surjection
<1>6. IsFiniteSet(1..(n + 1)) /\ Cardinality(1..(n + 1)) = n + 1
  BY FS_Interval
<1>7. ~(1..(n + 1) \subseteq ids)
  <2> SUFFICES ASSUME 1..(n + 1) \subseteq ids PROVE FALSE
    OBVIOUS
  <2>1. Cardinality(1..(n + 1)) <= Cardinality(ids)
    BY <1>5, FS_Subset
  <2>2. Cardinality(ids) \in Nat
    BY <1>5, FS_CardinalityType
  <2> QED BY <1>4, <1>5, <1>6, <2>1, <2>2
<1>8. PICK S : S = 1..(n + 1) \ ids
  OBVIOUS
<1>9. S \in SUBSET Nat /\ S # {} /\ 0 \notin S
  BY <1>7, <1>8
<1>10. Min(S) \in S
  BY <1>9, LeastIn
<1> QED BY <1>1, <1>3, <1>4, <1>8, <1>9, <1>10 DEF NewFlight

(* A fetch.                                                                *)
LEMMA FetchIs ==
    ASSUME NEW e, Whole(e), NEW c \in Chunks, NEW f, f = Fetch(e, c)
    PROVE  /\ Whole(f) /\ Alike(e, f) /\ f.waiting = e.waiting /\ f.upTo = e.upTo /\ f.filling = e.filling
           /\ f.cache[c] \in Nat \cup {Full}
<1>1. e \in Engines /\ IsFiniteSet(e.flights) /\ e.cache \in [Chunks -> Nat \cup {Full}]
  BY DEF Whole, Engines
<1>2. CASE e.cache[c] # Absent
  BY <1>1, <1>2 DEF Fetch, Alike
<1>3. CASE e.cache[c] = Absent
  <2>1. PICK n \in Nat \ {0} : n = NewFlight(e)
    BY NewFlightIs
  <2>2. PICK w : w = [id |-> n, chunk |-> c]
    OBVIOUS
  <2>3. PICK F : F = e.flights \cup {w}
    OBVIOUS
  <2>4. w \in Flights /\ F \in SUBSET Flights /\ IsFiniteSet(F)
    <3>1. w \in Flights
      BY <2>2 DEF Flights
    <3>2. e.flights \in SUBSET Flights
      BY <1>1 DEF Engines
    <3>3. IsFiniteSet(F)
      BY <1>1, <2>3, FS_AddElement
    <3> QED BY <2>3, <3>1, <3>2, <3>3
  <2>5. PICK k : k = [e.cache EXCEPT ![c] = n]
    OBVIOUS
  <2>6. k \in [Chunks -> Nat \cup {Full}] /\ k[c] = n
    BY <1>1, <2>5
  <2>7. f = [e EXCEPT !.flights = F, !.cache = k]
    BY <1>1, <1>3, <2>1, <2>2, <2>3, <2>5 DEF Fetch, Engines
  <2>8. f \in Engines /\ f.flights = F /\ f.cache = k
    BY <1>1, <2>4, <2>6, <2>7 DEF Engines
  <2>9. Alike(e, f) /\ f.waiting = e.waiting /\ f.upTo = e.upTo /\ f.filling = e.filling
    BY <1>1, <2>7 DEF Alike, Engines
  <2> QED BY <2>4, <2>6, <2>8, <2>9 DEF Whole, Alike
<1> QED BY <1>2, <1>3

LEMMA ScheduledIs ==
    ASSUME NEW e, Whole(e), ~e.destroyed, hidden \in BOOLEAN, NEW f, f = Scheduled(e)
    PROVE  /\ Whole(f) /\ Fires(f) /\ f.waiting = e.waiting /\ f.upTo = e.upTo
           /\ f.kind = e.kind /\ f.playing = e.playing /\ f.started = e.started /\ f.destroyed = e.destroyed
           /\ f.offset = e.offset /\ f.base = e.base /\ f.moved = e.moved /\ f.loop = e.loop
<1>1. PICK k \in {"frame", "timeout"} : k = IF hidden THEN "timeout" ELSE "frame"
  OBVIOUS
<1>2. f = [e EXCEPT !.tick = k] /\ e \in Engines
  BY <1>1 DEF Scheduled, Whole
<1>3. f \in Engines /\ f.tick = k
  BY <1>2 DEF Engines
<1>4. /\ f.waiting = e.waiting /\ f.upTo = e.upTo
      /\ f.kind = e.kind /\ f.playing = e.playing /\ f.started = e.started /\ f.destroyed = e.destroyed
      /\ f.offset = e.offset /\ f.base = e.base /\ f.moved = e.moved /\ f.loop = e.loop /\ f.flights = e.flights
  BY <1>2 DEF Engines
<1>5. Fires(f)
  BY <1>1, <1>3 DEF Fires
<1> QED BY <1>3, <1>4, <1>5 DEF Whole

(* What every step keeps of an engine, and what it does to its clock.      *)
Kin(e, f) == f.kind = e.kind /\ f.destroyed = e.destroyed

Mapped(e, f) ==
    ClockReady(f) =>
       f.moved \/ (ClockReady(e) /\ f.base = e.base /\ f.offset = e.offset /\ f.moved = e.moved)

Ticks(e) ==
    /\ ClockReady(e) => Fires(e)
    /\ e.kind = "buffered" /\ e.playing => e.started

Follows(e, f) ==
    /\ Whole(f) /\ Ticks(f) /\ Kin(e, f) /\ Mapped(e, f) /\ (f.playing => e.playing)
    /\ Calls(e) \subseteq Calls(f) /\ Calls(f) \subseteq Calls(e) \cup {0}

(* A start that has its chunk, or goes without.                            *)
LEMMA StartWithIs ==
    ASSUME NEW e, Whole(e), e.playing, now \in Nat, hidden \in BOOLEAN, NEW c \in Chunks,
           NEW within \in 0..(Chunk - 1), NEW lead \in Nat, NEW full,
           NEW f, f = StartWith(e, c, within, lead, full)
    PROVE  /\ Whole(f) /\ f.playing /\ f.started /\ f.moved /\ Fires(f) /\ Kin(e, f) /\ f.waiting = e.waiting
           /\ f.offset = e.offset
<1>1. e \in Engines /\ ~e.destroyed /\ e.offset \in Times /\ e.nodes \in SUBSET AudioNodes
  BY DEF Whole, Engines
<1>2. PICK at \in Int : at = now + lead
  OBVIOUS
<1>3. PICK n : n = Node(at, c * Chunk + within, (c + 1) * Chunk)
  OBVIOUS
<1>4. Chunk \in Nat \ {0} /\ c \in Int /\ c + 1 \in Int
  BY EngineAssumption, PastEndIs DEF Chunks
<1>5. n \in AudioNodes
  BY <1>2, <1>3, <1>4 DEF Node, AudioNodes
<1>6. PICK N \in SUBSET AudioNodes : N = IF full THEN e.nodes \cup {n} ELSE e.nodes
  BY <1>1, <1>5
<1>7. PICK d \in Nat : d = IF full THEN Chunk - within ELSE 0
  <2>1. within \in Int /\ within <= Chunk - 1
    BY <1>4
  <2>2. Chunk - within \in Nat
    BY <1>4, <2>1
  <2>3. (IF full THEN Chunk - within ELSE 0) \in Nat
    BY <2>2
  <2> QED BY <2>3
<1>8. PICK u \in Nat : u = e.offset + d
  BY <1>1, <1>7 DEF Times
<1>9. PICK g : g = [e EXCEPT !.base = at, !.started = TRUE, !.moved = TRUE, !.upTo = u, !.nodes = N]
  OBVIOUS
<1>10. g \in Engines
  BY <1>1, <1>2, <1>6, <1>8, <1>9 DEF Engines
<1>11. /\ g.kind = e.kind /\ g.playing = e.playing /\ g.started /\ g.moved /\ g.destroyed = e.destroyed
       /\ g.loop = e.loop /\ g.waiting = e.waiting /\ g.flights = e.flights /\ g.offset = e.offset
  BY <1>1, <1>9 DEF Engines
<1>12. Whole(g)
  BY <1>1, <1>10, <1>11 DEF Whole
<1>13. PICK h : h = Scheduled(g)
  OBVIOUS
<1>14. Whole(h) /\ Fires(h) /\ h.waiting = g.waiting /\ h.kind = g.kind /\ h.playing = g.playing
       /\ h.started = g.started /\ h.destroyed = g.destroyed /\ h.moved = g.moved /\ h.loop = g.loop
       /\ h.offset = g.offset
  BY <1>1, <1>11, <1>12, <1>13, ScheduledIs
<1>15. PICK m \in Chunks : m = Min({c + 1, PastEnd})
  BY NextChunkIs
<1>16. f = Fetch(h, m)
  BY <1>2, <1>3, <1>6, <1>7, <1>8, <1>9, <1>13, <1>15 DEF StartWith
<1>17. Whole(f) /\ Alike(h, f) /\ f.waiting = h.waiting
  BY <1>14, <1>15, <1>16, FetchIs
<1> QED BY <1>11, <1>14, <1>17 DEF Alike, Kin, Fires

(* A chunk is hung on the clock.                                           *)
LEMMA HangNextIs ==
    ASSUME NEW e, Whole(e), ~e.destroyed, now \in Nat, NEW c \in Chunks, NEW f, f = HangNext(e, c)
    PROVE  /\ Whole(f) /\ Kin(e, f) /\ f.playing = e.playing /\ f.started = e.started /\ f.tick = e.tick
           /\ f.offset = e.offset /\ f.base = e.base /\ f.moved = e.moved /\ f.waiting = e.waiting
<1>1. e \in Engines /\ e.base \in Int /\ e.upTo \in Int /\ e.offset \in Int /\ e.nodes \in SUBSET AudioNodes
  BY DEF Whole, Engines, Times
<1>2. PICK ideal \in Int : ideal = SourceToCtx(e, e.upTo)
  BY <1>1 DEF SourceToCtx
<1>3. PICK n \in Int : n = now
  OBVIOUS
<1>4. PICK at : at = Max({ideal, n})
  OBVIOUS
<1>5. at \in Int
  BY <1>2, <1>3, <1>4, TwoOf
<1>6. PICK late \in Int, k \in Int : late = at - ideal /\ k = Chunk
  BY <1>2, <1>5, EngineAssumption
<1>7. PICK skip : skip = Min({late, k})
  OBVIOUS
<1>8. skip \in Int
  BY <1>6, <1>7, TwoOf
<1>9. c \in Int /\ c + 1 \in Int
  BY PastEndIs DEF Chunks
<1>10. PICK x : x = Node(at, c * Chunk + skip, (c + 1) * Chunk)
  OBVIOUS
<1>11. x \in AudioNodes
  BY <1>5, <1>6, <1>8, <1>9, <1>10 DEF Node, AudioNodes
<1>12. PICK N \in SUBSET AudioNodes : N = e.nodes \cup {x}
  BY <1>1, <1>11
<1>13. PICK u \in Nat : u = e.upTo + Chunk
  BY EngineAssumption DEF Whole, Engines
<1>14. f = [e EXCEPT !.nodes = N, !.upTo = u]
  BY <1>1, <1>2, <1>3, <1>4, <1>6, <1>7, <1>10, <1>12, <1>13 DEF HangNext, Engines
<1>15. f \in Engines
  BY <1>1, <1>12, <1>13, <1>14 DEF Engines
<1>16. /\ f.kind = e.kind /\ f.destroyed = e.destroyed /\ f.loop = e.loop /\ f.flights = e.flights
       /\ f.playing = e.playing /\ f.started = e.started /\ f.tick = e.tick
       /\ f.offset = e.offset /\ f.base = e.base /\ f.moved = e.moved /\ f.waiting = e.waiting
  BY <1>1, <1>14 DEF Engines
<1> QED BY <1>15, <1>16 DEF Whole, Kin

(* Something waits for a flight.                                           *)
LEMMA CallsAre ==
    ASSUME NEW e, e.waiting \in Seq(Waits), NEW f, NEW w \in Waits, f.waiting = Append(e.waiting, w)
    PROVE  Calls(f) = Calls(e) \cup (IF w.what = "play" THEN {w.call} ELSE {})
<1>1. PICK list \in Seq(Waits) : list = e.waiting
  OBVIOUS
<1>2. PICK all : all = f.waiting
  OBVIOUS
<1>3. PICK n \in Nat : n = Len(list)
  OBVIOUS
<1>4. DOMAIN list = 1..n /\ DOMAIN all = 1..(n + 1) /\ all[n + 1] = w /\ \A i \in 1..n : all[i] = list[i]
  BY <1>1, <1>2, <1>3
<1>5. Fetching(f) = Fetching(e) \cup (IF w.what = "play" THEN {n + 1} ELSE {})
  BY <1>1, <1>2, <1>4 DEF Fetching
<1>6. \A i \in Fetching(e) : i \in 1..n /\ f.waiting[i].call = e.waiting[i].call
  BY <1>1, <1>2, <1>4 DEF Fetching
<1>7. f.waiting[n + 1].call = w.call
  BY <1>2, <1>4
<1> QED BY ZenonT(40), <1>5, <1>6, <1>7 DEF Calls

LEMMA AwaitIs ==
    ASSUME NEW e, Whole(e), NEW what \in {"play", "fill"}, NEW c \in Chunks, NEW within \in 0..(Chunk - 1),
           NEW lead \in Nat, NEW call \in Nat, NEW f, f = Await(e, what, c, within, lead, call)
    PROVE  /\ Whole(f) /\ Alike(e, f) /\ f.upTo = e.upTo /\ f.filling = e.filling
           /\ Calls(f) = Calls(e) \cup (IF what = "play" THEN {call} ELSE {})
<1>1. PICK g : g = Fetch(e, c)
  OBVIOUS
<1>2. Whole(g) /\ Alike(e, g) /\ g.waiting = e.waiting /\ g.upTo = e.upTo /\ g.filling = e.filling
      /\ g.cache[c] \in Nat \cup {Full}
  BY <1>1, FetchIs
<1>3. PICK w : w = [what |-> what, chunk |-> c, flight |-> g.cache[c],
                    within |-> within, lead |-> lead, call |-> call]
  OBVIOUS
<1>4. w \in Waits /\ w.what = what /\ w.call = call
  BY <1>2, <1>3 DEF Waits
<1>5. g \in Engines /\ g.waiting \in Seq(Waits)
  BY <1>2 DEF Whole, Engines
<1>6. PICK list \in Seq(Waits) : list = Append(g.waiting, w)
  <2>1. PICK old \in Seq(Waits) : old = g.waiting
    BY <1>5
  <2>2. Append(old, w) \in Seq(Waits)
    BY <1>4
  <2> QED BY <2>1, <2>2
<1>7. f = [g EXCEPT !.waiting = list]
  BY <1>1, <1>3, <1>5, <1>6 DEF Await, Engines
<1>8. f \in Engines /\ f.waiting = list
  BY <1>5, <1>6, <1>7 DEF Engines
<1>9. Alike(g, f) /\ f.upTo = g.upTo /\ f.filling = g.filling /\ f.flights = g.flights
  BY <1>5, <1>7 DEF Alike, Engines
<1>10. Whole(f)
  BY <1>2, <1>8, <1>9 DEF Whole, Alike
<1>11. Calls(f) = Calls(e) \cup (IF what = "play" THEN {call} ELSE {})
  BY SMTT(40), <1>2, <1>4, <1>5, <1>6, <1>8, CallsAre
<1> QED BY <1>2, <1>9, <1>10, <1>11 DEF Alike

(* The next chunk is asked for, or hung if it is there.                    *)
LEMMA MaybeScheduleIs ==
    ASSUME NEW e, Whole(e), ~e.destroyed, now \in Nat, NEW f, f = MaybeSchedule(e)
    PROVE  /\ Whole(f) /\ Kin(e, f) /\ f.playing = e.playing /\ f.started = e.started /\ f.tick = e.tick
           /\ f.offset = e.offset /\ f.base = e.base /\ f.moved = e.moved /\ Calls(f) = Calls(e)
<1>1. CASE f = e
  BY <1>1 DEF Kin
<1>2. CASE f # e
  <2>1. PICK limit : limit = IF e.loop = Idle THEN Length ELSE e.loop.end
    OBVIOUS
  <2>2. PICK c : c = ChunkAt(e.upTo)
    OBVIOUS
  <2>3. PICK m : m = Min({c + 1, PastEnd})
    OBVIOUS
  <2>4. PICK warm : warm = Fetch(e, m)
    OBVIOUS
  <2>5. /\ f = IF e.filling \/ e.upTo >= limit \/ e.upTo - CtxToSource(e, now) >= Lookahead
               THEN e
               ELSE IF Cached(warm, c) THEN HangNext(warm, c)
               ELSE [Await(warm, "fill", c, 0, 0, 0) EXCEPT !.filling = TRUE]
    BY <2>1, <2>2, <2>3, <2>4 DEF MaybeSchedule
  <2>6. /\ ~(e.upTo >= limit)
        /\ f = IF Cached(warm, c) THEN HangNext(warm, c)
               ELSE [Await(warm, "fill", c, 0, 0, 0) EXCEPT !.filling = TRUE]
    BY <1>2, <2>5
  <2>7. e.upTo \in Times
    <3>1. e.upTo \in Nat /\ Length \in Nat /\ (e.loop = Idle \/ e.loop \in Loops)
      BY EngineAssumption DEF Whole, Engines
    <3>2. limit \in Times
      BY <2>1, <3>1 DEF Loops, Times
    <3> QED BY <2>6, <3>1, <3>2 DEF Times
  <2>8. c \in Chunks
    BY <2>2, <2>7, ChunkIs
  <2>9. m \in Chunks
    BY <2>3, <2>8, NextChunkIs
  <2>10. Whole(warm) /\ Alike(e, warm) /\ warm.waiting = e.waiting
    BY <2>4, <2>9, FetchIs
  <2>11. Calls(warm) = Calls(e)
    BY <2>10 DEF Calls, Fetching
  <2>12. CASE f = HangNext(warm, c)
    <3>1. /\ Whole(f) /\ Kin(warm, f) /\ f.playing = warm.playing /\ f.started = warm.started
          /\ f.tick = warm.tick /\ f.offset = warm.offset /\ f.base = warm.base /\ f.moved = warm.moved
          /\ f.waiting = warm.waiting
      BY <2>8, <2>10, <2>12, HangNextIs DEF Alike
    <3>2. Calls(f) = Calls(warm)
      BY <3>1 DEF Calls, Fetching
    <3> QED BY <2>10, <2>11, <3>1, <3>2 DEF Alike, Kin
  <2>13. CASE f = [Await(warm, "fill", c, 0, 0, 0) EXCEPT !.filling = TRUE]
    <3>1. PICK g : g = Await(warm, "fill", c, 0, 0, 0)
      OBVIOUS
    <3>2. 0 \in 0..(Chunk - 1)
      BY EngineAssumption
    <3>3. Whole(g) /\ Alike(warm, g) /\ Calls(g) = Calls(warm)
      BY <2>8, <2>10, <3>1, <3>2, AwaitIs
    <3>4. g \in Engines /\ f = [g EXCEPT !.filling = TRUE]
      BY <2>13, <3>1, <3>3 DEF Whole
    <3>5. f \in Engines
      BY <3>4 DEF Engines
    <3>6. Alike(g, f) /\ f.waiting = g.waiting /\ f.flights = g.flights
      BY <3>4 DEF Engines, Alike
    <3>7. Whole(f)
      BY <3>3, <3>5, <3>6 DEF Whole, Alike
    <3>8. Calls(f) = Calls(g)
      BY <3>6 DEF Calls, Fetching
    <3> QED BY <2>10, <2>11, <3>3, <3>6, <3>7, <3>8 DEF Alike, Kin
  <2> QED BY <2>6, <2>12, <2>13
<1> QED BY <1>1, <1>2

(* The buffered engine's sources are started.                              *)
LEMMA StartSourcesIs ==
    ASSUME NEW e, Whole(e), e.playing, NEW at \in Int, NEW f, f = StartSources(e, at)
    PROVE  /\ Whole(f) /\ f.playing /\ f.started /\ f.moved /\ Kin(e, f) /\ f.waiting = e.waiting
           /\ f.tick = e.tick
<1>1. e \in Engines /\ ~e.destroyed /\ e.offset \in Int /\ Length \in Int
  BY EngineAssumption DEF Whole, Engines, Times
<1>2. PICK n : n = Node(at, e.offset, Length)
  OBVIOUS
<1>3. n \in AudioNodes
  BY <1>1, <1>2 DEF Node, AudioNodes
<1>4. PICK N \in SUBSET AudioNodes : N = {n}
  BY <1>3
<1>5. f = [e EXCEPT !.base = at, !.started = TRUE, !.moved = TRUE, !.nodes = N]
  BY <1>2, <1>4 DEF StartSources
<1>6. f \in Engines
  BY <1>1, <1>4, <1>5 DEF Engines
<1>7. /\ f.kind = e.kind /\ f.destroyed = e.destroyed /\ f.loop = e.loop /\ f.flights = e.flights
      /\ f.playing = e.playing /\ f.started /\ f.moved /\ f.waiting = e.waiting /\ f.tick = e.tick
  BY <1>1, <1>5 DEF Engines
<1> QED BY <1>1, <1>6, <1>7 DEF Whole, Kin

(* A start.  Its promise answers once its mapping is the engine's.         *)
Started(e, f, call) ==
    /\ Whole(f) /\ Ticks(f) /\ Kin(e, f) /\ f.playing /\ (f.started => f.moved)
    /\ Calls(e) \subseteq Calls(f) /\ Calls(f) \subseteq Calls(e) \cup {call}
    /\ ~f.started => call \in Calls(f)

LEMMA GoesIs ==
    ASSUME NEW e, Whole(e), ~e.playing, ~e.destroyed, NEW f, f = [Rewound(e) EXCEPT !.playing = TRUE]
    PROVE  /\ Whole(f) /\ Kin(e, f) /\ f.playing /\ ~f.started /\ Calls(f) = Calls(e)
           /\ f.cache = e.cache /\ f.flights = e.flights /\ f.loop = e.loop
<1>1. e \in Engines /\ ~e.started /\ 0 \in Times /\ 0 \in Nat
  BY EngineAssumption DEF Whole, Times
<1>2. PICK r : r = Rewound(e)
  OBVIOUS
<1>3. r = e \/ r = [e EXCEPT !.offset = 0, !.upTo = 0]
  BY <1>2 DEF Rewound
<1>4. r \in Engines
  BY <1>1, <1>3 DEF Engines
<1>5. /\ r.kind = e.kind /\ r.destroyed = e.destroyed /\ r.loop = e.loop /\ r.started = e.started
      /\ r.waiting = e.waiting /\ r.flights = e.flights /\ r.cache = e.cache
  BY <1>1, <1>3 DEF Engines
<1>6. f = [r EXCEPT !.playing = TRUE]
  BY <1>2
<1>7. f \in Engines
  BY <1>4, <1>6 DEF Engines
<1>8. /\ f.kind = r.kind /\ f.destroyed = r.destroyed /\ f.loop = r.loop /\ f.started = r.started
      /\ f.waiting = r.waiting /\ f.flights = r.flights /\ f.cache = r.cache /\ f.playing
  BY <1>4, <1>6 DEF Engines
<1> QED BY <1>1, <1>5, <1>7, <1>8 DEF Whole, Kin, Calls, Fetching

LEMMA PlayBufferedIs ==
    ASSUME NEW e, Whole(e), ~e.playing, ~e.destroyed, now \in Nat, hidden \in BOOLEAN, NEW lead \in Nat,
           NEW f, f = PlayBuffered(e, lead), NEW call
    PROVE  Started(e, f, call) /\ f.started
<1>1. PICK g : g = [Rewound(e) EXCEPT !.playing = TRUE]
  OBVIOUS
<1>2. Whole(g) /\ Kin(e, g) /\ g.playing /\ Calls(g) = Calls(e)
  BY <1>1, GoesIs
<1>3. PICK at \in Int : at = now + lead
  OBVIOUS
<1>4. PICK h : h = StartSources(g, at)
  OBVIOUS
<1>5. Whole(h) /\ h.playing /\ h.started /\ h.moved /\ Kin(g, h) /\ h.waiting = g.waiting
  BY <1>2, <1>3, <1>4, StartSourcesIs
<1>6. f = Scheduled(h)
  BY <1>1, <1>3, <1>4 DEF PlayBuffered
<1>7. ~h.destroyed
  BY <1>2, <1>5 DEF Kin
<1>8. Whole(f) /\ Fires(f) /\ f.waiting = h.waiting /\ f.kind = h.kind /\ f.playing = h.playing
      /\ f.started = h.started /\ f.destroyed = h.destroyed /\ f.moved = h.moved /\ f.loop = h.loop
  BY <1>5, <1>6, <1>7, ScheduledIs
<1>9. Calls(f) = Calls(e)
  <2>1. f.waiting = g.waiting
    BY <1>5, <1>8
  <2> QED BY <1>2, <2>1, SameCalls
<1> QED BY <1>2, <1>5, <1>8, <1>9 DEF Started, Kin, Ticks

LEMMA PlayChunkedIs ==
    ASSUME NEW e, Whole(e), ~e.playing, ~e.destroyed, now \in Nat, hidden \in BOOLEAN, NEW lead \in Nat,
           NEW call \in Nat, e.kind = "chunked", NEW f, f = PlayChunked(e, lead, call)
    PROVE  Started(e, f, call)
<1>1. PICK g : g = [Rewound(e) EXCEPT !.playing = TRUE]
  OBVIOUS
<1>2. Whole(g) /\ Kin(e, g) /\ g.playing /\ ~g.started /\ Calls(g) = Calls(e)
  BY <1>1, GoesIs
<1>3. g.offset \in Times
  BY <1>2 DEF Whole, Engines
<1>4. PICK c \in Chunks : c = ChunkAt(g.offset)
  BY <1>3, ChunkIs
<1>5. PICK w \in 0..(Chunk - 1) : w = g.offset % Chunk
  BY <1>3, ChunkIs
<1>6. f = IF Cached(g, c) THEN StartWith(g, c, w, lead, TRUE) ELSE Await(g, "play", c, w, lead, call)
  BY <1>1, <1>4, <1>5 DEF PlayChunked
<1>7. CASE f = StartWith(g, c, w, lead, TRUE)
  <2>1. PICK full : f = StartWith(g, c, w, lead, full)
    BY <1>7
  <2>2. Whole(f) /\ f.playing /\ f.started /\ f.moved /\ Fires(f) /\ Kin(g, f) /\ f.waiting = g.waiting
    BY <1>2, <2>1, StartWithIs
  <2>3. Calls(f) = Calls(e)
    BY ZenonT(40), <1>2, <2>2 DEF Calls, Fetching
  <2> QED BY <1>2, <2>2, <2>3 DEF Started, Kin, Ticks
<1>8. CASE f = Await(g, "play", c, w, lead, call)
  <2>1. Whole(f) /\ Alike(g, f) /\ Calls(f) = Calls(g) \cup {call}
    BY <1>2, <1>8, AwaitIs
  <2> QED BY <1>2, <2>1 DEF Started, Kin, Ticks, Alike, ClockReady
<1> QED BY <1>6, <1>7, <1>8

LEMMA PlayIs ==
    ASSUME NEW e, Whole(e), ~e.playing, ~e.destroyed, now \in Nat, hidden \in BOOLEAN, NEW lead \in Nat,
           NEW call \in Nat, NEW f, f = Play(e, lead, call)
    PROVE  Started(e, f, call)
<1>1. e.kind \in {"chunked", "buffered"}
  BY DEF Whole, Engines
<1> QED BY <1>1, PlayBufferedIs, PlayChunkedIs DEF Play

(* A pause.                                                                *)
LEMMA PauseIs ==
    ASSUME NEW e, Whole(e), now \in Nat, NEW f, f = Pause(e)
    PROVE  Whole(f) /\ Kin(e, f) /\ ~f.playing /\ ~f.started /\ f.waiting = e.waiting
<1>1. e \in Engines
  BY DEF Whole
<1>2. CASE ~e.playing
  BY <1>2 DEF Whole, Kin, Pause
<1>3. CASE e.playing
  <2>1. PICK t \in Times : t = Playhead(e)
    BY <1>1, PlayheadIs
  <2>2. f = [e EXCEPT !.offset = t, !.upTo = t, !.nodes = {}, !.playing = FALSE, !.started = FALSE,
                      !.moved = TRUE, !.tick = Idle]
    BY <1>3, <2>1 DEF Pause
  <2>3. f \in Engines
    <3>1. t \in Nat
      BY EngineAssumption DEF Times
    <3> QED BY <1>1, <2>2, <3>1 DEF Engines
  <2>4. /\ f.kind = e.kind /\ f.destroyed = e.destroyed /\ f.loop = e.loop /\ f.flights = e.flights
        /\ f.playing = FALSE /\ f.started = FALSE /\ f.waiting = e.waiting /\ f.nodes = {} /\ f.tick = Idle
    BY <1>1, <2>2 DEF Engines
  <2> QED BY <2>3, <2>4 DEF Whole, Kin
<1> QED BY <1>2, <1>3

(* A seek.                                                                 *)
LEMMA SeekBufferedIs ==
    ASSUME NEW e, Whole(e), now \in Nat, NEW t \in Times, NEW f, f = SeekBuffered(e, t)
    PROVE  /\ Whole(f) /\ Kin(e, f) /\ f.playing = e.playing /\ f.moved /\ f.waiting = e.waiting
           /\ f.tick = e.tick /\ (f.playing => f.started)
<1>1. e \in Engines
  BY DEF Whole
<1>2. CASE e.playing
  <2>1. PICK g : g = [e EXCEPT !.offset = t]
    OBVIOUS
  <2>2. g \in Engines
    BY <1>1, <2>1 DEF Engines
  <2>3. /\ g.kind = e.kind /\ g.destroyed = e.destroyed /\ g.loop = e.loop /\ g.flights = e.flights
        /\ g.playing = e.playing /\ g.started = e.started /\ g.waiting = e.waiting /\ g.tick = e.tick
        /\ g.nodes = e.nodes
    BY <1>1, <2>1 DEF Engines
  <2>4. Whole(g)
    BY <2>2, <2>3 DEF Whole
  <2>5. PICK at \in Int : at = now
    OBVIOUS
  <2>6. f = StartSources(g, at)
    BY <1>2, <2>1, <2>5 DEF SeekBuffered
  <2>7. /\ Whole(f) /\ f.playing /\ f.started /\ f.moved /\ Kin(g, f) /\ f.waiting = g.waiting
        /\ f.tick = g.tick
    BY <1>2, <2>3, <2>4, <2>6, StartSourcesIs
  <2> QED BY <1>2, <2>3, <2>7 DEF Kin
<1>3. CASE ~e.playing
  <2>1. f = [e EXCEPT !.offset = t, !.moved = TRUE]
    BY <1>3 DEF SeekBuffered
  <2>2. f \in Engines
    BY <1>1, <2>1 DEF Engines
  <2>3. /\ f.kind = e.kind /\ f.destroyed = e.destroyed /\ f.loop = e.loop /\ f.flights = e.flights
        /\ f.playing = e.playing /\ f.started = e.started /\ f.waiting = e.waiting /\ f.tick = e.tick
        /\ f.nodes = e.nodes /\ f.moved
    BY <1>1, <2>1 DEF Engines
  <2> QED BY <1>3, <2>2, <2>3 DEF Whole, Kin
<1> QED BY <1>2, <1>3

(* A seek of the chunked engine stops it, moves it and, if it played, goes *)
(* on from there.                                                          *)
LEMMA SeekStopsIs ==
    ASSUME NEW e, Whole(e), NEW t \in Times, NEW f, f = SeekChunked(e, t)
    PROVE  \E h : /\ Whole(h) /\ Kin(e, h) /\ ~h.playing /\ ~h.started /\ Calls(h) = Calls(e)
                 /\ h.loop = e.loop /\ h.flights = e.flights
                 /\ (\A c \in Chunks : h.cache[c] = e.cache[c] \/ (h.cache[c] = Absent /\ c # PinnedChunk(e)))
                 /\ f = IF e.playing THEN PlayChunked(h, 0, 0) ELSE h
<1>1. e \in Engines
  BY DEF Whole
<1>2. PICK g : g = IF e.playing
                   THEN [e EXCEPT !.nodes = {}, !.playing = FALSE, !.started = FALSE, !.tick = Idle]
                   ELSE e
  OBVIOUS
<1>3. g \in Engines
  BY <1>1, <1>2 DEF Engines
<1>4. /\ g.kind = e.kind /\ g.destroyed = e.destroyed /\ g.loop = e.loop /\ g.flights = e.flights
      /\ ~g.playing /\ ~g.started /\ g.waiting = e.waiting /\ g.cache = e.cache
  BY <1>1, <1>2 DEF Engines, Whole
<1>5. g.destroyed => g.nodes = {} /\ g.tick = Idle
  <2>1. CASE e.playing
    BY <1>1, <1>2, <2>1 DEF Engines
  <2>2. CASE ~e.playing
    BY <1>2, <2>2 DEF Whole
  <2> QED BY <2>1, <2>2
<1>6. PICK k : k = [c \in Chunks |-> IF c < ChunkAt(t) /\ c # PinnedChunk(e) THEN Absent ELSE g.cache[c]]
  OBVIOUS
<1>7. k \in [Chunks -> Nat \cup {Full}]
  <2>1. g.cache \in [Chunks -> Nat \cup {Full}] /\ Absent \in Nat
    BY <1>3 DEF Engines, Absent
  <2> QED BY <1>6, <2>1
<1>8. PICK u \in Nat : u = t
  BY EngineAssumption DEF Times
<1>9. PICK h : h = [g EXCEPT !.offset = t, !.upTo = u, !.moved = TRUE, !.cache = k]
  OBVIOUS
<1>10. h \in Engines
  BY <1>3, <1>7, <1>9 DEF Engines
<1>11. /\ h.kind = g.kind /\ h.destroyed = g.destroyed /\ h.loop = g.loop /\ h.flights = g.flights
       /\ h.playing = g.playing /\ h.started = g.started /\ h.waiting = g.waiting /\ h.nodes = g.nodes
       /\ h.tick = g.tick /\ h.cache = k
  BY <1>3, <1>9 DEF Engines
<1>12. Whole(h) /\ Kin(e, h) /\ ~h.playing /\ ~h.started
  BY <1>4, <1>5, <1>10, <1>11 DEF Whole, Kin
<1>13. Calls(h) = Calls(e)
  BY <1>4, <1>11, SameCalls
<1>14. f = IF e.playing THEN PlayChunked(h, 0, 0) ELSE h
  <2>1. PICK x : x = [g EXCEPT !.offset = t, !.upTo = t, !.moved = TRUE,
                        !.cache = [c \in Chunks |-> IF c < ChunkAt(t) /\ c # PinnedChunk(e) THEN Absent ELSE @[c]]]
    OBVIOUS
  <2>2. f = IF e.playing THEN PlayChunked(x, 0, 0) ELSE x
    BY <1>2, <2>1, Zenon DEF SeekChunked
  <2>3. x = h
    BY <1>6, <1>8, <1>9, <2>1
  <2> QED BY <2>2, <2>3
<1>15. \A c \in Chunks : h.cache[c] = e.cache[c] \/ (h.cache[c] = Absent /\ c # PinnedChunk(e))
  BY <1>4, <1>6, <1>11
<1> QED BY <1>4, <1>11, <1>12, <1>13, <1>14, <1>15

LEMMA SeekChunkedIs ==
    ASSUME NEW e, Whole(e), e.kind = "chunked", now \in Nat, hidden \in BOOLEAN, NEW t \in Times,
           NEW f, f = SeekChunked(e, t)
    PROVE  /\ Whole(f) /\ Ticks(f) /\ Kin(e, f) /\ f.playing = e.playing /\ (f.started => f.moved)
           /\ Calls(e) \subseteq Calls(f) /\ Calls(f) \subseteq Calls(e) \cup {0}
<1>1. PICK h : /\ Whole(h) /\ Kin(e, h) /\ ~h.playing /\ ~h.started /\ Calls(h) = Calls(e)
               /\ f = IF e.playing THEN PlayChunked(h, 0, 0) ELSE h
  BY SeekStopsIs
<1>2. CASE ~e.playing
  <2>1. e.playing = FALSE /\ h.playing = FALSE
    BY <1>1, <1>2 DEF Whole, Engines
  <2>2. Ticks(h)
    BY <1>1 DEF Ticks, ClockReady
  <2> QED BY <1>1, <1>2, <2>1, <2>2
<1>3. CASE e.playing
  <2>1. PICK z \in Nat : z = 0
    OBVIOUS
  <2>2. f = PlayChunked(h, z, z) /\ ~h.destroyed /\ h.kind = "chunked"
    BY <1>1, <1>3, <2>1 DEF Whole, Kin
  <2>3. Started(h, f, z)
    BY <1>1, <2>2, PlayChunkedIs
  <2>4. e.playing = TRUE /\ f.playing = TRUE
    BY <1>3, <2>3 DEF Started, Whole, Engines
  <2> QED BY <1>1, <2>1, <2>3, <2>4 DEF Started, Kin
<1> QED BY <1>2, <1>3

LEMMA SeekIs ==
    ASSUME NEW e, Whole(e), Ticks(e), now \in Nat, hidden \in BOOLEAN, NEW t \in Times, NEW f, f = Seek(e, t)
    PROVE  Follows(e, f) /\ f.playing = e.playing
<1>1. CASE e.kind = "buffered"
  <2>1. f = SeekBuffered(e, t)
    BY <1>1 DEF Seek
  <2>2. /\ Whole(f) /\ Kin(e, f) /\ f.playing = e.playing /\ f.moved /\ f.waiting = e.waiting
        /\ f.tick = e.tick /\ (f.playing => f.started)
    BY <2>1, SeekBufferedIs
  <2>3. Ticks(f)
    BY <1>1, <2>2 DEF Ticks, Kin, ClockReady, Fires
  <2>4. Calls(f) = Calls(e)
    BY <2>2, SameCalls
  <2> QED BY <2>2, <2>3, <2>4 DEF Follows, Mapped
<1>2. CASE e.kind # "buffered"
  <2>1. f = SeekChunked(e, t) /\ e.kind = "chunked"
    BY <1>2 DEF Seek, Whole, Engines
  <2>2. /\ Whole(f) /\ Ticks(f) /\ Kin(e, f) /\ f.playing = e.playing /\ (f.started => f.moved)
        /\ Calls(e) \subseteq Calls(f) /\ Calls(f) \subseteq Calls(e) \cup {0}
    BY <2>1, SeekChunkedIs
  <2> QED BY <2>2 DEF Follows, Mapped, ClockReady
<1> QED BY <1>1, <1>2

(* Another speed.                                                          *)
LEMMA SetPlaybackRateIs ==
    ASSUME NEW e, Whole(e), Ticks(e), now \in Nat, hidden \in BOOLEAN, NEW f, f = SetPlaybackRate(e)
    PROVE  Follows(e, f)
<1>1. e \in Engines
  BY DEF Whole
<1>2. CASE e.playing
  <2>1. PICK t \in Times : t = Playhead(e)
    BY <1>1, PlayheadIs
  <2> QED BY <1>2, <2>1, SeekIs DEF SetPlaybackRate
<1>3. CASE ~e.playing
  <2>1. f = [e EXCEPT !.moved = TRUE]
    BY <1>3 DEF SetPlaybackRate
  <2>2. f \in Engines
    BY <1>1, <2>1 DEF Engines
  <2>3. /\ f.kind = e.kind /\ f.destroyed = e.destroyed /\ f.loop = e.loop /\ f.flights = e.flights
        /\ f.playing = e.playing /\ f.started = e.started /\ f.waiting = e.waiting /\ f.tick = e.tick
        /\ f.nodes = e.nodes
    BY <1>1, <2>1 DEF Engines
  <2>4. Whole(f) /\ Kin(e, f) /\ ~f.playing /\ ~f.started
    BY <1>3, <2>2, <2>3 DEF Whole, Kin
  <2>5. Calls(f) = Calls(e)
    BY <2>3, SameCalls
  <2> QED BY <1>3, <2>4, <2>5 DEF Follows, Ticks, Mapped, ClockReady
<1> QED BY <1>2, <1>3

(* A torn-down engine.                                                     *)
LEMMA DestroyEngineIs ==
    ASSUME NEW e, Whole(e), now \in Nat, NEW f, f = DestroyEngine(e)
    PROVE  Whole(f) /\ f.destroyed /\ ~f.playing /\ ~f.started /\ f.kind = e.kind /\ f.waiting = e.waiting
<1>1. PICK p : p = Pause(e)
  OBVIOUS
<1>2. Whole(p) /\ Kin(e, p) /\ ~p.playing /\ ~p.started /\ p.waiting = e.waiting
  BY <1>1, PauseIs
<1>3. PICK k : k = [c \in Chunks |-> Absent]
  OBVIOUS
<1>4. k \in [Chunks -> Nat \cup {Full}] /\ p \in Engines
  BY <1>2, <1>3 DEF Absent, Whole
<1>5. f = [p EXCEPT !.destroyed = TRUE, !.tick = Idle, !.nodes = {}, !.cache = k]
  BY <1>1, <1>3 DEF DestroyEngine
<1>6. f \in Engines
  BY <1>4, <1>5 DEF Engines
<1>7. /\ f.kind = p.kind /\ f.flights = p.flights /\ f.playing = p.playing /\ f.started = p.started
      /\ f.waiting = p.waiting /\ f.tick = Idle /\ f.nodes = {} /\ f.destroyed = TRUE
  BY <1>4, <1>5 DEF Engines
<1> QED BY <1>2, <1>6, <1>7 DEF Whole, Kin

(* The end of the track.                                                   *)
LEMMA EndOfTrackIs ==
    ASSUME NEW e, Whole(e), NEW f, f = EndOfTrack(e)
    PROVE  Whole(f) /\ Kin(e, f) /\ ~f.playing /\ ~f.started /\ f.waiting = e.waiting
<1>1. e \in Engines /\ Length \in Times
  BY EngineAssumption DEF Whole, Times
<1>2. f = [e EXCEPT !.playing = FALSE, !.started = FALSE, !.offset = Length, !.tick = Idle]
  BY DEF EndOfTrack
<1>3. f \in Engines
  BY <1>1, <1>2 DEF Engines
<1>4. /\ f.kind = e.kind /\ f.destroyed = e.destroyed /\ f.loop = e.loop /\ f.flights = e.flights
      /\ f.playing = FALSE /\ f.started = FALSE /\ f.waiting = e.waiting /\ f.tick = Idle /\ f.nodes = e.nodes
  BY <1>1, <1>2 DEF Engines
<1> QED BY <1>3, <1>4 DEF Whole, Kin

LEMMA SilentFollows ==
    ASSUME NEW e, NEW f, Whole(f), Kin(e, f), ~f.playing, ~f.started, f.waiting = e.waiting
    PROVE  Follows(e, f)
<1>1. Calls(f) = Calls(e)
  BY SameCalls
<1> QED BY <1>1 DEF Follows, Ticks, Mapped, ClockReady

(* The tick of the loop.                                                   *)
LEMMA TickBufferedIs ==
    ASSUME NEW e, Whole(e), e.kind = "buffered", e.playing, e.started, now \in Nat, hidden \in BOOLEAN,
           NEW f, f = TickBuffered(e)
    PROVE  Follows(e, f)
<1>1. e \in Engines /\ ~e.destroyed
  BY DEF Whole
<1>2. CASE e.loop # Idle /\ f = Scheduled(Seek(e, e.loop.start))
  <2>1. PICK t \in Times : t = e.loop.start
    BY <1>1, <1>2 DEF Engines, Loops
  <2>2. PICK g : g = SeekBuffered(e, t)
    OBVIOUS
  <2>3. /\ Whole(g) /\ Kin(e, g) /\ g.playing = e.playing /\ g.moved /\ g.waiting = e.waiting
        /\ (g.playing => g.started)
    BY <2>2, SeekBufferedIs
  <2>4. f = Scheduled(g) /\ ~g.destroyed
    BY <1>1, <1>2, <2>1, <2>2, <2>3 DEF Seek, Kin
  <2>5. /\ Whole(f) /\ Fires(f) /\ f.waiting = g.waiting
        /\ f.kind = g.kind /\ f.playing = g.playing /\ f.started = g.started /\ f.destroyed = g.destroyed
        /\ f.moved = g.moved /\ f.loop = g.loop
    BY <2>3, <2>4, ScheduledIs
  <2>6. Calls(f) = Calls(e)
    BY <2>3, <2>5, SameCalls
  <2> QED BY <2>3, <2>5, <2>6 DEF Follows, Kin, Mapped, Ticks
<1>3. CASE f = [EndOfTrack(e) EXCEPT !.nodes = {}, !.moved = TRUE]
  <2>1. PICK g : g = EndOfTrack(e)
    OBVIOUS
  <2>2. Whole(g) /\ Kin(e, g) /\ ~g.playing /\ ~g.started /\ g.waiting = e.waiting
    BY <2>1, EndOfTrackIs
  <2>3. g \in Engines /\ f = [g EXCEPT !.nodes = {}, !.moved = TRUE]
    BY <1>3, <2>1, <2>2 DEF Whole
  <2>4. f \in Engines
    BY <2>3 DEF Engines
  <2>5. /\ f.kind = g.kind /\ f.destroyed = g.destroyed /\ f.loop = g.loop /\ f.flights = g.flights
        /\ f.playing = g.playing /\ f.started = g.started /\ f.waiting = g.waiting /\ f.tick = g.tick
        /\ f.nodes = {}
    BY <2>3 DEF Engines
  <2>6. Whole(f) /\ Kin(e, f) /\ ~f.playing /\ ~f.started /\ f.waiting = e.waiting
    BY <2>2, <2>4, <2>5 DEF Whole, Kin
  <2> QED BY <2>6, SilentFollows
<1>4. CASE f = Scheduled(e)
  <2>1. /\ Whole(f) /\ Fires(f) /\ f.waiting = e.waiting
        /\ f.kind = e.kind /\ f.playing = e.playing /\ f.started = e.started /\ f.destroyed = e.destroyed
        /\ f.offset = e.offset /\ f.base = e.base /\ f.moved = e.moved /\ f.loop = e.loop
    BY <1>1, <1>4, ScheduledIs
  <2>2. Calls(f) = Calls(e)
    BY <2>1, SameCalls
  <2> QED BY <2>1, <2>2 DEF Follows, Kin, Mapped, Ticks, ClockReady
<1> QED BY <1>2, <1>3, <1>4 DEF TickBuffered

LEMMA TickChunkedIs ==
    ASSUME NEW e, Whole(e), e.kind = "chunked", e.playing, now \in Nat, hidden \in BOOLEAN,
           NEW f, f = TickChunked(e)
    PROVE  Follows(e, f)
<1>1. e \in Engines /\ ~e.destroyed
  BY DEF Whole
<1>2. PICK warm : warm = IF e.loop # Idle /\ e.loop.end - Playhead(e) < Lookahead
                         THEN Fetch(e, PinnedChunk(e)) ELSE e
  OBVIOUS
<1>3. Whole(warm) /\ Alike(e, warm) /\ warm.waiting = e.waiting
  <2>1. CASE e.loop # Idle /\ warm = Fetch(e, PinnedChunk(e))
    <3>1. PICK t \in Times : t = e.loop.start
      BY <1>1, <2>1 DEF Engines, Loops
    <3>2. PICK c \in Chunks : c = PinnedChunk(e)
      BY <2>1, <3>1, ChunkIs DEF PinnedChunk
    <3> QED BY <2>1, <3>2, FetchIs
  <2>2. CASE warm = e
    BY <2>2 DEF Alike
  <2> QED BY <1>2, <2>1, <2>2
<1>4. Calls(warm) = Calls(e) /\ Kin(e, warm) /\ warm.kind = "chunked" /\ warm.playing /\ ~warm.destroyed
  BY <1>1, <1>3, SameCalls DEF Alike, Kin
<1>5. \/ e.loop # Idle /\ f = Seek(warm, e.loop.start)
      \/ f = EndOfTrack(warm)
      \/ f = Scheduled(MaybeSchedule(warm))
  BY <1>2 DEF TickChunked
<1>6. CASE e.loop # Idle /\ f = Seek(warm, e.loop.start)
  <2>1. PICK t \in Times : t = e.loop.start
    BY <1>1, <1>6 DEF Engines, Loops
  <2>2. f = SeekChunked(warm, t)
    BY <1>4, <1>6, <2>1 DEF Seek
  <2>3. /\ Whole(f) /\ Ticks(f) /\ Kin(warm, f) /\ f.playing = warm.playing /\ (f.started => f.moved)
        /\ Calls(warm) \subseteq Calls(f) /\ Calls(f) \subseteq Calls(warm) \cup {0}
    BY <1>3, <1>4, <2>2, SeekChunkedIs
  <2> QED BY <1>3, <1>4, <2>3 DEF Follows, Kin, Mapped, ClockReady, Alike
<1>7. CASE f = EndOfTrack(warm)
  <2>1. Whole(f) /\ Kin(warm, f) /\ ~f.playing /\ ~f.started /\ f.waiting = warm.waiting
    BY <1>3, <1>7, EndOfTrackIs
  <2>2. Kin(e, f) /\ f.waiting = e.waiting
    BY <1>3, <1>4, <2>1 DEF Kin
  <2> QED BY <2>1, <2>2, SilentFollows
<1>8. CASE f = Scheduled(MaybeSchedule(warm))
  <2>1. PICK g : g = MaybeSchedule(warm)
    OBVIOUS
  <2>2. /\ Whole(g) /\ Kin(warm, g) /\ g.playing = warm.playing /\ g.started = warm.started
        /\ g.offset = warm.offset /\ g.base = warm.base /\ g.moved = warm.moved /\ Calls(g) = Calls(warm)
    BY <1>3, <1>4, <2>1, MaybeScheduleIs
  <2>3. f = Scheduled(g) /\ ~g.destroyed
    BY <1>4, <1>8, <2>1, <2>2 DEF Kin
  <2>4. /\ Whole(f) /\ Fires(f) /\ f.waiting = g.waiting
        /\ f.kind = g.kind /\ f.playing = g.playing /\ f.started = g.started /\ f.destroyed = g.destroyed
        /\ f.offset = g.offset /\ f.base = g.base /\ f.moved = g.moved /\ f.loop = g.loop
    BY <2>2, <2>3, ScheduledIs
  <2>5. Calls(f) = Calls(g)
    BY <2>4, SameCalls
  <2>6. Kin(e, f) /\ f.kind = "chunked"
    BY <1>4, <2>2, <2>4 DEF Kin
  <2>7. Ticks(f)
    BY <2>4, <2>6 DEF Ticks
  <2>8. Mapped(e, f)
    BY <1>3, <2>2, <2>4 DEF Mapped, ClockReady, Alike
  <2> QED BY <1>3, <1>4, <2>2, <2>4, <2>5, <2>6, <2>7, <2>8 DEF Follows, Alike
<1> QED BY <1>5, <1>6, <1>7, <1>8

LEMMA TickIs ==
    ASSUME NEW e, Whole(e), Ticks(e), now \in Nat, hidden \in BOOLEAN, NEW f, f = Tick(e)
    PROVE  Follows(e, f)
<1>1. e \in Engines
  BY DEF Whole
<1>2. PICK run : run = [e EXCEPT !.tick = Idle]
  OBVIOUS
<1>3. run \in Engines
  BY <1>1, <1>2 DEF Engines
<1>4. /\ run.kind = e.kind /\ run.destroyed = e.destroyed /\ run.loop = e.loop /\ run.flights = e.flights
      /\ run.playing = e.playing /\ run.started = e.started /\ run.waiting = e.waiting /\ run.tick = Idle
      /\ run.nodes = e.nodes /\ run.offset = e.offset /\ run.base = e.base /\ run.moved = e.moved
  BY <1>1, <1>2 DEF Engines
<1>5. Whole(run) /\ Kin(e, run) /\ Calls(run) = Calls(e)
  BY <1>3, <1>4, SameCalls DEF Whole, Kin
<1>6. CASE ~e.playing
  <2>1. f = run /\ ~f.playing /\ ~f.started
    BY <1>2, <1>4, <1>6 DEF Tick, Whole
  <2> QED BY <1>4, <1>5, <2>1, SilentFollows
<1>7. ASSUME Follows(run, f) PROVE Follows(e, f)
  BY <1>4, <1>5, <1>7 DEF Follows, Kin, Mapped, ClockReady
<1>8. CASE e.playing /\ e.kind = "buffered"
  <2>1. f = TickBuffered(run) /\ run.started /\ run.playing /\ run.kind = "buffered"
    BY <1>2, <1>4, <1>8 DEF Tick, Ticks
  <2> QED BY <1>5, <1>7, <2>1, TickBufferedIs
<1>9. CASE e.playing /\ e.kind # "buffered"
  <2>1. f = TickChunked(run) /\ run.playing /\ run.kind = "chunked"
    BY <1>1, <1>2, <1>4, <1>9 DEF Tick, Engines
  <2> QED BY <1>5, <1>7, <2>1, TickChunkedIs
<1> QED BY <1>6, <1>8, <1>9

(* A flight comes down.  The starts that wait for it wait on.              *)
LEMMA LandFlightIs ==
    ASSUME NEW e, Whole(e), Ticks(e), NEW f, NEW full, NEW g, g = LandFlight(e, f, full)
    PROVE  Follows(e, g)
<1>1. e \in Engines /\ IsFiniteSet(e.flights) /\ e.flights \in SUBSET Flights
      /\ e.waiting \in Seq(Waits) /\ e.cache \in [Chunks -> Nat \cup {Full}]
  BY DEF Whole, Engines
<1>2. PICK x \in Nat \cup {Full} : x = IF full THEN Full ELSE Absent
  BY DEF Absent
<1>3. PICK left : left = {k \in Chunks : k < f.chunk - 1 /\ k # PinnedChunk(e)}
                         \cup (IF full THEN {} ELSE {f.chunk})
  OBVIOUS
<1>4. PICK F : F = e.flights \ {f}
  OBVIOUS
<1>5. PICK old \in Seq(Waits) : old = e.waiting
  BY <1>1
<1>6. PICK W : W = [i \in DOMAIN old |-> IF old[i].flight = f.id THEN [old[i] EXCEPT !.flight = x]
                                         ELSE old[i]]
  OBVIOUS
<1>7. PICK K : K = [k \in Chunks |-> IF k \in left THEN Absent
                                     ELSE IF e.cache[k] = f.id THEN Full ELSE e.cache[k]]
  OBVIOUS
<1>8. g = [e EXCEPT !.flights = F, !.waiting = W, !.cache = K]
  <2>1. PICK y : y = [e EXCEPT !.flights = @ \ {f},
                 !.waiting = [i \in DOMAIN @ |->
                    IF @[i].flight = f.id THEN [@[i] EXCEPT !.flight = IF full THEN Full ELSE Absent]
                    ELSE @[i]],
                 !.cache = [k \in Chunks |-> IF k \in left THEN Absent
                                             ELSE IF @[k] = f.id THEN Full ELSE @[k]]]
    OBVIOUS
  <2>2. g = y
    BY <1>3, <2>1, Zenon DEF LandFlight
  <2>3. y = [e EXCEPT !.flights = F, !.waiting = W, !.cache = K]
    BY <1>1, <1>2, <1>4, <1>5, <1>6, <1>7, <2>1
  <2> QED BY <2>2, <2>3
<1>9. F \in SUBSET Flights /\ IsFiniteSet(F)
  BY <1>1, <1>4, FS_RemoveElement
<1>10. K \in [Chunks -> Nat \cup {Full}]
  BY <1>1, <1>7 DEF Absent
<1>11. PICK n \in Nat : DOMAIN old = 1..n
  <2>1. Len(old) \in Nat /\ DOMAIN old = 1..Len(old)
    BY LenProperties
  <2> QED BY <2>1
<1>12. \A i \in 1..n : W[i] \in Waits /\ W[i].what = old[i].what /\ W[i].call = old[i].call
  <2> SUFFICES ASSUME NEW i \in 1..n
               PROVE  W[i] \in Waits /\ W[i].what = old[i].what /\ W[i].call = old[i].call
    OBVIOUS
  <2>1. PICK o \in Waits : o = old[i]
    BY <1>11
  <2>2. PICK p : p = [o EXCEPT !.flight = x]
    OBVIOUS
  <2>3. p \in Waits /\ p.what = o.what /\ p.call = o.call
    BY <1>2, <2>1, <2>2 DEF Waits
  <2>4. W[i] = p \/ W[i] = o
    BY <1>6, <1>11, <2>1, <2>2
  <2> QED BY <2>1, <2>3, <2>4
<1>13. DOMAIN W = 1..n /\ W \in Seq(Waits)
  <2>1. DOMAIN W = 1..n /\ W \in [1..n -> Waits]
    BY <1>6, <1>11, <1>12
  <2> QED BY <2>1, SeqDef
<1>14. g \in Engines
  BY <1>1, <1>8, <1>9, <1>10, <1>13 DEF Engines
<1>15. /\ g.kind = e.kind /\ g.destroyed = e.destroyed /\ g.loop = e.loop /\ g.flights = F
       /\ g.playing = e.playing /\ g.started = e.started /\ g.tick = e.tick /\ g.nodes = e.nodes
       /\ g.offset = e.offset /\ g.base = e.base /\ g.moved = e.moved /\ g.waiting = W
  BY <1>1, <1>8 DEF Engines
<1>16. Calls(g) = Calls(e)
  <2>1. Fetching(g) = Fetching(e)
    BY <1>5, <1>11, <1>12, <1>13, <1>15 DEF Fetching
  <2>2. \A i \in Fetching(e) : g.waiting[i].call = e.waiting[i].call
    BY <1>5, <1>11, <1>12, <1>15 DEF Fetching
  <2> QED BY <2>1, <2>2 DEF Calls
<1> QED BY <1>9, <1>14, <1>15, <1>16 DEF Follows, Whole, Kin, Mapped, Ticks, ClockReady, Fires

(* What waited longest goes on.                                            *)
LEMMA DroppedIs ==
    ASSUME NEW e, Whole(e), ~Settled(e), NEW f, f = Dropped(e), NEW w, w = Next1(e)
    PROVE  /\ w \in Waits /\ w.flight \in {Full, Absent}
           /\ Whole(f) /\ Kin(e, f) /\ f.playing = e.playing /\ f.started = e.started /\ f.tick = e.tick
           /\ f.offset = e.offset /\ f.base = e.base /\ f.moved = e.moved
           /\ Calls(f) \subseteq Calls(e)
           /\ Calls(e) \subseteq Calls(f) \cup (IF w.what = "play" THEN {w.call} ELSE {})
           /\ w.what = "play" => w.call \in Calls(e)
<1>1. e \in Engines
  BY DEF Whole
<1>2. PICK q \in Seq(Waits) : q = e.waiting
  BY <1>1 DEF Engines
<1>3. PICK n \in Nat : n = Len(q) /\ DOMAIN q = 1..n
  <2>1. Len(q) \in Nat /\ DOMAIN q = 1..Len(q)
    BY LenProperties
  <2> QED BY <2>1
<1>4. PICK S : S = Landed(e)
  OBVIOUS
<1>5. S \in SUBSET Nat /\ S # {} /\ S \subseteq 1..n /\ \A i \in S : q[i].flight \in {Full, Absent}
  BY <1>2, <1>3, <1>4 DEF Landed, Settled
<1>6. PICK i \in S : i = Min(S)
  BY <1>5, LeastIn
<1>7. i \in 1..n /\ w = q[i] /\ w \in Waits /\ w.flight \in {Full, Absent}
  BY <1>2, <1>3, <1>4, <1>5, <1>6 DEF Next1
<1>8. PICK r : r = RemoveAt(q, i)
  OBVIOUS
<1>9. /\ r \in Seq(Waits) /\ Len(r) = n - 1
      /\ \A k \in 1..(n - 1) : r[k] = IF k < i THEN q[k] ELSE q[k + 1]
  BY <1>3, <1>7, <1>8, RemoveAtShape
<1>10. f = [e EXCEPT !.waiting = r]
  <2>1. r = SubSeq(q, 1, i - 1) \o SubSeq(q, i + 1, Len(q))
    BY <1>8 DEF RemoveAt
  <2>2. f = [e EXCEPT !.waiting = SubSeq(@, 1, i - 1) \o SubSeq(@, i + 1, Len(@))]
    BY <1>4, <1>6, Zenon DEF Dropped
  <2> QED BY <1>1, <1>2, <2>1, <2>2 DEF Engines
<1>11. f \in Engines
  BY <1>1, <1>9, <1>10 DEF Engines
<1>12. /\ f.kind = e.kind /\ f.destroyed = e.destroyed /\ f.loop = e.loop /\ f.flights = e.flights
       /\ f.playing = e.playing /\ f.started = e.started /\ f.tick = e.tick /\ f.nodes = e.nodes
       /\ f.offset = e.offset /\ f.base = e.base /\ f.moved = e.moved /\ f.waiting = r
  BY <1>1, <1>10 DEF Engines
<1>13. DOMAIN r = 1..(n - 1)
  BY <1>9, LenProperties
<1>14. Calls(f) \subseteq Calls(e)
  <2>1. \A k \in 1..(n - 1) : \E m \in 1..n : r[k] = q[m]
    BY <1>3, <1>7, <1>9
  <2> QED BY <1>2, <1>3, <1>12, <1>13, <2>1 DEF Calls, Fetching
<1>15. \A m \in 1..n : m = i \/ \E k \in 1..(n - 1) : r[k] = q[m]
  <2> SUFFICES ASSUME NEW m \in 1..n, m # i PROVE \E k \in 1..(n - 1) : r[k] = q[m]
    OBVIOUS
  <2>1. CASE m < i
    <3>1. m \in 1..(n - 1) /\ r[m] = q[m]
      BY <1>7, <1>9, <2>1
    <3> QED BY <3>1
  <2>2. CASE m > i
    <3>1. PICK k \in 1..(n - 1) : k = m - 1 /\ ~(k < i) /\ k + 1 = m
      BY <1>7, <2>2
    <3>2. r[k] = q[m]
      BY <1>9, <3>1
    <3> QED BY <3>2
  <2> QED BY <1>7, <2>1, <2>2
<1>16. Calls(e) \subseteq Calls(f) \cup (IF w.what = "play" THEN {w.call} ELSE {})
  <2> SUFFICES ASSUME NEW m \in 1..n, q[m].what = "play"
               PROVE  q[m].call \in Calls(f) \cup (IF w.what = "play" THEN {w.call} ELSE {})
    BY <1>2, <1>3 DEF Calls, Fetching
  <2>1. CASE m = i
    BY <1>7, <2>1
  <2>2. ASSUME NEW k \in 1..(n - 1), r[k] = q[m] PROVE q[m].call \in Calls(f)
    <3>1. k \in Fetching(f) /\ f.waiting[k].call = q[m].call
      BY <1>12, <1>13, <2>2 DEF Fetching
    <3> QED BY <3>1 DEF Calls
  <2> QED BY <1>15, <2>1, <2>2
<1>17. w.what = "play" => w.call \in Calls(e)
  BY <1>2, <1>3, <1>7 DEF Calls, Fetching
<1>18. Whole(f) /\ Kin(e, f)
  BY <1>11, <1>12 DEF Whole, Kin
<1> QED BY <1>7, <1>12, <1>14, <1>16, <1>17, <1>18

LEMMA ResumeIs ==
    ASSUME NEW e, Whole(e), Ticks(e), ~Settled(e), now \in Nat, hidden \in BOOLEAN,
           NEW f, f = Resume(e), NEW w, w = Next1(e)
    PROVE  /\ w \in Waits
           /\ Whole(f) /\ Ticks(f) /\ Kin(e, f) /\ Mapped(e, f) /\ f.playing = e.playing
           /\ Calls(f) \subseteq Calls(e)
           /\ Calls(e) \subseteq Calls(f) \cup (IF w.what = "play" THEN {w.call} ELSE {})
           /\ w.what = "play" => w.call \in Calls(e)
<1>1. PICK rest : rest = Dropped(e)
  OBVIOUS
<1>2. PICK full : full = (w.flight = Full)
  OBVIOUS
<1>3. /\ w \in Waits
      /\ Whole(rest) /\ Kin(e, rest) /\ rest.playing = e.playing /\ rest.started = e.started
      /\ rest.tick = e.tick /\ rest.offset = e.offset /\ rest.base = e.base /\ rest.moved = e.moved
      /\ Calls(rest) \subseteq Calls(e)
      /\ Calls(e) \subseteq Calls(rest) \cup (IF w.what = "play" THEN {w.call} ELSE {})
      /\ w.what = "play" => w.call \in Calls(e)
  BY <1>1, DroppedIs
<1>4. f = IF w.what = "play"
          THEN IF StartHeld(e) THEN StartWith(rest, w.chunk, w.within, w.lead, full) ELSE rest
          ELSE IF e.playing /\ ~e.destroyed /\ full THEN HangNext([rest EXCEPT !.filling = FALSE], w.chunk)
               ELSE [rest EXCEPT !.filling = FALSE]
  BY <1>1, <1>2, Zenon DEF Resume
<1>5. w.chunk \in Chunks /\ w.within \in 0..(Chunk - 1) /\ w.lead \in Nat
  BY <1>3 DEF Waits
<1>6. CASE f = rest
  BY <1>3, <1>6 DEF Ticks, Mapped, Kin, ClockReady, Fires
<1>7. CASE StartHeld(e) /\ f = StartWith(rest, w.chunk, w.within, w.lead, full)
  <2>1. rest.playing
    BY <1>3, <1>7 DEF StartHeld
  <2>2. PICK c \in Chunks, i \in 0..(Chunk - 1), lead \in Nat : c = w.chunk /\ i = w.within /\ lead = w.lead
    BY <1>5
  <2>3. /\ Whole(f) /\ f.playing /\ f.started /\ f.moved /\ Fires(f) /\ Kin(rest, f)
        /\ f.waiting = rest.waiting
    BY <1>3, <1>7, <2>1, <2>2, StartWithIs
  <2>4. Calls(f) = Calls(rest)
    BY <2>3, SameCalls
  <2>5. f.playing = e.playing
    <3>1. e.playing = TRUE /\ f.playing = TRUE
      BY <1>7, <2>3 DEF StartHeld, Whole, Engines
    <3> QED BY <3>1
  <2> QED BY <1>3, <2>3, <2>4, <2>5 DEF Ticks, Mapped, Kin
<1>8. PICK free : free = [rest EXCEPT !.filling = FALSE]
  OBVIOUS
<1>9. rest \in Engines
  BY <1>3 DEF Whole
<1>10. free \in Engines
  BY <1>8, <1>9 DEF Engines
<1>11. /\ free.kind = rest.kind /\ free.destroyed = rest.destroyed /\ free.loop = rest.loop
       /\ free.flights = rest.flights /\ free.playing = rest.playing /\ free.started = rest.started
       /\ free.tick = rest.tick /\ free.nodes = rest.nodes /\ free.offset = rest.offset
       /\ free.base = rest.base /\ free.moved = rest.moved /\ free.waiting = rest.waiting
  BY <1>8, <1>9 DEF Engines
<1>12. Whole(free) /\ Calls(free) = Calls(rest)
  BY <1>3, <1>10, <1>11, SameCalls DEF Whole
<1>13. CASE f = free
  BY <1>3, <1>11, <1>12, <1>13 DEF Ticks, Mapped, Kin, ClockReady, Fires
<1>14. CASE ~e.destroyed /\ f = HangNext(free, w.chunk)
  <2>1. PICK c \in Chunks : c = w.chunk
    BY <1>5
  <2>2. ~free.destroyed
    BY <1>3, <1>11, <1>14 DEF Kin
  <2>3. /\ Whole(f) /\ Kin(free, f) /\ f.playing = free.playing /\ f.started = free.started
        /\ f.tick = free.tick /\ f.offset = free.offset /\ f.base = free.base /\ f.moved = free.moved
        /\ f.waiting = free.waiting
    BY <1>12, <1>14, <2>1, <2>2, HangNextIs
  <2>4. Calls(f) = Calls(rest)
    BY <1>12, <2>3, SameCalls
  <2> QED BY <1>3, <1>11, <2>3, <2>4 DEF Ticks, Mapped, Kin, ClockReady, Fires
<1> QED BY <1>4, <1>6, <1>7, <1>8, <1>13, <1>14

(* The tab is hidden or shown.                                             *)
LEMMA OnHiddenIs ==
    ASSUME NEW e, Whole(e), NEW f, f = OnHidden(e)
    PROVE  /\ Whole(f) /\ Kin(e, f) /\ f.playing = e.playing /\ f.started = e.started
           /\ f.offset = e.offset /\ f.base = e.base /\ f.moved = e.moved /\ f.waiting = e.waiting
           /\ f.tick = IF e.tick = "frame" THEN "timeout" ELSE e.tick
<1>1. e \in Engines
  BY DEF Whole
<1>2. CASE e.tick = "frame"
  <2>1. f = [e EXCEPT !.tick = "timeout"]
    BY <1>2 DEF OnHidden
  <2>2. f \in Engines
    BY <1>1, <2>1 DEF Engines
  <2>3. /\ f.kind = e.kind /\ f.destroyed = e.destroyed /\ f.loop = e.loop /\ f.flights = e.flights
        /\ f.playing = e.playing /\ f.started = e.started /\ f.tick = "timeout" /\ f.nodes = e.nodes
        /\ f.offset = e.offset /\ f.base = e.base /\ f.moved = e.moved /\ f.waiting = e.waiting
    BY <1>1, <2>1 DEF Engines
  <2>4. ~e.destroyed
    BY <1>2, EngineAssumption DEF Whole
  <2> QED BY <1>2, <2>2, <2>3, <2>4 DEF Whole, Kin
<1>3. CASE e.tick # "frame"
  BY <1>3 DEF OnHidden, Whole, Kin
<1> QED BY <1>2, <1>3

(* The loop is set.                                                        *)
LEMMA LoopedIs ==
    ASSUME NEW e, Whole(e), NEW loop \in {Idle} \cup Loops, NEW f, f = [e EXCEPT !.loop = loop]
    PROVE  /\ Whole(f) /\ f.kind = e.kind /\ f.destroyed = e.destroyed
           /\ f.playing = e.playing /\ f.started = e.started /\ f.tick = e.tick
           /\ f.offset = e.offset /\ f.base = e.base /\ f.moved = e.moved /\ f.waiting = e.waiting
<1>1. e \in Engines
  BY DEF Whole
<1>2. f \in Engines
  BY <1>1 DEF Engines
<1>3. /\ f.kind = e.kind /\ f.destroyed = e.destroyed /\ f.flights = e.flights
      /\ f.playing = e.playing /\ f.started = e.started /\ f.tick = e.tick /\ f.nodes = e.nodes
      /\ f.offset = e.offset /\ f.base = e.base /\ f.moved = e.moved /\ f.waiting = e.waiting
  BY <1>1 DEF Engines
<1> QED BY <1>2, <1>3 DEF Whole

(* The metronome has looked at the mapping.                                *)
LEMMA LookedAtIs ==
    ASSUME NEW e, Whole(e), NEW f, f = [e EXCEPT !.moved = FALSE]
    PROVE  /\ Whole(f) /\ Kin(e, f)
           /\ f.playing = e.playing /\ f.started = e.started /\ f.tick = e.tick
           /\ f.offset = e.offset /\ f.base = e.base /\ f.waiting = e.waiting
<1>1. e \in Engines
  BY DEF Whole
<1>2. f \in Engines
  BY <1>1 DEF Engines
<1>3. /\ f.kind = e.kind /\ f.destroyed = e.destroyed /\ f.flights = e.flights /\ f.loop = e.loop
      /\ f.playing = e.playing /\ f.started = e.started /\ f.tick = e.tick /\ f.nodes = e.nodes
      /\ f.offset = e.offset /\ f.base = e.base /\ f.waiting = e.waiting
  BY <1>1 DEF Engines
<1> QED BY <1>2, <1>3 DEF Whole, Kin

(* Audio that has been heard out goes.                                     *)
LEMMA HeardOutIs ==
    ASSUME NEW e, Whole(e), NEW N \in SUBSET e.nodes, NEW f, f = [e EXCEPT !.nodes = N]
    PROVE  /\ Whole(f) /\ Kin(e, f)
           /\ f.playing = e.playing /\ f.started = e.started /\ f.tick = e.tick
           /\ f.offset = e.offset /\ f.base = e.base /\ f.moved = e.moved /\ f.waiting = e.waiting
<1>1. e \in Engines /\ N \in SUBSET AudioNodes
  BY DEF Whole, Engines
<1>2. f \in Engines
  BY <1>1 DEF Engines
<1>3. /\ f.kind = e.kind /\ f.destroyed = e.destroyed /\ f.flights = e.flights /\ f.loop = e.loop
      /\ f.playing = e.playing /\ f.started = e.started /\ f.tick = e.tick /\ f.nodes = N
      /\ f.offset = e.offset /\ f.base = e.base /\ f.moved = e.moved /\ f.waiting = e.waiting
  BY <1>1 DEF Engines
<1> QED BY <1>2, <1>3 DEF Whole, Kin

(* The engine at the start.                                                *)
LEMMA FreshEngineIs ==
    ASSUME NEW kind \in {"chunked", "buffered"}, NEW e, e = FreshEngine(kind)
    PROVE  Whole(e) /\ e.flights = {} /\ e.waiting = <<>> /\ ~e.playing /\ ~e.started /\ ~e.destroyed
<1>1. e \in Engines /\ e.flights = {} /\ e.waiting = <<>> /\ ~e.playing /\ ~e.started /\ ~e.destroyed
  <2>1. 0 \in Times /\ 0 \in Nat /\ 0 \in Int /\ Absent \in Nat
    BY EngineAssumption DEF Times, Absent
  <2>2. PICK k : k = [c \in Chunks |-> Absent]
    OBVIOUS
  <2>3. k \in [Chunks -> Nat \cup {Full}]
    BY <2>1, <2>2
  <2>4. PICK list \in Seq(Waits) : list = <<>>
    <3>1. <<>> \in Seq(Waits)
      BY EmptySeq
    <3> QED BY <3>1
  <2>5. e = [kind |-> kind, playing |-> FALSE, started |-> FALSE, destroyed |-> FALSE,
             offset |-> 0, base |-> 0, upTo |-> 0, filling |-> FALSE, moved |-> FALSE,
             loop |-> Idle, tick |-> Idle, nodes |-> {}, waiting |-> list,
             cache |-> k, flights |-> {}]
    BY <2>2, <2>4 DEF FreshEngine
  <2> QED BY <2>1, <2>3, <2>4, <2>5 DEF Engines
<1> QED BY <1>1, FS_EmptySet DEF Whole

LEMMA ReadyIs ==
    ASSUME NEW kind \in {"chunked", "buffered"}, NEW r, r = ReadyEngine(kind)
    PROVE  Whole(r) /\ ~r.playing /\ ~r.started /\ ~r.destroyed /\ r.waiting = <<>>
<1>1. PICK e : e = FreshEngine(kind)
  OBVIOUS
<1>2. Whole(e) /\ e.waiting = <<>> /\ ~e.playing /\ ~e.started /\ ~e.destroyed
  BY <1>1, FreshEngineIs
<1>3. Length \div Chunk >= 1
  <2>1. Length \in Nat \ {0} /\ Chunk \in Nat \ {0} /\ Length % Chunk = 0
    BY EngineAssumption
  <2> QED BY <2>1
<1>4. PICK a \in Chunks, z \in Chunks : z = 0 /\ a = 1
  BY <1>3, PastEndIs DEF Chunks, PastEnd
<1>5. PICK g : g = Fetch(e, z)
  OBVIOUS
<1>6. Whole(g) /\ Alike(e, g) /\ g.waiting = e.waiting
  BY <1>2, <1>5, FetchIs
<1>7. PICK h : h = Fetch(g, a)
  OBVIOUS
<1>8. Whole(h) /\ Alike(g, h) /\ h.waiting = g.waiting
  BY <1>6, <1>7, FetchIs
<1>9. r = e \/ r = h
  BY <1>1, <1>4, <1>5, <1>7 DEF ReadyEngine
<1> QED BY <1>2, <1>6, <1>8, <1>9 DEF Alike

LEMMA ReadyEngineIs ==
    ASSUME NEW kind \in {"chunked", "buffered"}, NEW loop \in {Idle} \cup Loops,
           NEW f, f = [ReadyEngine(kind) EXCEPT !.loop = loop]
    PROVE  Whole(f) /\ ~f.playing /\ ~f.started /\ ~f.destroyed /\ Calls(f) = {}
<1>1. PICK r : r = ReadyEngine(kind)
  OBVIOUS
<1>2. Whole(r) /\ ~r.playing /\ ~r.started /\ ~r.destroyed /\ r.waiting = <<>>
  BY <1>1, ReadyIs
<1>3. /\ Whole(f) /\ f.playing = r.playing /\ f.started = r.started /\ f.destroyed = r.destroyed
      /\ f.waiting = r.waiting
  BY <1>1, <1>2, LoopedIs
<1>4. Calls(f) = {}
  BY <1>2, <1>3 DEF Calls, Fetching
<1> QED BY <1>2, <1>3, <1>4

Scenes ==
    [kind : {"chunked", "buffered"}, gestures : Int, losses : Int, until : Nat,
     does : SUBSET {"go", "pause", "stop", "seek", "count", "loop", "speed", "click", "hide", "leave"},
     loop : {Idle} \cup Loops, places : SUBSET Times, pressed : {"play", "stop"}]
Starts == [from : Times, generation : Nat]
Clicks == [at : Int, beat : Nat]
Metros == [on : BOOLEAN, synced : BOOLEAN, cursor : Nat, queued : SUBSET Clicks]

TransportTypes ==
    /\ now \in Nat /\ hidden \in BOOLEAN /\ generation \in Nat
    /\ play \in Scenes /\ starts \in Seq(Starts) /\ metro \in Metros

(* A start is overtaken by the next one and by a pause or a stop.          *)
StartsAreNumbered ==
    /\ Calls(engine) \subseteq 0..Len(starts)
    /\ \A i \in DOMAIN starts :
          /\ starts[i].generation <= generation
          /\ starts[i].generation = generation => i = Len(starts) /\ play.pressed = "play"

(* What counts in was asked for by the last of them.                       *)
CountsForTheLast ==
    /\ counted # {} => starts # <<>> /\ starts[Len(starts)].generation = generation
    /\ "count" \notin play.does => starts = <<>> /\ counted = {}
    /\ \A q \in counted :
          q.start # starts[Len(starts)].from => ~engine.playing \/ Len(starts) \in Calls(engine)

SilencedWithIt ==
    /\ hung = engine.destroyed
    /\ hung => counted = {} /\ ~metro.on /\ metro.queued = {}

TransportInv ==
    /\ TransportTypes /\ Whole(engine) /\ Ticks(engine)
    /\ StartsAreNumbered /\ CountsForTheLast /\ SilencedWithIt /\ ClicksKeepTheClock

LEMMA TransportHolds == ASSUME TransportInv PROVE SoundFollowsTransport
<1>1. TicksOn
  BY DEF TransportInv, TicksOn, Ticks
<1>2. DestroyedIsSilent
  BY DEF TransportInv, DestroyedIsSilent, SilencedWithIt, Whole
<1>3. \A n : StillFetched(n) <=> n \in Calls(engine)
  BY DEF StillFetched, Calls, Fetching
<1>4. CountInIsCurrent
  <2>1. SUFFICES ASSUME NEW q \in counted
                 PROVE  /\ play.pressed = "play"
                        /\ q.start # starts[Len(starts)].from =>
                              ~engine.playing \/ Len(starts) \in Calls(engine)
    BY <1>3 DEF CountInIsCurrent
  <2>2. starts # <<>> /\ starts[Len(starts)].generation = generation
    BY DEF TransportInv, CountsForTheLast
  <2>3. Len(starts) \in DOMAIN starts
    <3>1. PICK list \in Seq(Starts) : list = starts
      BY DEF TransportInv, TransportTypes
    <3>2. Len(list) \in DOMAIN list
      BY <2>2, <3>1
    <3> QED BY <3>1, <3>2
  <2>4. play.pressed = "play"
    BY <2>2, <2>3 DEF TransportInv, StartsAreNumbered
  <2> QED BY <2>4 DEF TransportInv, CountsForTheLast
<1> QED BY <1>1, <1>2, <1>4 DEF SoundFollowsTransport, TransportInv

(* What a gesture does to the scene.                                       *)
LEMMA GestureIs ==
    ASSUME NEW what, Gesture(what), play \in Scenes
    PROVE  /\ play' \in Scenes /\ play'.does = play.does /\ what \in play.does
           /\ what = "go" => play'.pressed = "play"
           /\ what \notin {"go", "pause", "stop"} => play'.pressed = play.pressed
<1>1. PICK x : x = CASE what = "go" -> "play" [] what \in {"pause", "stop"} -> "stop"
                     [] OTHER -> play.pressed
  OBVIOUS
<1>2. x \in {"play", "stop"} /\ (what = "go" => x = "play")
      /\ (what \notin {"go", "pause", "stop"} => x = play.pressed)
  BY <1>1 DEF Scenes
<1>3. PICK n \in Int : n = play.gestures - 1
  BY DEF Scenes
<1>4. play' = [play EXCEPT !.gestures = n, !.pressed = x]
  BY <1>1, <1>3 DEF Gesture, Scenes
<1>5. play' \in Scenes /\ play'.does = play.does /\ play'.pressed = x
  BY <1>2, <1>4 DEF Scenes
<1> QED BY <1>2, <1>5 DEF Gesture

(* A step of the engine under an unchanged schedule of starts.             *)
LEMMA EngineMoves ==
    ASSUME TransportInv, now' \in Nat, hidden' \in BOOLEAN, Whole(engine'), Ticks(engine)',
           engine'.destroyed = engine.destroyed, Mapped(engine, engine'),
           engine'.playing => engine.playing,
           Calls(engine) \subseteq Calls(engine'), Calls(engine') \subseteq Calls(engine) \cup {0},
           UNCHANGED <<generation, starts, hung>>,
           play' \in Scenes, play'.does = play.does, play'.pressed = play.pressed,
           counted' \subseteq counted,
           metro' \in Metros, metro'.on = metro.on, metro'.synced = metro.synced,
           metro'.queued \subseteq metro.queued
    PROVE  TransportInv'
<1>1. TransportTypes'
  BY DEF TransportInv, TransportTypes
<1>2. PICK n \in Nat : n = Len(starts)
  BY DEF TransportInv, TransportTypes
<1>3. Calls(engine)' = Calls(engine')
  BY DEF Calls, Fetching
<1>4. StartsAreNumbered'
  BY <1>2, <1>3 DEF TransportInv, StartsAreNumbered
<1>5. CountsForTheLast'
  BY <1>3 DEF TransportInv, CountsForTheLast
<1>6. SilencedWithIt'
  BY DEF TransportInv, SilencedWithIt
<1>7. ClicksKeepTheClock'
  <2> SUFFICES ASSUME ClockReady(engine'), metro'.synced, ~engine'.moved, NEW q \in metro'.queued
               PROVE  q.at = SourceToCtx(engine', q.beat)
    BY DEF ClicksKeepTheClock, SourceToCtx, ClockReady
  <2>1. ClockReady(engine) /\ engine'.base = engine.base /\ engine'.offset = engine.offset
        /\ ~engine.moved
    BY DEF Mapped
  <2>2. q.at = SourceToCtx(engine, q.beat)
    BY <2>1 DEF TransportInv, ClicksKeepTheClock
  <2> QED BY <2>1, <2>2 DEF SourceToCtx
<1>8. Whole(engine)'
  BY DEF Whole
<1> QED BY <1>1, <1>4, <1>5, <1>6, <1>7, <1>8 DEF TransportInv

LEMMA EngineFollows ==
    ASSUME TransportInv, now' = now, hidden' = hidden, Follows(engine, engine'),
           UNCHANGED <<generation, starts, hung, counted, metro>>,
           play' \in Scenes, play'.does = play.does, play'.pressed = play.pressed
    PROVE  TransportInv'
<1>1. now' \in Nat /\ hidden' \in BOOLEAN /\ metro' \in Metros
  BY DEF TransportInv, TransportTypes
<1>2. Ticks(engine)'
  BY DEF Follows, Ticks, ClockReady, Fires
<1>3. /\ Whole(engine') /\ engine'.destroyed = engine.destroyed /\ Mapped(engine, engine')
      /\ (engine'.playing => engine.playing)
      /\ Calls(engine) \subseteq Calls(engine') /\ Calls(engine') \subseteq Calls(engine) \cup {0}
  BY DEF Follows, Kin
<1> QED BY <1>1, <1>2, <1>3, EngineMoves

(* A step that leaves the engine silent and nothing counting in.           *)
LEMMA Silences ==
    ASSUME TransportInv, UNCHANGED <<now, hidden, starts>>, Whole(engine'), ~engine'.playing,
           Calls(engine') \subseteq Calls(engine) \cup {0},
           \/ generation' = generation + 1
           \/ generation' = generation /\ play'.pressed = play.pressed,
           play' \in Scenes, play'.does = play.does, counted' = {}, metro' \in Metros,
           hung' = engine'.destroyed, hung' => ~metro'.on /\ metro'.queued = {}
    PROVE  TransportInv'
<1>1. TransportTypes'
  BY DEF TransportInv, TransportTypes
<1>2. PICK n \in Nat : n = Len(starts)
  BY DEF TransportInv, TransportTypes
<1>3. Calls(engine)' = Calls(engine')
  BY DEF Calls, Fetching
<1>4. StartsAreNumbered'
  <2>1. Calls(engine)' \subseteq 0..Len(starts')
    BY <1>2, <1>3 DEF TransportInv, StartsAreNumbered
  <2>2. ASSUME NEW i \in DOMAIN starts'
        PROVE  /\ starts'[i].generation <= generation'
               /\ starts'[i].generation = generation' => i = Len(starts') /\ play'.pressed = "play"
    <3>1. i \in DOMAIN starts /\ starts'[i] = starts[i]
      BY <2>2
    <3>2. PICK g \in Nat, k \in Nat : g = starts[i].generation /\ k = generation
      <4>1. starts[i] \in Starts /\ generation \in Nat
        BY <3>1, ElementOfSeq, LenProperties DEF TransportInv, TransportTypes
      <4> QED BY <4>1 DEF Starts
    <3>3. g <= k /\ (g = k => i = Len(starts) /\ play.pressed = "play")
      BY <3>1, <3>2 DEF TransportInv, StartsAreNumbered
    <3> QED BY <3>1, <3>2, <3>3
  <2> QED BY <2>1, <2>2 DEF StartsAreNumbered
<1>5. CountsForTheLast'
  BY DEF TransportInv, CountsForTheLast
<1>6. SilencedWithIt'
  BY DEF SilencedWithIt
<1>7. ClicksKeepTheClock'
  BY DEF ClicksKeepTheClock, ClockReady
<1>8. Whole(engine)' /\ Ticks(engine)'
  BY DEF Whole, Ticks, ClockReady
<1> QED BY <1>1, <1>4, <1>5, <1>6, <1>7, <1>8 DEF TransportInv

LEMMA PressPauseKeeps == ASSUME TransportInv, PressPause PROVE TransportInv'
<1>1. Whole(engine) /\ now \in Nat /\ play \in Scenes /\ metro \in Metros /\ hung = engine.destroyed
  BY DEF TransportInv, TransportTypes, SilencedWithIt
<1>2. /\ Gesture("pause") /\ engine.playing /\ engine' = Pause(engine)
      /\ generation' = generation + 1 /\ counted' = {}
      /\ UNCHANGED <<now, hidden, metro, starts, hung>>
  BY DEF PressPause, DropCountIn
<1>3. play' \in Scenes /\ play'.does = play.does
  BY <1>1, <1>2, GestureIs
<1>4. Whole(engine') /\ Kin(engine, engine') /\ ~engine'.playing /\ engine'.waiting = engine.waiting
  BY <1>1, <1>2, PauseIs
<1>5. Calls(engine') = Calls(engine) /\ ~engine.destroyed
  BY <1>1, <1>2, <1>4, SameCalls DEF Whole
<1> QED BY <1>1, <1>2, <1>3, <1>4, <1>5, Silences DEF Kin

LEMMA PressStopKeeps == ASSUME TransportInv, PressStop PROVE TransportInv'
<1>1. Whole(engine) /\ now \in Nat /\ hidden \in BOOLEAN /\ play \in Scenes /\ metro \in Metros
      /\ hung = engine.destroyed /\ (hung => ~metro.on /\ metro.queued = {})
  BY DEF TransportInv, TransportTypes, SilencedWithIt
<1>2. /\ Gesture("stop")
      /\ engine' = Seek(Pause(engine), IF engine.loop # Idle THEN engine.loop.start ELSE 0)
      /\ generation' = generation + 1 /\ counted' = {}
      /\ UNCHANGED <<now, hidden, metro, starts, hung>>
  BY DEF PressStop, DropCountIn
<1>3. play' \in Scenes /\ play'.does = play.does
  BY <1>1, <1>2, GestureIs
<1>4. PICK p : p = Pause(engine)
  OBVIOUS
<1>5. Whole(p) /\ Kin(engine, p) /\ ~p.playing /\ ~p.started /\ p.waiting = engine.waiting
  BY <1>1, <1>4, PauseIs
<1>6. PICK t \in Times : t = IF engine.loop # Idle THEN engine.loop.start ELSE 0
  <2>1. 0 \in Times
    BY EngineAssumption DEF Times
  <2>2. engine.loop # Idle => engine.loop.start \in Times
    BY <1>1 DEF Whole, Engines, Loops
  <2> QED BY <2>1, <2>2
<1>7. engine' = Seek(p, t) /\ Ticks(p)
  BY <1>2, <1>4, <1>5, <1>6 DEF Ticks, ClockReady
<1>8. Follows(p, engine') /\ Calls(p) = Calls(engine)
  BY <1>1, <1>5, <1>7, SeekIs, SameCalls
<1>9. Whole(engine') /\ ~engine'.playing /\ Calls(engine') \subseteq Calls(engine) \cup {0}
      /\ engine'.destroyed = engine.destroyed
  BY <1>5, <1>8 DEF Follows, Kin
<1> QED BY <1>1, <1>2, <1>3, <1>9, Silences

LEMMA LeaveKeeps == ASSUME TransportInv, Teardown PROVE TransportInv'
<1>1. Whole(engine) /\ now \in Nat /\ play \in Scenes
  BY DEF TransportInv, TransportTypes
<1>2. /\ Gesture("leave") /\ engine' = DestroyEngine(engine) /\ metro' = FreshMetro /\ counted' = {}
      /\ hung' = TRUE /\ UNCHANGED <<now, hidden, generation, starts>>
  BY DEF Teardown
<1>3. play' \in Scenes /\ play'.does = play.does /\ play'.pressed = play.pressed
  BY <1>1, <1>2, GestureIs
<1>4. Whole(engine') /\ engine'.destroyed /\ ~engine'.playing /\ engine'.waiting = engine.waiting
  BY <1>1, <1>2, DestroyEngineIs
<1>5. Calls(engine') = Calls(engine)
  BY <1>4, SameCalls
<1>6. metro' \in Metros /\ ~metro'.on /\ metro'.queued = {}
  BY <1>2 DEF FreshMetro, Metros
<1>7. engine'.destroyed = TRUE
  BY <1>4 DEF Whole, Engines
<1> QED BY <1>2, <1>3, <1>4, <1>5, <1>6, <1>7, Silences

LEMMA ClickRulerKeeps == ASSUME TransportInv, NEW t \in 0..Length, ClickRuler(t) PROVE TransportInv'
<1>1. Whole(engine) /\ Ticks(engine) /\ now \in Nat /\ hidden \in BOOLEAN /\ play \in Scenes
  BY DEF TransportInv, TransportTypes
<1>2. /\ Gesture("seek") /\ engine' = Seek(engine, t) /\ t \in Times
      /\ UNCHANGED <<now, hidden, generation, counted, metro, starts, hung>>
  BY DEF ClickRuler, Times
<1>3. play' \in Scenes /\ play'.does = play.does /\ play'.pressed = play.pressed
  BY <1>1, <1>2, GestureIs
<1>4. Follows(engine, engine')
  BY <1>1, <1>2, SeekIs
<1> QED BY <1>2, <1>3, <1>4, EngineFollows

LEMMA ApplySpeedKeeps == ASSUME TransportInv, ApplySpeed PROVE TransportInv'
<1>1. Whole(engine) /\ Ticks(engine) /\ now \in Nat /\ hidden \in BOOLEAN /\ play \in Scenes
  BY DEF TransportInv, TransportTypes
<1>2. /\ Gesture("speed") /\ engine' = SetPlaybackRate(engine)
      /\ UNCHANGED <<now, hidden, generation, counted, metro, starts, hung>>
  BY DEF ApplySpeed
<1>3. play' \in Scenes /\ play'.does = play.does /\ play'.pressed = play.pressed
  BY <1>1, <1>2, GestureIs
<1>4. Follows(engine, engine')
  BY <1>1, <1>2, SetPlaybackRateIs
<1> QED BY <1>2, <1>3, <1>4, EngineFollows

LEMMA TickLoopKeeps == ASSUME TransportInv, TickLoop PROVE TransportInv'
<1>1. Whole(engine) /\ Ticks(engine) /\ now \in Nat /\ hidden \in BOOLEAN /\ play \in Scenes
  BY DEF TransportInv, TransportTypes
<1>2. engine' = Tick(engine) /\ UNCHANGED <<now, hidden, generation, counted, metro, starts, play, hung>>
  BY DEF TickLoop
<1>3. Follows(engine, engine')
  BY <1>1, <1>2, TickIs
<1> QED BY <1>1, <1>2, <1>3, EngineFollows

LEMMA LandKeeps == ASSUME TransportInv, NEW f, Land(f) PROVE TransportInv'
<1>1. Whole(engine) /\ Ticks(engine) /\ play \in Scenes
  BY DEF TransportInv, TransportTypes
<1>2. engine' = LandFlight(engine, f, f.chunk # PastEnd)
      /\ UNCHANGED <<now, hidden, generation, counted, metro, starts, play, hung>>
  BY DEF Land
<1>3. Follows(engine, engine')
  BY <1>1, <1>2, LandFlightIs
<1> QED BY <1>1, <1>2, <1>3, EngineFollows

LEMMA LoseFlightKeeps == ASSUME TransportInv, NEW f, LoseFlight(f) PROVE TransportInv'
<1>1. Whole(engine) /\ Ticks(engine) /\ play \in Scenes
  BY DEF TransportInv, TransportTypes
<1>2. engine' = LandFlight(engine, f, FALSE) /\ play' = [play EXCEPT !.losses = @ - 1]
      /\ UNCHANGED <<now, hidden, generation, counted, metro, starts, hung>>
  BY DEF LoseFlight
<1>3. PICK full : full = FALSE
  OBVIOUS
<1>4. Follows(engine, engine')
  BY <1>1, <1>2, <1>3, LandFlightIs
<1>5. play' \in Scenes /\ play'.does = play.does /\ play'.pressed = play.pressed
  BY <1>1, <1>2 DEF Scenes
<1> QED BY <1>2, <1>4, <1>5, EngineFollows

LEMMA SpansAreLoops == Spans \subseteq {Idle} \cup Loops
<1>1. Length \in Nat \ {0} /\ Chunk \in Nat \ {0} /\ Length % Chunk = 0
  BY EngineAssumption
<1>2. Chunk <= Length
  <2>1. SUFFICES ASSUME Length < Chunk PROVE FALSE
    BY <1>1
  <2>2. Length % Chunk = Length
    BY <1>1, <2>1
  <2> QED BY <1>1, <2>2
<1>3. 0 \in Times /\ Chunk \in Times /\ Length \in Times
  BY <1>1, <1>2 DEF Times
<1> QED BY <1>3 DEF Spans, Loops

LEMMA SetLoopKeeps == ASSUME TransportInv, NEW loop \in Spans, SetLoop(loop) PROVE TransportInv'
<1>1. Whole(engine) /\ Ticks(engine) /\ now \in Nat /\ hidden \in BOOLEAN /\ play \in Scenes
      /\ metro \in Metros
  BY DEF TransportInv, TransportTypes
<1>2. /\ Gesture("loop") /\ engine' = [engine EXCEPT !.loop = loop]
      /\ UNCHANGED <<now, hidden, generation, counted, metro, starts, hung>>
  BY DEF SetLoop
<1>3. play' \in Scenes /\ play'.does = play.does /\ play'.pressed = play.pressed
  BY <1>1, <1>2, GestureIs
<1>4. /\ Whole(engine') /\ engine'.kind = engine.kind /\ engine'.destroyed = engine.destroyed
      /\ engine'.playing = engine.playing /\ engine'.started = engine.started
      /\ engine'.tick = engine.tick /\ engine'.offset = engine.offset /\ engine'.base = engine.base
      /\ engine'.moved = engine.moved /\ engine'.waiting = engine.waiting
  BY <1>1, <1>2, SpansAreLoops, LoopedIs
<1>5. Calls(engine') = Calls(engine)
  BY <1>4, SameCalls
<1>6. Ticks(engine)' /\ Mapped(engine, engine')
  BY <1>1, <1>2, <1>4 DEF Ticks, Mapped, ClockReady, Fires
<1> QED BY <1>1, <1>2, <1>3, <1>4, <1>5, <1>6, EngineMoves

LEMMA SwitchTabKeeps == ASSUME TransportInv, SwitchTab PROVE TransportInv'
<1>1. Whole(engine) /\ Ticks(engine) /\ now \in Nat /\ hidden \in BOOLEAN /\ play \in Scenes
      /\ metro \in Metros
  BY DEF TransportInv, TransportTypes
<1>2. /\ Gesture("hide") /\ hidden' = ~hidden
      /\ engine' = (IF hidden THEN engine ELSE OnHidden(engine))
      /\ UNCHANGED <<now, generation, counted, metro, starts, hung>>
  BY DEF SwitchTab
<1>3. play' \in Scenes /\ play'.does = play.does /\ play'.pressed = play.pressed
  BY <1>1, <1>2, GestureIs
<1>4. CASE hidden
  <2>1. engine' = engine /\ hidden' = FALSE /\ Calls(engine') = Calls(engine)
    BY <1>1, <1>2, <1>4
  <2>2. Ticks(engine)' /\ Mapped(engine, engine')
    BY <1>1, <2>1 DEF Ticks, Mapped, ClockReady, Fires
  <2> QED BY <1>1, <1>2, <1>3, <2>1, <2>2, EngineMoves
<1>5. CASE ~hidden
  <2>1. /\ Whole(engine') /\ Kin(engine, engine')
        /\ engine'.playing = engine.playing /\ engine'.started = engine.started
        /\ engine'.offset = engine.offset /\ engine'.base = engine.base
        /\ engine'.moved = engine.moved /\ engine'.waiting = engine.waiting
        /\ engine'.tick = IF engine.tick = "frame" THEN "timeout" ELSE engine.tick
    BY <1>1, <1>2, <1>5, OnHiddenIs
  <2>2. hidden' = TRUE /\ Calls(engine') = Calls(engine)
    BY <1>1, <1>2, <1>5, <2>1, SameCalls
  <2>3. Ticks(engine)' /\ Mapped(engine, engine')
    BY <1>1, <2>1, <2>2 DEF Ticks, Mapped, ClockReady, Fires, Kin
  <2> QED BY <1>1, <1>2, <1>3, <2>1, <2>2, <2>3, EngineMoves DEF Kin
<1> QED BY <1>4, <1>5

LEMMA ClockKeeps == ASSUME TransportInv, Clock PROVE TransportInv'
<1>1. Whole(engine) /\ Ticks(engine) /\ now \in Nat /\ hidden \in BOOLEAN /\ play \in Scenes
      /\ metro \in Metros
  BY DEF TransportInv, TransportTypes
<1>2. now' = now + 1 /\ UNCHANGED <<hidden, generation, starts, play, hung>>
  BY DEF Clock
<1>3. counted' \subseteq counted
  BY DEF Clock
<1>4. metro' \in Metros /\ metro'.on = metro.on /\ metro'.synced = metro.synced
      /\ metro'.queued \subseteq metro.queued
  <2>1. PICK Q : Q = {q \in metro.queued : q.at >= now'}
    OBVIOUS
  <2>2. metro' = [metro EXCEPT !.queued = Q]
    BY <1>1, <2>1 DEF Clock, Metros
  <2>3. Q \subseteq metro.queued /\ Q \in SUBSET Clicks
    BY <1>1, <2>1 DEF Metros
  <2> QED BY <1>1, <2>2, <2>3 DEF Metros
<1>5. PICK N : N = {n \in engine.nodes : n.at + (n.until - n.from) > now'}
  OBVIOUS
<1>6. N \in SUBSET engine.nodes /\ engine' = [engine EXCEPT !.nodes = N]
  BY <1>1, <1>5 DEF Clock, Whole, Engines
<1>7. /\ Whole(engine') /\ Kin(engine, engine')
      /\ engine'.playing = engine.playing /\ engine'.started = engine.started
      /\ engine'.tick = engine.tick /\ engine'.offset = engine.offset /\ engine'.base = engine.base
      /\ engine'.moved = engine.moved /\ engine'.waiting = engine.waiting
  BY ZenonT(40), <1>1, <1>6, HeardOutIs
<1>8. Calls(engine') = Calls(engine)
  BY <1>7, SameCalls
<1>9. Ticks(engine)' /\ Mapped(engine, engine') /\ now' \in Nat /\ hidden' \in BOOLEAN
  BY <1>1, <1>2, <1>7 DEF Ticks, Mapped, ClockReady, Fires, Kin
<1> QED BY <1>1, <1>2, <1>3, <1>4, <1>7, <1>8, <1>9, EngineMoves DEF Kin

LEMMA ToggleMetronomeKeeps == ASSUME TransportInv, ToggleMetronome PROVE TransportInv'
<1>1. Whole(engine) /\ Ticks(engine) /\ metro \in Metros /\ play \in Scenes
  BY DEF TransportInv, TransportTypes
<1>2. /\ Gesture("click") /\ ~hung /\ metro' = [FreshMetro EXCEPT !.on = ~metro.on]
      /\ UNCHANGED <<engine, now, hidden, generation, counted, starts, hung>>
  BY DEF ToggleMetronome
<1>3. play' \in Scenes /\ play'.does = play.does /\ play'.pressed = play.pressed
  BY <1>1, <1>2, GestureIs
<1>4. metro' \in Metros /\ metro'.synced = FALSE
  BY <1>1, <1>2 DEF FreshMetro, Metros
<1>5. TransportTypes'
  BY <1>2, <1>3, <1>4 DEF TransportInv, TransportTypes
<1>6. ClicksKeepTheClock'
  BY <1>4 DEF ClicksKeepTheClock
<1>7. Whole(engine)' /\ Ticks(engine)' /\ Calls(engine)' = Calls(engine)
  BY <1>1, <1>2 DEF Whole, Ticks, ClockReady, Fires, Calls, Fetching
<1>8. StartsAreNumbered' /\ CountsForTheLast' /\ SilencedWithIt'
  BY <1>2, <1>3, <1>7 DEF TransportInv, StartsAreNumbered, CountsForTheLast, SilencedWithIt
<1> QED BY <1>5, <1>6, <1>7, <1>8 DEF TransportInv

LEMMA StartFromIs ==
    ASSUME NEW e, Whole(e), Ticks(e), now \in Nat, hidden \in BOOLEAN, NEW f, f = StartFrom(e)
    PROVE  Follows(e, f)
<1>1. CASE e.loop # Idle
  <2>1. PICK t \in Times : t = e.loop.start
    BY <1>1 DEF Whole, Engines, Loops
  <2>2. f = Seek(e, t)
    BY <1>1, <2>1 DEF StartFrom
  <2> QED BY <2>2, SeekIs
<1>2. CASE e.loop = Idle
  <2>1. f = e
    BY <1>2 DEF StartFrom
  <2> QED BY <2>1 DEF Follows, Kin, Mapped
<1> QED BY <1>1, <1>2

LEMMA PressPlayKeeps == ASSUME TransportInv, PressPlay PROVE TransportInv'
<1>1. /\ Whole(engine) /\ Ticks(engine) /\ now \in Nat /\ hidden \in BOOLEAN /\ play \in Scenes
      /\ metro \in Metros /\ starts \in Seq(Starts) /\ hung = engine.destroyed /\ generation \in Nat
  BY DEF TransportInv, TransportTypes, SilencedWithIt
<1>2. PICK e : e = StartFrom(engine)
  OBVIOUS
<1>3. PICK from : from = IF e.offset >= Length THEN 0 ELSE e.offset
  OBVIOUS
<1>4. PICK counts : counts = ("count" \in play.does)
  OBVIOUS
<1>5. PICK n \in Nat : n = Len(starts)
  BY <1>1
<1>6. PICK call \in Nat : call = IF counts THEN n + 1 ELSE 0
  OBVIOUS
<1>7. PICK lead \in Nat : lead = IF counts THEN LeadIn ELSE 0
  BY TransportAssumption
<1>8. PICK went : went = Play(e, lead, call)
  OBVIOUS
<1>9. PICK s : s = [from |-> from, generation |-> generation + 1]
  OBVIOUS
<1>10. /\ Gesture("go") /\ ~engine.playing /\ ~engine.destroyed /\ engine' = went
       /\ starts' = (IF counts THEN Append(starts, s) ELSE starts)
       /\ generation' = (IF counts THEN generation + 1 ELSE generation)
       /\ counted' = (IF counts /\ ClockReady(went) THEN Audible(CountInClicks(went, from)) ELSE counted)
       /\ UNCHANGED <<now, hidden, metro, hung>>
  BY <1>2, <1>3, <1>4, <1>5, <1>6, <1>7, <1>8, <1>9 DEF PressPlay, CanPlay
<1>11. play' \in Scenes /\ play'.does = play.does /\ play'.pressed = "play"
  BY <1>1, <1>10, GestureIs
<1>12. Follows(engine, e)
  BY <1>1, <1>2, StartFromIs
<1>13. Whole(e) /\ ~e.playing /\ ~e.destroyed /\ e.destroyed = engine.destroyed /\ Calls(e) \subseteq Calls(engine) \cup {0}
  BY <1>10, <1>12 DEF Follows, Kin
<1>14. Started(e, went, call)
  BY <1>1, <1>8, <1>13, PlayIs
<1>15. /\ Whole(engine') /\ Ticks(engine') /\ engine'.playing /\ (engine'.started => engine'.moved)
       /\ Calls(engine') \subseteq Calls(engine) \cup {0, call}
       /\ (~engine'.started => call \in Calls(engine'))
       /\ engine'.destroyed = e.destroyed
  BY <1>10, <1>13, <1>14 DEF Started, Kin
<1>16. Whole(engine)' /\ Ticks(engine)' /\ Calls(engine)' = Calls(engine')
  BY <1>10, <1>15 DEF Whole, Ticks, ClockReady, Fires, Calls, Fetching
<1>17. ClicksKeepTheClock'
  BY <1>15 DEF ClicksKeepTheClock, ClockReady
<1>18. SilencedWithIt'
  BY <1>1, <1>10, <1>13, <1>15 DEF SilencedWithIt
<1>19. from \in Times
  <2>1. e.offset \in Times /\ 0 \in Times
    BY <1>13, EngineAssumption DEF Whole, Engines, Times
  <2> QED BY <1>3, <2>1
<1>20. CASE ~counts
  <2>1. starts = <<>> /\ counted = {}
    BY <1>4, <1>20 DEF TransportInv, CountsForTheLast
  <2>2. starts' = <<>> /\ counted' = {} /\ generation' = generation /\ call = 0
    BY <1>6, <1>10, <1>20, <2>1
  <2>3. TransportTypes'
    BY <1>1, <1>10, <1>11, <1>20, <2>2 DEF TransportTypes
  <2>4. StartsAreNumbered'
    <3>1. Calls(engine) \subseteq {0}
      BY <2>1 DEF TransportInv, StartsAreNumbered
    <3>2. Calls(engine)' \subseteq 0..Len(starts')
      BY <1>15, <1>16, <2>2, <3>1
    <3> QED BY <2>2, <3>2 DEF StartsAreNumbered
  <2>5. CountsForTheLast'
    BY <2>2 DEF CountsForTheLast
  <2> QED BY <1>16, <1>17, <1>18, <2>3, <2>4, <2>5 DEF TransportInv
<1>21. CASE counts
  <2>1. s \in Starts
    BY <1>1, <1>9, <1>19 DEF Starts
  <2>2. PICK all : all = Append(starts, s)
    OBVIOUS
  <2>3. all \in Seq(Starts) /\ Len(all) = n + 1 /\ all[n + 1] = s /\ DOMAIN all = 1..(n + 1)
        /\ \A i \in 1..n : all[i] = starts[i]
    <3>1. PICK list \in Seq(Starts) : list = starts
      BY <1>1
    <3> QED BY <1>5, <2>1, <2>2, <3>1
  <2>4. starts' = all /\ generation' = generation + 1 /\ call = n + 1 /\ "count" \in play'.does
    BY <1>4, <1>6, <1>10, <1>11, <1>21, <2>2
  <2>5. TransportTypes'
    BY <1>1, <1>10, <1>11, <2>3, <2>4 DEF TransportTypes
  <2>6. s.generation = generation' /\ s.from = from
    BY <1>9, <2>4
  <2>7. StartsAreNumbered'
    <3>1. Calls(engine)' \subseteq 0..Len(starts')
      <4>1. Calls(engine) \subseteq 0..n
        BY <1>5 DEF TransportInv, StartsAreNumbered
      <4> QED BY <1>15, <1>16, <2>3, <2>4, <4>1
    <3>2. ASSUME NEW i \in DOMAIN starts'
          PROVE  /\ starts'[i].generation <= generation'
                 /\ starts'[i].generation = generation' => i = Len(starts') /\ play'.pressed = "play"
      <4>1. CASE i = n + 1
        <5>1. PICK g \in Nat : g = generation'
          BY <1>1, <2>4
        <5>2. starts'[i].generation = g /\ i = Len(starts')
          BY <2>3, <2>4, <2>6, <4>1, <5>1
        <5> QED BY <1>11, <5>1, <5>2
      <4>2. CASE i # n + 1
        <5>1. i \in 1..n /\ starts'[i] = starts[i] /\ i \in DOMAIN starts
          BY <1>1, <1>5, <2>3, <2>4, <3>2, <4>2
        <5>2. PICK g \in Nat, k \in Nat : g = starts[i].generation /\ k = generation
          <6>1. starts[i] \in Starts
            BY <1>1, <1>5, <5>1, ElementOfSeq
          <6> QED BY <1>1, <6>1 DEF Starts
        <5>3. g <= k
          BY <5>1, <5>2 DEF TransportInv, StartsAreNumbered
        <5> QED BY <2>4, <5>1, <5>2, <5>3
      <4> QED BY <4>1, <4>2
    <3> QED BY <3>1, <3>2 DEF StartsAreNumbered
  <2>8. CountsForTheLast'
    <3>1. starts' # <<>> /\ starts'[Len(starts')] = s /\ Len(starts') = n + 1
      BY <2>3, <2>4
    <3>2. ASSUME NEW q \in counted', q.start # from
          PROVE  n + 1 \in Calls(engine)'
      <4>1. CASE ClockReady(went)
        <5>1. q.start = from
          BY <1>10, <1>21, <3>2, <4>1 DEF Audible, CountInClicks
        <5> QED BY <3>2, <5>1
      <4>2. CASE ~ClockReady(went)
        BY <1>10, <1>15, <1>16, <2>4, <4>2 DEF ClockReady
      <4> QED BY <4>1, <4>2
    <3> QED BY <2>4, <2>6, <3>1, <3>2 DEF CountsForTheLast
  <2> QED BY <1>16, <1>17, <1>18, <2>5, <2>7, <2>8 DEF TransportInv
<1> QED BY <1>20, <1>21

(* The metronome wakes.                                                    *)
LEMMA AnchoredIs ==
    ASSUME Whole(engine), now \in Nat, NEW m \in Metros, NEW r, r = Anchored(m)
    PROVE  /\ r \in Metros /\ r.on = m.on
           /\ (r = m /\ m.synced /\ ~engine.moved) \/ r.queued = {}
<1>1. CASE m.synced /\ ~engine.moved
  BY <1>1 DEF Anchored
<1>2. CASE ~(m.synced /\ ~engine.moved)
  <2>1. PICK a \in Int, z \in Int : a = CtxToSource(engine, now) /\ z = 0
    BY DEF CtxToSource, Whole, Engines, Times
  <2>2. PICK c : c = Max({z, a})
    OBVIOUS
  <2>3. c \in Nat
    <3>1. c \in {z, a} /\ c >= z
      BY <2>1, <2>2, TwoOf
    <3> QED BY <2>1, <3>1
  <2>4. r = [m EXCEPT !.synced = TRUE, !.queued = {}, !.cursor = c]
    BY <1>2, <2>1, <2>2 DEF Anchored
  <2> QED BY <2>3, <2>4 DEF Metros
<1> QED BY <1>1, <1>2

LEMMA FillIs ==
    ASSUME Whole(engine), now \in Nat, NEW m \in Metros, NEW r, r = Fill(m)
    PROVE  /\ r \in Metros /\ r.on = m.on
           /\ \A q \in r.queued : q \in m.queued \/ q.at = SourceToCtx(engine, q.beat)
<1>1. PICK due : due = {b \in m.cursor..(Length - 1) : SourceToCtx(engine, b) <= now + Ahead}
  OBVIOUS
<1>2. PICK Q : Q = {[at |-> SourceToCtx(engine, b), beat |-> b] :
                    b \in {d \in due : SourceToCtx(engine, d) > now}}
  OBVIOUS
<1>3. m.cursor \in Nat /\ Length - 1 \in Int
  BY EngineAssumption DEF Metros
<1>4. due \subseteq Nat /\ IsFiniteSet(due)
  <2>1. PICK i \in Int, k \in Int : i = m.cursor /\ k = Length - 1
    BY <1>3
  <2>2. IsFiniteSet(i..k)
    BY FS_Interval
  <2>3. due \subseteq i..k
    BY <1>1, <2>1
  <2>4. IsFiniteSet(due)
    BY <2>2, <2>3, FS_Subset
  <2>5. i..k \subseteq Nat
    BY <1>3, <2>1
  <2> QED BY <2>3, <2>4, <2>5
<1>5. PICK c \in Nat : c = m.cursor + Cardinality(due)
  BY <1>3, <1>4, FS_CardinalityType
<1>6. Q \in SUBSET Clicks /\ \A q \in Q : q.at = SourceToCtx(engine, q.beat)
  <2>1. engine.base \in Int /\ engine.offset \in Int
    BY DEF Whole, Engines, Times
  <2>2. \A b \in due : SourceToCtx(engine, b) \in Int /\ b \in Nat
    BY <1>4, <2>1 DEF SourceToCtx
  <2> SUFFICES ASSUME NEW q \in Q PROVE q \in Clicks /\ q.at = SourceToCtx(engine, q.beat)
    OBVIOUS
  <2>3. PICK b \in due : q = [at |-> SourceToCtx(engine, b), beat |-> b]
    BY <1>2
  <2>4. q.beat = b /\ q.at = SourceToCtx(engine, b)
    BY <2>3
  <2> QED BY <2>2, <2>3, <2>4 DEF Clicks
<1>7. r = [m EXCEPT !.cursor = c, !.queued = m.queued \cup Q]
  <2>1. r = [m EXCEPT !.cursor = @ + Cardinality(due), !.queued = @ \cup Q]
    BY <1>1, <1>2, Zenon DEF Fill
  <2> QED BY <1>5, <2>1 DEF Metros
<1>8. r \in Metros /\ r.on = m.on /\ r.queued = m.queued \cup Q
  BY <1>5, <1>6, <1>7 DEF Metros
<1> QED BY <1>6, <1>8

LEMMA MetronomeTickKeeps == ASSUME TransportInv, MetronomeTick PROVE TransportInv'
<1>1. Whole(engine) /\ Ticks(engine) /\ now \in Nat /\ metro \in Metros /\ hung = engine.destroyed
  BY DEF TransportInv, TransportTypes, SilencedWithIt
<1>2. /\ metro.on /\ UNCHANGED <<now, hidden, generation, counted, starts, play, hung>>
      /\ metro' = (IF ClockReady(engine) THEN Fill(Anchored(metro))
                   ELSE [metro EXCEPT !.synced = FALSE, !.queued = {}])
      /\ engine' = (IF ClockReady(engine) THEN [engine EXCEPT !.moved = FALSE] ELSE engine)
  BY DEF MetronomeTick
<1>3. ~hung
  BY <1>2 DEF TransportInv, SilencedWithIt
<1>4. /\ Whole(engine') /\ Kin(engine, engine')
      /\ engine'.playing = engine.playing /\ engine'.started = engine.started
      /\ engine'.tick = engine.tick /\ engine'.offset = engine.offset /\ engine'.base = engine.base
      /\ engine'.waiting = engine.waiting
  <2>1. CASE ClockReady(engine)
    BY <1>1, <1>2, <2>1, LookedAtIs
  <2>2. CASE ~ClockReady(engine)
    BY <1>1, <1>2, <2>2 DEF Kin
  <2> QED BY <2>1, <2>2
<1>5. Whole(engine)' /\ Ticks(engine)' /\ Calls(engine)' = Calls(engine)
  BY <1>1, <1>2, <1>4 DEF Whole, Ticks, ClockReady, Fires, Kin, Calls, Fetching
<1>6. metro' \in Metros /\ ClicksKeepTheClock'
  <2>1. CASE ClockReady(engine)
    <3>1. PICK m : m = Anchored(metro)
      OBVIOUS
    <3>2. m \in Metros /\ ((m = metro /\ metro.synced /\ ~engine.moved) \/ m.queued = {})
      BY <1>1, <3>1, AnchoredIs
    <3>3. metro' \in Metros
          /\ \A q \in metro'.queued : q \in m.queued \/ q.at = SourceToCtx(engine, q.beat)
      BY <1>1, <1>2, <2>1, <3>1, <3>2, FillIs
    <3>4. \A q \in m.queued : q.at = SourceToCtx(engine, q.beat)
      <4>1. CASE m.queued = {}
        BY <4>1
      <4>2. CASE m = metro /\ metro.synced /\ ~engine.moved
        BY <2>1, <4>2 DEF TransportInv, ClicksKeepTheClock
      <4> QED BY <3>2, <4>1, <4>2
    <3>5. \A q \in metro'.queued : q.at = SourceToCtx(engine, q.beat)
      BY <3>3, <3>4
    <3> QED BY <1>4, <3>3, <3>5 DEF ClicksKeepTheClock, SourceToCtx
  <2>2. CASE ~ClockReady(engine)
    <3>1. metro' \in Metros /\ metro'.queued = {}
      BY <1>1, <1>2, <2>2 DEF Metros
    <3> QED BY <3>1 DEF ClicksKeepTheClock
  <2> QED BY <2>1, <2>2
<1>7. TransportTypes'
  BY <1>2, <1>6 DEF TransportInv, TransportTypes
<1>8. StartsAreNumbered' /\ CountsForTheLast'
  BY <1>2, <1>4, <1>5 DEF TransportInv, StartsAreNumbered, CountsForTheLast
<1>9. SilencedWithIt'
  BY <1>1, <1>2, <1>3, <1>4 DEF SilencedWithIt, Kin
<1> QED BY <1>5, <1>6, <1>7, <1>8, <1>9 DEF TransportInv

(* A start or a chunk that waited goes on.                                 *)
LEMMA ContinueKeeps == ASSUME TransportInv, Continue PROVE TransportInv'
<1>1. /\ Whole(engine) /\ Ticks(engine) /\ now \in Nat /\ hidden \in BOOLEAN /\ play \in Scenes
      /\ metro \in Metros /\ starts \in Seq(Starts) /\ hung = engine.destroyed
  BY DEF TransportInv, TransportTypes, SilencedWithIt
<1>2. PICK w : w = Next1(engine)
  OBVIOUS
<1>3. PICK goes : goes = (w.what = "play" /\ w.call # 0 /\ StartHeld(engine) /\ ~hung)
  OBVIOUS
<1>4. /\ ~Settled(engine) /\ engine' = Resume(engine)
      /\ UNCHANGED <<now, hidden, generation, metro, starts, play, hung>>
      /\ IF goes THEN CountIn(engine', starts[w.call]) ELSE UNCHANGED counted
  BY <1>2, <1>3 DEF Continue, Rest
<1>5. /\ w \in Waits
      /\ Whole(engine') /\ Ticks(engine') /\ Kin(engine, engine') /\ Mapped(engine, engine')
      /\ engine'.playing = engine.playing
      /\ Calls(engine') \subseteq Calls(engine)
      /\ Calls(engine) \subseteq Calls(engine') \cup (IF w.what = "play" THEN {w.call} ELSE {})
      /\ w.what = "play" => w.call \in Calls(engine)
  BY <1>1, <1>2, <1>4, ResumeIs
<1>6. Whole(engine)' /\ Ticks(engine)' /\ Calls(engine)' = Calls(engine')
  BY <1>4, <1>5 DEF Whole, Ticks, ClockReady, Fires, Calls, Fetching
<1>7. PICK n \in Nat : n = Len(starts) /\ DOMAIN starts = 1..n
  <2>1. PICK list \in Seq(Starts) : list = starts
    BY <1>1
  <2>2. Len(list) \in Nat /\ DOMAIN list = 1..Len(list)
    BY LenProperties
  <2> QED BY <2>1, <2>2
<1>8. TransportTypes' /\ SilencedWithIt'
  <2>1. TransportTypes'
    BY <1>4 DEF TransportInv, TransportTypes
  <2>2. hung => counted' = {}
    BY <1>3, <1>4 DEF TransportInv, SilencedWithIt
  <2> QED BY <1>4, <1>5, <2>1, <2>2 DEF TransportInv, SilencedWithIt, Kin
<1>9. StartsAreNumbered'
  BY <1>4, <1>5, <1>6 DEF TransportInv, StartsAreNumbered
<1>10. ClicksKeepTheClock'
  <2> SUFFICES ASSUME ClockReady(engine'), metro.synced, ~engine'.moved, NEW q \in metro.queued
               PROVE  q.at = SourceToCtx(engine', q.beat)
    BY <1>4 DEF ClicksKeepTheClock, SourceToCtx, ClockReady
  <2>1. ClockReady(engine) /\ engine'.base = engine.base /\ engine'.offset = engine.offset
        /\ ~engine.moved
    BY <1>5 DEF Mapped
  <2>2. q.at = SourceToCtx(engine, q.beat)
    BY <2>1 DEF TransportInv, ClicksKeepTheClock
  <2> QED BY <2>1, <2>2 DEF SourceToCtx
<1>11. CASE goes /\ starts[w.call].generation = generation
  <2>1. w.call \in 1..n
    <3>1. w.call \in Calls(engine) /\ w.call # 0
      BY <1>3, <1>5, <1>11
    <3>2. Calls(engine) \subseteq 0..n
      BY <1>7 DEF TransportInv, StartsAreNumbered
    <3> QED BY <3>1, <3>2
  <2>2. w.call = n /\ play.pressed = "play"
    BY <1>7, <1>11, <2>1 DEF TransportInv, StartsAreNumbered
  <2>3. \A q \in counted' : q.start = starts[n].from
    BY <1>4, <1>11, <2>2 DEF CountIn, Audible, CountInClicks
  <2>4. starts # <<>> /\ "count" \in play.does
    BY <1>7, <2>1 DEF TransportInv, CountsForTheLast
  <2>5. CountsForTheLast'
    BY <1>4, <1>7, <1>11, <2>2, <2>3, <2>4 DEF CountsForTheLast
  <2> QED BY <1>6, <1>8, <1>9, <1>10, <2>5 DEF TransportInv
<1>12. CASE ~goes \/ starts[w.call].generation # generation
  <2>1. counted' = counted
    BY <1>4, <1>12 DEF CountIn
  <2>2. ASSUME NEW q \in counted, q.start # starts[n].from, engine.playing PROVE n \in Calls(engine')
    <3>1. n \in Calls(engine) /\ starts # <<>> /\ starts[n].generation = generation
      BY <1>7, <2>2 DEF TransportInv, CountsForTheLast
    <3>2. n # 0
      BY <1>1, <1>7, <3>1
    <3>3. CASE w.what = "play" /\ w.call = n
      <4>1. StartHeld(engine) /\ ~hung
        BY <1>1, <2>2 DEF StartHeld, Whole
      <4> QED BY <1>3, <1>12, <3>1, <3>2, <3>3, <4>1
    <3>4. CASE ~(w.what = "play" /\ w.call = n)
      BY <1>5, <3>1, <3>4
    <3> QED BY <3>3, <3>4
  <2>3. CountsForTheLast'
    BY <1>4, <1>5, <1>6, <1>7, <2>1, <2>2 DEF TransportInv, CountsForTheLast
  <2> QED BY <1>6, <1>8, <1>9, <1>10, <2>3 DEF TransportInv
<1> QED BY <1>11, <1>12

-----------------------------------------------------------------------------
LEMMA TransportStarts == TransportInit => TransportInv
<1> SUFFICES ASSUME TransportInit PROVE TransportInv
  OBVIOUS
<1>1. /\ play \in Plays /\ engine = [ReadyEngine(play.kind) EXCEPT !.loop = play.loop]
      /\ now = 0 /\ hidden = FALSE /\ generation = 0 /\ counted = {} /\ metro = FreshMetro
      /\ starts = <<>> /\ hung = FALSE
  BY DEF TransportInit
<1>2. play \in Scenes
  <2>1. play \in [kind : {"chunked", "buffered"}, gestures : Nat, losses : Nat, until : Nat,
          does : SUBSET {"go", "pause", "stop", "seek", "count", "loop", "speed", "click",
                         "hide", "leave"},
          loop : {Idle} \cup [start : 0..Length, end : 0..Length],
          places : SUBSET (0..Length), pressed : {"stop"}]
    BY <1>1, TransportAssumption
  <2> QED BY <2>1 DEF Scenes, Loops, Times
<1>3. PICK kind \in {"chunked", "buffered"}, loop \in {Idle} \cup Loops : kind = play.kind /\ loop = play.loop
  BY <1>2 DEF Scenes
<1>4. Whole(engine) /\ ~engine.playing /\ ~engine.started /\ ~engine.destroyed /\ Calls(engine) = {}
  BY <1>1, <1>3, ReadyEngineIs
<1>5. engine.destroyed = FALSE
  BY <1>4 DEF Whole, Engines
<1>6. metro \in Metros /\ metro.queued = {}
  BY <1>1 DEF FreshMetro, Metros
<1>7. starts \in Seq(Starts)
  BY <1>1, EmptySeq
<1>8. TransportTypes
  BY <1>1, <1>2, <1>6, <1>7 DEF TransportTypes
<1>9. StartsAreNumbered
  BY <1>1, <1>4 DEF StartsAreNumbered
<1>10. CountsForTheLast
  BY <1>1 DEF CountsForTheLast
<1>11. SilencedWithIt
  BY <1>1, <1>5 DEF SilencedWithIt
<1>12. Ticks(engine) /\ ClicksKeepTheClock
  <2>1. ~ClockReady(engine)
    BY <1>4 DEF ClockReady
  <2> QED BY <1>4, <2>1 DEF Ticks, ClicksKeepTheClock
<1> QED BY <1>4, <1>8, <1>9, <1>10, <1>11, <1>12 DEF TransportInv

LEMMA TransportKeeps == TransportInv /\ [TransportNext]_transportVars => TransportInv'
<1> SUFFICES ASSUME TransportInv, [TransportNext]_transportVars PROVE TransportInv'
  OBVIOUS
<1>1. CASE UNCHANGED transportVars
  <2>1. UNCHANGED <<engine, now, hidden, generation, counted, metro, starts, play, hung>>
    BY <1>1 DEF transportVars
  <2>2. play' \in Scenes /\ play'.does = play.does /\ play'.pressed = play.pressed
    BY <2>1 DEF TransportInv, TransportTypes
  <2>3. Follows(engine, engine')
    BY <2>1 DEF TransportInv, Follows, Kin, Mapped
  <2> QED BY <2>1, <2>2, <2>3, EngineFollows
<1>2. CASE TransportNext
  BY <1>2, PressPauseKeeps, PressPlayKeeps, PressStopKeeps, ApplySpeedKeeps, LeaveKeeps,
     SwitchTabKeeps, ToggleMetronomeKeeps, MetronomeTickKeeps, TickLoopKeeps, ClockKeeps,
     ContinueKeeps, ClickRulerKeeps, SetLoopKeeps, LandKeeps, LoseFlightKeeps DEF TransportNext
<1> QED BY <1>1, <1>2

(* What is heard follows the transport: a track that sounds ticks on, what *)
(* counts in is the last start, what was torn down is silent, and a click  *)
(* sits where its beat is in the music (transport.js, metronome.js and the *)
(* two engines).                                                           *)
THEOREM SoundStaysWithTransport == TransportSpec => []SoundFollowsTransport
<1>1. TransportInv => SoundFollowsTransport
  BY TransportHolds
<1> QED BY <1>1, TransportStarts, TransportKeeps, PTL DEF TransportSpec

-----------------------------------------------------------------------------
(* The chunks of the track.                                                *)

(* A cache entry that waits for a flight waits for one that is out and     *)
(* brings its chunk, and nothing is there past the end of the track.       *)
StoreOK(e) ==
    /\ \A f, g \in e.flights : f.id = g.id => f = g
    /\ \A c \in Chunks : e.cache[c] \in Nat \ {0} => [id |-> e.cache[c], chunk |-> c] \in e.flights
    /\ e.cache[PastEnd] # Full

(* The chunk the loop starts in stays if it is there.                      *)
Warm(e, f) ==
    /\ StoreOK(f) /\ f.loop = e.loop
    /\ e.loop # Idle /\ Cached(e, PinnedChunk(e)) => Cached(f, PinnedChunk(e))

LEMMA WarmThrough == ASSUME NEW e, NEW f, NEW g, Warm(e, f), Warm(f, g) PROVE Warm(e, g)
BY DEF Warm, PinnedChunk

LEMMA SameStore ==
    ASSUME NEW e, StoreOK(e), NEW f, f.cache = e.cache, f.flights = e.flights, f.loop = e.loop
    PROVE  Warm(e, f)
BY DEF Warm, StoreOK, Cached

LEMMA PinnedIs == ASSUME NEW e, Whole(e), e.loop # Idle PROVE PinnedChunk(e) \in Chunks
<1>1. PICK t \in Times : t = e.loop.start
  BY DEF Whole, Engines, Loops
<1> QED BY <1>1, ChunkIs DEF PinnedChunk

LEMMA FetchWarm ==
    ASSUME NEW e, Whole(e), StoreOK(e), NEW c \in Chunks, NEW f, f = Fetch(e, c)
    PROVE  Warm(e, f)
<1>1. e \in Engines /\ e.cache \in [Chunks -> Nat \cup {Full}]
  BY DEF Whole, Engines
<1>2. CASE e.cache[c] # Absent
  BY <1>2, SameStore DEF Fetch
<1>3. CASE e.cache[c] = Absent
  <2>1. PICK n \in Nat \ {0} : n = NewFlight(e) /\ \A x \in e.flights : x.id # n
    BY NewFlightIs
  <2>2. PICK w : w = [id |-> n, chunk |-> c]
    OBVIOUS
  <2>3. PICK k : k = [e.cache EXCEPT ![c] = n]
    OBVIOUS
  <2>4. f = [e EXCEPT !.flights = e.flights \cup {w}, !.cache = k]
    BY <1>1, <1>3, <2>1, <2>2, <2>3 DEF Fetch, Engines
  <2>5. f.flights = e.flights \cup {w} /\ f.cache = k /\ f.loop = e.loop
    BY <1>1, <2>4 DEF Engines
  <2>6. n # Full /\ Absent # Full
    BY DEF Full, Absent
  <2>7. \A x, y \in f.flights : x.id = y.id => x = y
    BY <2>1, <2>2, <2>5 DEF StoreOK
  <2>8. ASSUME NEW d \in Chunks, f.cache[d] \in Nat \ {0} PROVE [id |-> f.cache[d], chunk |-> d] \in f.flights
    <3>1. CASE d = c
      BY <1>1, <2>2, <2>3, <2>5, <3>1
    <3>2. CASE d # c
      <4>1. f.cache[d] = e.cache[d]
        BY <1>1, <2>3, <2>5, <3>2
      <4> QED BY <2>5, <2>8, <4>1 DEF StoreOK
    <3> QED BY <3>1, <3>2
  <2>9. \A d \in Chunks : f.cache[d] = Full <=> e.cache[d] = Full
    BY <1>1, <1>3, <2>3, <2>5, <2>6
  <2>10. PastEnd \in Chunks
    BY PastEndIs DEF Chunks
  <2>11. StoreOK(f)
    BY <2>7, <2>8, <2>9, <2>10 DEF StoreOK
  <2> QED BY <2>5, <2>9, <2>11, PinnedIs DEF Warm, Cached
<1> QED BY <1>2, <1>3

LEMMA StartWithWarm ==
    ASSUME NEW e, Whole(e), StoreOK(e), e.playing, now \in Nat, hidden \in BOOLEAN, NEW c \in Chunks,
           NEW within \in 0..(Chunk - 1), NEW lead \in Nat, NEW full,
           NEW f, f = StartWith(e, c, within, lead, full)
    PROVE  Warm(e, f)
<1>1. e \in Engines /\ ~e.destroyed /\ e.offset \in Times /\ e.nodes \in SUBSET AudioNodes
  BY DEF Whole, Engines
<1>2. PICK at \in Int : at = now + lead
  OBVIOUS
<1>3. PICK n : n = Node(at, c * Chunk + within, (c + 1) * Chunk)
  OBVIOUS
<1>4. Chunk \in Nat \ {0} /\ c \in Int /\ c + 1 \in Int
  BY EngineAssumption, PastEndIs DEF Chunks
<1>5. n \in AudioNodes
  BY <1>2, <1>3, <1>4 DEF Node, AudioNodes
<1>6. PICK N \in SUBSET AudioNodes : N = IF full THEN e.nodes \cup {n} ELSE e.nodes
  BY <1>1, <1>5
<1>7. PICK d \in Nat : d = IF full THEN Chunk - within ELSE 0
  <2>1. within \in Int /\ within <= Chunk - 1
    BY <1>4
  <2>2. Chunk - within \in Nat
    BY <1>4, <2>1
  <2>3. (IF full THEN Chunk - within ELSE 0) \in Nat
    BY <2>2
  <2> QED BY <2>3
<1>8. PICK u \in Nat : u = e.offset + d
  BY <1>1, <1>7 DEF Times
<1>9. PICK t \in {"frame", "timeout"} : t = IF hidden THEN "timeout" ELSE "frame"
  OBVIOUS
<1>10. PICK g : g = [e EXCEPT !.base = at, !.started = TRUE, !.moved = TRUE, !.upTo = u, !.nodes = N]
  OBVIOUS
<1>11. g \in Engines
  BY <1>1, <1>2, <1>6, <1>8, <1>10 DEF Engines
<1>12. /\ g.playing = e.playing /\ g.destroyed = e.destroyed /\ g.loop = e.loop
       /\ g.cache = e.cache /\ g.flights = e.flights
  BY <1>1, <1>10 DEF Engines
<1>13. PICK h : h = [g EXCEPT !.tick = t]
  OBVIOUS
<1>14. h \in Engines
  BY <1>11, <1>13 DEF Engines
<1>15. /\ h.playing = g.playing /\ h.destroyed = g.destroyed /\ h.loop = g.loop
       /\ h.cache = g.cache /\ h.flights = g.flights
  BY <1>11, <1>13 DEF Engines
<1>16. Whole(h)
  BY <1>1, <1>12, <1>14, <1>15 DEF Whole
<1>17. Warm(e, h)
  BY <1>12, <1>15, SameStore
<1>18. PICK m \in Chunks : m = Min({c + 1, PastEnd})
  BY NextChunkIs
<1>19. f = Fetch(h, m)
  BY <1>2, <1>3, <1>6, <1>7, <1>8, <1>9, <1>10, <1>13, <1>18 DEF StartWith, Scheduled
<1>20. Warm(h, f)
  BY <1>16, <1>17, <1>18, <1>19, FetchWarm DEF Warm
<1> QED BY <1>17, <1>20, WarmThrough

LEMMA HangNextWarm ==
    ASSUME NEW e, Whole(e), StoreOK(e), NEW c, NEW f, f = HangNext(e, c)
    PROVE  Warm(e, f)
<1>1. e \in Engines
  BY DEF Whole
<1>2. f.cache = e.cache /\ f.flights = e.flights /\ f.loop = e.loop
  BY <1>1 DEF HangNext, Engines
<1> QED BY <1>2, SameStore

LEMMA AwaitWarm ==
    ASSUME NEW e, Whole(e), StoreOK(e), NEW what, NEW c \in Chunks, NEW within, NEW lead, NEW call,
           NEW f, f = Await(e, what, c, within, lead, call)
    PROVE  Warm(e, f)
<1>1. PICK g : g = Fetch(e, c)
  OBVIOUS
<1>2. Whole(g) /\ Warm(e, g)
  BY <1>1, FetchIs, FetchWarm
<1>3. PICK list : list = Append(g.waiting, [what |-> what, chunk |-> c, flight |-> g.cache[c],
                    within |-> within, lead |-> lead, call |-> call])
  OBVIOUS
<1>4. f = [g EXCEPT !.waiting = list]
  BY <1>1, <1>2, <1>3 DEF Await, Whole, Engines
<1>5. f.cache = g.cache /\ f.flights = g.flights /\ f.loop = g.loop
  BY <1>2, <1>4 DEF Whole, Engines
<1>6. Warm(g, f)
  BY <1>2, <1>5, SameStore DEF Warm
<1> QED BY <1>2, <1>6, WarmThrough

LEMMA MaybeScheduleWarm ==
    ASSUME NEW e, Whole(e), StoreOK(e), now \in Nat, NEW f, f = MaybeSchedule(e)
    PROVE  Warm(e, f)
<1>1. CASE f = e
  BY <1>1, SameStore
<1>2. CASE f # e
  <2>1. PICK limit : limit = IF e.loop = Idle THEN Length ELSE e.loop.end
    OBVIOUS
  <2>2. PICK c : c = ChunkAt(e.upTo)
    OBVIOUS
  <2>3. PICK m : m = Min({c + 1, PastEnd})
    OBVIOUS
  <2>4. PICK warm : warm = Fetch(e, m)
    OBVIOUS
  <2>5. /\ f = IF e.filling \/ e.upTo >= limit \/ e.upTo - CtxToSource(e, now) >= Lookahead
               THEN e
               ELSE IF Cached(warm, c) THEN HangNext(warm, c)
               ELSE [Await(warm, "fill", c, 0, 0, 0) EXCEPT !.filling = TRUE]
    BY <2>1, <2>2, <2>3, <2>4 DEF MaybeSchedule
  <2>6. /\ ~(e.upTo >= limit)
        /\ f = HangNext(warm, c) \/ f = [Await(warm, "fill", c, 0, 0, 0) EXCEPT !.filling = TRUE]
    BY <1>2, <2>5
  <2>7. e.upTo \in Times
    <3>1. e.upTo \in Nat /\ Length \in Nat /\ (e.loop = Idle \/ e.loop \in Loops)
      BY EngineAssumption DEF Whole, Engines
    <3>2. limit \in Times
      BY <2>1, <3>1 DEF Loops, Times
    <3> QED BY <2>6, <3>1, <3>2 DEF Times
  <2>8. c \in Chunks
    BY <2>2, <2>7, ChunkIs
  <2>9. m \in Chunks
    BY <2>3, <2>8, NextChunkIs
  <2>10. Whole(warm) /\ Warm(e, warm)
    BY <2>4, <2>9, FetchIs, FetchWarm
  <2>11. CASE f = HangNext(warm, c)
    <3>1. Warm(warm, f)
      BY <2>10, <2>11, HangNextWarm DEF Warm
    <3> QED BY <2>10, <3>1, WarmThrough
  <2>12. CASE f = [Await(warm, "fill", c, 0, 0, 0) EXCEPT !.filling = TRUE]
    <3>1. PICK g : g = Await(warm, "fill", c, 0, 0, 0)
      OBVIOUS
    <3>2. 0 \in 0..(Chunk - 1)
      BY EngineAssumption
    <3>3. Whole(g)
      BY <2>8, <2>10, <3>1, <3>2, AwaitIs
    <3>4. Warm(warm, g)
      BY <2>8, <2>10, <3>1, AwaitWarm DEF Warm
    <3>5. f.cache = g.cache /\ f.flights = g.flights /\ f.loop = g.loop
      BY <2>12, <3>1, <3>3 DEF Whole, Engines
    <3>6. Warm(g, f)
      BY <3>4, <3>5, SameStore DEF Warm
    <3> QED BY <2>10, <3>4, <3>6, WarmThrough
  <2> QED BY <2>6, <2>11, <2>12
<1> QED BY <1>1, <1>2

LEMMA ScheduledWarm == ASSUME NEW e, Whole(e), StoreOK(e), NEW f, f = Scheduled(e) PROVE Warm(e, f)
<1>1. e \in Engines
  BY DEF Whole
<1>2. f.cache = e.cache /\ f.flights = e.flights /\ f.loop = e.loop
  BY <1>1 DEF Scheduled, Engines
<1> QED BY <1>2, SameStore

LEMMA StartSourcesWarm ==
    ASSUME NEW e, Whole(e), StoreOK(e), NEW at, NEW f, f = StartSources(e, at) PROVE Warm(e, f)
<1>1. e \in Engines
  BY DEF Whole
<1>2. PICK N : N = {Node(at, e.offset, Length)}
  OBVIOUS
<1>3. f = [e EXCEPT !.base = at, !.started = TRUE, !.moved = TRUE, !.nodes = N]
  BY <1>2 DEF StartSources
<1>4. f.cache = e.cache /\ f.flights = e.flights /\ f.loop = e.loop
  BY <1>1, <1>3 DEF Engines
<1> QED BY <1>4, SameStore

LEMMA PlayBufferedWarm ==
    ASSUME NEW e, Whole(e), StoreOK(e), ~e.playing, ~e.destroyed, now \in Nat, hidden \in BOOLEAN,
           NEW lead \in Nat, NEW f, f = PlayBuffered(e, lead)
    PROVE  Warm(e, f)
<1>1. PICK g : g = [Rewound(e) EXCEPT !.playing = TRUE]
  OBVIOUS
<1>2. Whole(g) /\ g.playing /\ Warm(e, g)
  BY <1>1, GoesIs, SameStore
<1>3. PICK at \in Int : at = now + lead
  OBVIOUS
<1>4. PICK h : h = StartSources(g, at)
  OBVIOUS
<1>5. Whole(h) /\ Warm(g, h)
  BY <1>2, <1>3, <1>4, StartSourcesIs, StartSourcesWarm DEF Warm
<1>6. f = Scheduled(h)
  BY <1>1, <1>3, <1>4 DEF PlayBuffered
<1>7. Warm(h, f)
  BY <1>5, <1>6, ScheduledWarm DEF Warm
<1> QED BY <1>2, <1>5, <1>7, WarmThrough

LEMMA PlayChunkedWarm ==
    ASSUME NEW e, Whole(e), StoreOK(e), ~e.playing, ~e.destroyed, now \in Nat, hidden \in BOOLEAN,
           NEW lead \in Nat, NEW call \in Nat, NEW f, f = PlayChunked(e, lead, call)
    PROVE  Warm(e, f)
<1>1. PICK g : g = [Rewound(e) EXCEPT !.playing = TRUE]
  OBVIOUS
<1>2. Whole(g) /\ g.playing /\ Warm(e, g)
  BY <1>1, GoesIs, SameStore
<1>3. g.offset \in Times
  BY <1>2 DEF Whole, Engines
<1>4. PICK c \in Chunks : c = ChunkAt(g.offset)
  BY <1>3, ChunkIs
<1>5. PICK w \in 0..(Chunk - 1) : w = g.offset % Chunk
  BY <1>3, ChunkIs
<1>6. f = IF Cached(g, c) THEN StartWith(g, c, w, lead, TRUE) ELSE Await(g, "play", c, w, lead, call)
  BY <1>1, <1>4, <1>5 DEF PlayChunked
<1>7. CASE f = StartWith(g, c, w, lead, TRUE)
  <2>1. PICK full : f = StartWith(g, c, w, lead, full)
    BY <1>7
  <2>2. Warm(g, f)
    BY <1>2, <2>1, StartWithWarm DEF Warm
  <2> QED BY <1>2, <2>2, WarmThrough
<1>8. CASE f = Await(g, "play", c, w, lead, call)
  <2>1. Warm(g, f)
    BY <1>2, <1>8, AwaitWarm DEF Warm
  <2> QED BY <1>2, <2>1, WarmThrough
<1> QED BY <1>6, <1>7, <1>8

LEMMA PlayWarm ==
    ASSUME NEW e, Whole(e), StoreOK(e), ~e.playing, ~e.destroyed, now \in Nat, hidden \in BOOLEAN,
           NEW lead \in Nat, NEW call \in Nat, NEW f, f = Play(e, lead, call)
    PROVE  Warm(e, f)
<1>1. CASE e.kind = "buffered"
  BY <1>1, PlayBufferedWarm DEF Play
<1>2. CASE e.kind # "buffered"
  BY <1>2, PlayChunkedWarm DEF Play
<1> QED BY <1>1, <1>2

LEMMA PauseWarm == ASSUME NEW e, Whole(e), StoreOK(e), now \in Nat, NEW f, f = Pause(e) PROVE Warm(e, f)
<1>1. e \in Engines
  BY DEF Whole
<1>2. CASE f = e
  BY <1>2, SameStore
<1>3. CASE e.playing
  <2>1. PICK t : t = Playhead(e)
    OBVIOUS
  <2>2. f = [e EXCEPT !.offset = t, !.upTo = t, !.nodes = {}, !.playing = FALSE, !.started = FALSE,
                      !.moved = TRUE, !.tick = Idle]
    BY <1>3, <2>1 DEF Pause
  <2>3. f.cache = e.cache /\ f.flights = e.flights /\ f.loop = e.loop
    BY <1>1, <2>2 DEF Engines
  <2> QED BY <2>3, SameStore
<1> QED BY <1>2, <1>3 DEF Pause

(* A seek drops older chunks, never the one the loop starts in.            *)
LEMMA SeekBufferedWarm ==
    ASSUME NEW e, Whole(e), StoreOK(e), now \in Nat, NEW t \in Times, NEW f, f = SeekBuffered(e, t)
    PROVE  Warm(e, f)
<1>1. e \in Engines
  BY DEF Whole
<1>2. CASE e.playing
  <2>1. PICK g : g = [e EXCEPT !.offset = t]
    OBVIOUS
  <2>2. g \in Engines /\ g.cache = e.cache /\ g.flights = e.flights /\ g.loop = e.loop
        /\ g.playing = e.playing /\ g.started = e.started /\ g.destroyed = e.destroyed
        /\ g.nodes = e.nodes /\ g.tick = e.tick
    BY <1>1, <2>1 DEF Engines
  <2>3. Whole(g) /\ Warm(e, g)
    BY <2>2, SameStore DEF Whole
  <2>4. PICK at : at = now
    OBVIOUS
  <2>5. f = StartSources(g, at)
    BY <1>2, <2>1, <2>4 DEF SeekBuffered
  <2>6. Warm(g, f)
    BY <2>3, <2>5, StartSourcesWarm DEF Warm
  <2> QED BY <2>3, <2>6, WarmThrough
<1>3. CASE ~e.playing
  <2>1. f = [e EXCEPT !.offset = t, !.moved = TRUE]
    BY <1>3 DEF SeekBuffered
  <2>2. f.cache = e.cache /\ f.flights = e.flights /\ f.loop = e.loop
    BY <1>1, <2>1 DEF Engines
  <2> QED BY <2>2, SameStore
<1> QED BY <1>2, <1>3

LEMMA SeekChunkedWarm ==
    ASSUME NEW e, Whole(e), StoreOK(e), now \in Nat, hidden \in BOOLEAN, NEW t \in Times,
           NEW f, f = SeekChunked(e, t)
    PROVE  Warm(e, f)
<1>1. PICK h : /\ Whole(h) /\ Kin(e, h) /\ ~h.playing /\ ~h.started /\ Calls(h) = Calls(e)
               /\ h.loop = e.loop /\ h.flights = e.flights
               /\ (\A c \in Chunks : h.cache[c] = e.cache[c] \/ (h.cache[c] = Absent /\ c # PinnedChunk(e)))
               /\ f = IF e.playing THEN PlayChunked(h, 0, 0) ELSE h
  BY SeekStopsIs
<1>2. Warm(e, h)
  <2>1. Absent # Full /\ Absent \notin Nat \ {0} /\ PastEnd \in Chunks
    BY PastEndIs DEF Absent, Full, Chunks
  <2>2. \A c \in Chunks : h.cache[c] \in Nat \ {0} => [id |-> h.cache[c], chunk |-> c] \in h.flights
    <3> SUFFICES ASSUME NEW c \in Chunks, h.cache[c] \in Nat \ {0}
                 PROVE  [id |-> h.cache[c], chunk |-> c] \in h.flights
      OBVIOUS
    <3>1. h.cache[c] = e.cache[c]
      BY <1>1, <2>1
    <3> QED BY <1>1, <3>1 DEF StoreOK
  <2>3. h.cache[PastEnd] # Full
    BY <1>1, <2>1 DEF StoreOK
  <2>4. StoreOK(h)
    BY <1>1, <2>2, <2>3 DEF StoreOK
  <2> QED BY <1>1, <2>4, PinnedIs DEF Warm, Cached
<1>3. CASE ~e.playing
  BY <1>1, <1>2, <1>3
<1>4. CASE e.playing
  <2>1. PICK z \in Nat : z = 0
    OBVIOUS
  <2>2. f = PlayChunked(h, z, z) /\ ~h.destroyed
    BY <1>1, <1>4, <2>1 DEF Whole, Kin
  <2>3. Warm(h, f)
    BY <1>1, <1>2, <2>2, PlayChunkedWarm DEF Warm
  <2> QED BY <1>2, <2>3, WarmThrough
<1> QED BY <1>3, <1>4

LEMMA SeekWarm ==
    ASSUME NEW e, Whole(e), StoreOK(e), now \in Nat, hidden \in BOOLEAN, NEW t \in Times,
           NEW f, f = Seek(e, t)
    PROVE  Warm(e, f)
<1>1. CASE e.kind = "buffered"
  BY <1>1, SeekBufferedWarm DEF Seek
<1>2. CASE e.kind # "buffered"
  BY <1>2, SeekChunkedWarm DEF Seek
<1> QED BY <1>1, <1>2

LEMMA SetPlaybackRateWarm ==
    ASSUME NEW e, Whole(e), StoreOK(e), now \in Nat, hidden \in BOOLEAN, NEW f, f = SetPlaybackRate(e)
    PROVE  Warm(e, f)
<1>1. e \in Engines
  BY DEF Whole
<1>2. CASE e.playing
  <2>1. PICK t \in Times : t = Playhead(e)
    BY <1>1, PlayheadIs
  <2> QED BY <1>2, <2>1, SeekWarm DEF SetPlaybackRate
<1>3. CASE ~e.playing
  <2>1. f = [e EXCEPT !.moved = TRUE]
    BY <1>3 DEF SetPlaybackRate
  <2>2. f.cache = e.cache /\ f.flights = e.flights /\ f.loop = e.loop
    BY <1>1, <2>1 DEF Engines
  <2> QED BY <2>2, SameStore
<1> QED BY <1>2, <1>3

(* The loop of ticks fetches the chunk the loop starts in ahead of time.   *)
LEMMA EndOfTrackWarm ==
    ASSUME NEW e, Whole(e), StoreOK(e), NEW f, f = EndOfTrack(e) \/ f = [EndOfTrack(e) EXCEPT !.nodes = {}, !.moved = TRUE]
    PROVE  Warm(e, f)
<1>1. e \in Engines
  BY DEF Whole
<1>2. f.cache = e.cache /\ f.flights = e.flights /\ f.loop = e.loop
  BY <1>1 DEF EndOfTrack, Engines
<1> QED BY <1>2, SameStore

LEMMA TickBufferedWarm ==
    ASSUME NEW e, Whole(e), StoreOK(e), e.kind = "buffered", e.playing, now \in Nat, hidden \in BOOLEAN,
           NEW f, f = TickBuffered(e)
    PROVE  Warm(e, f)
<1>1. CASE e.loop # Idle /\ f = Scheduled(Seek(e, e.loop.start))
  <2>1. PICK t \in Times : t = e.loop.start
    BY <1>1 DEF Whole, Engines, Loops
  <2>2. PICK g : g = SeekBuffered(e, t)
    OBVIOUS
  <2>3. Whole(g) /\ Warm(e, g)
    BY <2>2, SeekBufferedIs, SeekBufferedWarm
  <2>4. f = Scheduled(g)
    BY <1>1, <2>1, <2>2 DEF Seek
  <2>5. Warm(g, f)
    BY <2>3, <2>4, ScheduledWarm DEF Warm
  <2> QED BY <2>3, <2>5, WarmThrough
<1>2. CASE f = [EndOfTrack(e) EXCEPT !.nodes = {}, !.moved = TRUE]
  BY <1>2, EndOfTrackWarm
<1>3. CASE f = Scheduled(e)
  BY <1>3, ScheduledWarm
<1> QED BY <1>1, <1>2, <1>3 DEF TickBuffered

LEMMA TickChunkedWarm ==
    ASSUME NEW e, Whole(e), StoreOK(e), e.kind = "chunked", e.playing, now \in Nat, hidden \in BOOLEAN,
           NEW f, f = TickChunked(e)
    PROVE  Warm(e, f)
<1>1. PICK warm : warm = IF e.loop # Idle /\ e.loop.end - Playhead(e) < Lookahead
                         THEN Fetch(e, PinnedChunk(e)) ELSE e
  OBVIOUS
<1>2. Whole(warm) /\ Warm(e, warm) /\ warm.loop = e.loop /\ ~warm.destroyed
  <2>1. CASE e.loop # Idle /\ warm = Fetch(e, PinnedChunk(e))
    <3>1. PICK c \in Chunks : c = PinnedChunk(e)
      BY <2>1, PinnedIs
    <3>2. Whole(warm) /\ Alike(e, warm) /\ Warm(e, warm)
      BY <2>1, <3>1, FetchIs, FetchWarm
    <3> QED BY <3>2 DEF Alike, Whole
  <2>2. CASE warm = e
    BY <2>2, SameStore DEF Whole
  <2> QED BY <1>1, <2>1, <2>2
<1>3. \/ e.loop # Idle /\ f = Seek(warm, e.loop.start)
      \/ f = EndOfTrack(warm)
      \/ f = Scheduled(MaybeSchedule(warm))
  BY <1>1 DEF TickChunked
<1>4. Warm(warm, f)
  <2>1. StoreOK(warm)
    BY <1>2 DEF Warm
  <2>2. CASE e.loop # Idle /\ f = Seek(warm, e.loop.start)
    <3>1. PICK t \in Times : t = e.loop.start
      BY <2>2 DEF Whole, Engines, Loops
    <3> QED BY <1>2, <2>1, <2>2, <3>1, SeekWarm
  <2>3. CASE f = EndOfTrack(warm)
    BY <1>2, <2>1, <2>3, EndOfTrackWarm
  <2>4. CASE f = Scheduled(MaybeSchedule(warm))
    <3>1. PICK g : g = MaybeSchedule(warm)
      OBVIOUS
    <3>2. Whole(g) /\ Warm(warm, g)
      BY <1>2, <2>1, <3>1, MaybeScheduleIs, MaybeScheduleWarm
    <3>3. Warm(g, f)
      BY <2>4, <3>1, <3>2, ScheduledWarm DEF Warm
    <3> QED BY <3>2, <3>3, WarmThrough
  <2> QED BY <1>3, <2>2, <2>3, <2>4
<1> QED BY <1>2, <1>4, WarmThrough

LEMMA TickWarm ==
    ASSUME NEW e, Whole(e), StoreOK(e), now \in Nat, hidden \in BOOLEAN, NEW f, f = Tick(e)
    PROVE  Warm(e, f)
<1>1. e \in Engines
  BY DEF Whole
<1>2. PICK run : run = [e EXCEPT !.tick = Idle]
  OBVIOUS
<1>3. run \in Engines
  BY <1>1, <1>2 DEF Engines
<1>4. /\ run.kind = e.kind /\ run.destroyed = e.destroyed /\ run.loop = e.loop /\ run.flights = e.flights
      /\ run.playing = e.playing /\ run.started = e.started /\ run.tick = Idle /\ run.nodes = e.nodes
      /\ run.cache = e.cache
  BY <1>1, <1>2 DEF Engines
<1>5. Whole(run) /\ Warm(e, run)
  BY <1>3, <1>4, SameStore DEF Whole
<1>6. StoreOK(run)
  BY <1>5 DEF Warm
<1>7. CASE ~e.playing
  BY <1>2, <1>5, <1>7 DEF Tick
<1>8. CASE e.playing /\ e.kind = "buffered"
  <2>1. f = TickBuffered(run) /\ run.playing /\ run.kind = "buffered"
    BY <1>2, <1>4, <1>8 DEF Tick
  <2>2. Warm(run, f)
    BY <1>5, <1>6, <2>1, TickBufferedWarm
  <2> QED BY <1>5, <2>2, WarmThrough
<1>9. CASE e.playing /\ e.kind # "buffered"
  <2>1. f = TickChunked(run) /\ run.playing /\ run.kind = "chunked"
    BY <1>1, <1>2, <1>4, <1>9 DEF Tick, Engines
  <2>2. Warm(run, f)
    BY <1>5, <1>6, <2>1, TickChunkedWarm
  <2> QED BY <1>5, <2>2, WarmThrough
<1> QED BY <1>7, <1>8, <1>9

(* A flight that comes down full fills its entry, and takes no other away. *)
LEMMA LandFlightWarm ==
    ASSUME NEW e, Whole(e), StoreOK(e), NEW f \in e.flights, NEW full \in BOOLEAN,
           full => f.chunk # PastEnd, NEW g, g = LandFlight(e, f, full)
    PROVE  /\ StoreOK(g)
           /\ full \/ f.chunk = PastEnd => Warm(e, g)
<1>1. e \in Engines /\ e.flights \in SUBSET Flights /\ e.cache \in [Chunks -> Nat \cup {Full}]
  BY DEF Whole, Engines
<1>2. f.chunk \in Chunks /\ f.id \in Nat \ {0}
  BY <1>1 DEF Flights
<1>3. PICK left : left = {k \in Chunks : k < f.chunk - 1 /\ k # PinnedChunk(e)}
                         \cup (IF full THEN {} ELSE {f.chunk})
  OBVIOUS
<1>4. PICK W : W = [i \in DOMAIN e.waiting |->
                    IF e.waiting[i].flight = f.id
                    THEN [e.waiting[i] EXCEPT !.flight = IF full THEN Full ELSE Absent]
                    ELSE e.waiting[i]]
  OBVIOUS
<1>5. PICK K : K = [k \in Chunks |-> IF k \in left THEN Absent
                                     ELSE IF e.cache[k] = f.id THEN Full ELSE e.cache[k]]
  OBVIOUS
<1>6. PICK F : F = e.flights \ {f}
  OBVIOUS
<1>7. g = [e EXCEPT !.flights = F, !.waiting = W, !.cache = K]
  <2>1. PICK y : y = [e EXCEPT !.flights = @ \ {f},
                 !.waiting = [i \in DOMAIN @ |->
                    IF @[i].flight = f.id THEN [@[i] EXCEPT !.flight = IF full THEN Full ELSE Absent]
                    ELSE @[i]],
                 !.cache = [k \in Chunks |-> IF k \in left THEN Absent
                                             ELSE IF @[k] = f.id THEN Full ELSE @[k]]]
    OBVIOUS
  <2>2. g = y
    BY <1>3, <2>1, Zenon DEF LandFlight
  <2>3. y = [e EXCEPT !.flights = F, !.waiting = W, !.cache = K]
    BY <1>1, <1>4, <1>5, <1>6, <2>1
  <2> QED BY <2>2, <2>3
<1>8. g.flights = F /\ g.cache = K /\ g.loop = e.loop
  BY <1>1, <1>7 DEF Engines
<1>9. Absent # Full /\ Absent \notin Nat \ {0} /\ Full \notin Nat /\ PastEnd \in Chunks
  BY PastEndIs DEF Absent, Full, Chunks
(* An entry the flight was to fill is its chunk's, so no other entry waits *)
(* for a flight that is gone.                                              *)
<1>10. ASSUME NEW c \in Chunks, e.cache[c] = f.id PROVE c = f.chunk
  <2>1. e.cache[c] \in Nat \ {0}
    BY <1>2, <1>10
  <2>2. [id |-> e.cache[c], chunk |-> c] \in e.flights
    BY <2>1 DEF StoreOK
  <2>3. PICK h : h = [id |-> e.cache[c], chunk |-> c]
    OBVIOUS
  <2>4. h \in e.flights /\ h.id = f.id /\ h.chunk = c
    BY <1>10, <2>2, <2>3
  <2>5. h = f
    BY <2>4 DEF StoreOK
  <2> QED BY <2>4, <2>5
<1>11. ASSUME NEW c \in Chunks, g.cache[c] \in Nat \ {0} PROVE [id |-> g.cache[c], chunk |-> c] \in g.flights
  <2>1. g.cache[c] = e.cache[c] /\ e.cache[c] # f.id
    BY <1>5, <1>8, <1>9, <1>11
  <2>2. [id |-> e.cache[c], chunk |-> c] \in e.flights
    BY <1>11, <2>1 DEF StoreOK
  <2>3. PICK h : h = [id |-> e.cache[c], chunk |-> c]
    OBVIOUS
  <2>4. h # f /\ h \in e.flights
    BY <2>1, <2>2, <2>3
  <2> QED BY <1>6, <1>8, <2>1, <2>3, <2>4
<1>12. g.cache[PastEnd] # Full
  <2>1. CASE e.cache[PastEnd] = f.id
    <3>1. f.chunk = PastEnd /\ ~full
      BY <1>9, <1>10, <2>1
    <3>2. PastEnd \in left
      BY <1>3, <3>1
    <3> QED BY <1>5, <1>8, <1>9, <3>2
  <2>2. CASE e.cache[PastEnd] # f.id
    BY <1>5, <1>8, <1>9, <2>2 DEF StoreOK
  <2> QED BY <2>1, <2>2
<1>13. StoreOK(g)
  <2>1. \A x, y \in g.flights : x.id = y.id => x = y
    BY <1>6, <1>8 DEF StoreOK
  <2> QED BY <1>11, <1>12, <2>1 DEF StoreOK
<1>14. ASSUME full \/ f.chunk = PastEnd, e.loop # Idle, e.cache[PinnedChunk(e)] = Full
       PROVE  g.cache[PinnedChunk(e)] = Full
  <2>1. PICK p \in Chunks : p = PinnedChunk(e)
    BY <1>14, PinnedIs
  <2>2. p # PastEnd
    BY <1>14, <2>1 DEF StoreOK
  <2>3. p \notin left
    BY <1>3, <1>14, <2>1, <2>2
  <2>4. K[p] = Full
    BY <1>5, <1>14, <2>1, <2>3
  <2> QED BY <1>8, <2>1, <2>4
<1> QED BY <1>8, <1>13, <1>14 DEF Warm, Cached

LEMMA ResumeWarm ==
    ASSUME NEW e, Whole(e), StoreOK(e), ~Settled(e), now \in Nat, hidden \in BOOLEAN, NEW f, f = Resume(e)
    PROVE  Warm(e, f)
<1>1. PICK w : w = Next1(e)
  OBVIOUS
<1>2. PICK rest : rest = Dropped(e)
  OBVIOUS
<1>3. PICK full : full = (w.flight = Full)
  OBVIOUS
<1>4. w \in Waits /\ Whole(rest) /\ rest.playing = e.playing
  BY <1>1, <1>2, DroppedIs
<1>5. e \in Engines /\ rest \in Engines
  BY <1>4 DEF Whole
<1>6. Warm(e, rest)
  <2>1. PICK i : i = Min(Landed(e))
    OBVIOUS
  <2>2. PICK list : list = SubSeq(e.waiting, 1, i - 1) \o SubSeq(e.waiting, i + 1, Len(e.waiting))
    OBVIOUS
  <2>3. rest = [e EXCEPT !.waiting = SubSeq(@, 1, i - 1) \o SubSeq(@, i + 1, Len(@))]
    BY <1>2, <2>1, Zenon DEF Dropped
  <2>4. rest = [e EXCEPT !.waiting = list]
    BY <1>5, <2>2, <2>3 DEF Engines
  <2>5. rest.cache = e.cache /\ rest.flights = e.flights /\ rest.loop = e.loop
    BY <1>5, <2>4 DEF Engines
  <2> QED BY <2>5, SameStore
<1>7. f = IF w.what = "play"
          THEN IF StartHeld(e) THEN StartWith(rest, w.chunk, w.within, w.lead, full) ELSE rest
          ELSE IF e.playing /\ ~e.destroyed /\ full THEN HangNext([rest EXCEPT !.filling = FALSE], w.chunk)
               ELSE [rest EXCEPT !.filling = FALSE]
  BY <1>1, <1>2, <1>3, Zenon DEF Resume
<1>8. CASE f = rest
  BY <1>6, <1>8
<1>9. CASE StartHeld(e) /\ f = StartWith(rest, w.chunk, w.within, w.lead, full)
  <2>1. rest.playing
    BY <1>4, <1>9 DEF StartHeld
  <2>2. PICK c \in Chunks, i \in 0..(Chunk - 1), lead \in Nat : c = w.chunk /\ i = w.within /\ lead = w.lead
    BY <1>4 DEF Waits
  <2>3. Warm(rest, f)
    BY <1>4, <1>6, <1>9, <2>1, <2>2, StartWithWarm DEF Warm
  <2> QED BY <1>6, <2>3, WarmThrough
<1>10. PICK free : free = [rest EXCEPT !.filling = FALSE]
  OBVIOUS
<1>11. free \in Engines
  BY <1>5, <1>10 DEF Engines
<1>12. /\ free.kind = rest.kind /\ free.destroyed = rest.destroyed /\ free.loop = rest.loop
       /\ free.flights = rest.flights /\ free.playing = rest.playing /\ free.started = rest.started
       /\ free.tick = rest.tick /\ free.nodes = rest.nodes /\ free.cache = rest.cache
  BY <1>5, <1>10 DEF Engines
<1>13. Whole(free) /\ Warm(rest, free)
  BY <1>4, <1>6, <1>11, <1>12, SameStore DEF Whole, Warm
<1>14. Warm(e, free)
  BY <1>6, <1>13, WarmThrough
<1>15. CASE f = free
  BY <1>14, <1>15
<1>16. CASE f = HangNext(free, w.chunk)
  <2>1. Warm(free, f)
    BY <1>13, <1>16, HangNextWarm DEF Warm
  <2> QED BY <1>14, <2>1, WarmThrough
<1> QED BY <1>7, <1>8, <1>9, <1>10, <1>15, <1>16

-----------------------------------------------------------------------------
(* A chunk that stands in the cache is lost to the loop only with the      *)
(* engine, with another loop or with the network.                          *)
StaysWarm ==
    \/ Warm(engine, engine')
    \/ StoreOK(engine') /\ (engine'.destroyed \/ engine'.loop # engine.loop \/ play'.losses # play.losses)

LEMMA UntouchedKept ==
    ASSUME TransportInv, StoreOK(engine), engine'.cache = engine.cache,
           engine'.flights = engine.flights, engine'.loop = engine.loop
    PROVE  StaysWarm
BY SameStore DEF StaysWarm

LEMMA PressPlayKept == ASSUME TransportInv, StoreOK(engine), PressPlay PROVE StaysWarm
<1>1. Whole(engine) /\ Ticks(engine) /\ now \in Nat /\ hidden \in BOOLEAN /\ starts \in Seq(Starts)
  BY DEF TransportInv, TransportTypes
<1>2. PICK e : e = StartFrom(engine)
  OBVIOUS
<1>3. PICK counts : counts = ("count" \in play.does)
  OBVIOUS
<1>4. PICK n \in Nat : n = Len(starts)
  BY <1>1
<1>5. PICK call \in Nat : call = IF counts THEN n + 1 ELSE 0
  OBVIOUS
<1>6. PICK lead \in Nat : lead = IF counts THEN LeadIn ELSE 0
  BY TransportAssumption
<1>7. ~engine.playing /\ ~engine.destroyed /\ engine' = Play(e, lead, call)
  BY <1>2, <1>3, <1>4, <1>5, <1>6 DEF PressPlay, CanPlay
<1>8. Whole(e) /\ ~e.playing /\ ~e.destroyed
  <2>1. Follows(engine, e)
    BY <1>1, <1>2, StartFromIs
  <2> QED BY <1>7, <2>1 DEF Follows, Kin
<1>9. Warm(engine, e)
  <2>1. CASE engine.loop # Idle
    <3>1. PICK t \in Times : t = engine.loop.start
      BY <1>1, <2>1 DEF Whole, Engines, Loops
    <3>2. e = Seek(engine, t)
      BY <1>2, <2>1, <3>1 DEF StartFrom
    <3> QED BY <1>1, <3>2, SeekWarm
  <2>2. CASE engine.loop = Idle
    BY <1>2, <2>2, SameStore DEF StartFrom
  <2> QED BY <2>1, <2>2
<1>10. Warm(e, engine')
  BY <1>1, <1>7, <1>8, <1>9, PlayWarm DEF Warm
<1> QED BY <1>9, <1>10, WarmThrough DEF StaysWarm

LEMMA PressStopKept == ASSUME TransportInv, StoreOK(engine), PressStop PROVE StaysWarm
<1>1. Whole(engine) /\ now \in Nat /\ hidden \in BOOLEAN
  BY DEF TransportInv, TransportTypes
<1>2. PICK p : p = Pause(engine)
  OBVIOUS
<1>3. Whole(p) /\ Warm(engine, p)
  BY <1>1, <1>2, PauseIs, PauseWarm
<1>4. PICK t \in Times : t = IF engine.loop # Idle THEN engine.loop.start ELSE 0
  <2>1. 0 \in Times /\ (engine.loop # Idle => engine.loop.start \in Times)
    BY <1>1, EngineAssumption DEF Whole, Engines, Loops, Times
  <2> QED BY <2>1
<1>5. engine' = Seek(p, t)
  BY <1>2, <1>4 DEF PressStop
<1>6. Warm(p, engine')
  BY <1>1, <1>3, <1>5, SeekWarm DEF Warm
<1> QED BY <1>3, <1>6, WarmThrough DEF StaysWarm

LEMMA TeardownKept == ASSUME TransportInv, StoreOK(engine), Teardown PROVE StaysWarm
<1>1. Whole(engine) /\ now \in Nat
  BY DEF TransportInv, TransportTypes
<1>2. PICK p : p = Pause(engine)
  OBVIOUS
<1>3. Whole(p) /\ Warm(engine, p)
  BY <1>1, <1>2, PauseIs, PauseWarm
<1>4. PICK k : k = [c \in Chunks |-> Absent]
  OBVIOUS
<1>5. engine' = [p EXCEPT !.destroyed = TRUE, !.tick = Idle, !.nodes = {}, !.cache = k]
  BY <1>2, <1>4 DEF Teardown, DestroyEngine
<1>6. engine'.destroyed = TRUE /\ engine'.cache = k /\ engine'.flights = p.flights
  BY <1>3, <1>5 DEF Whole, Engines
<1>7. Absent # Full /\ Absent \notin Nat \ {0} /\ PastEnd \in Chunks
  BY PastEndIs DEF Absent, Full, Chunks
<1>8. StoreOK(engine')
  BY <1>3, <1>4, <1>6, <1>7 DEF StoreOK, Warm
<1> QED BY <1>6, <1>8 DEF StaysWarm

LEMMA LandKept == ASSUME TransportInv, StoreOK(engine), NEW f \in engine.flights, Land(f) PROVE StaysWarm
<1>1. Whole(engine)
  BY DEF TransportInv
<1>2. PICK full \in BOOLEAN : full = (f.chunk # PastEnd)
  OBVIOUS
<1>3. engine' = LandFlight(engine, f, full)
  BY <1>2 DEF Land
<1>4. Warm(engine, engine')
  BY <1>1, <1>2, <1>3, LandFlightWarm
<1> QED BY <1>4 DEF StaysWarm

LEMMA LoseFlightKept == ASSUME TransportInv, StoreOK(engine), NEW f \in engine.flights, LoseFlight(f) PROVE StaysWarm
<1>1. Whole(engine) /\ play \in Scenes
  BY DEF TransportInv, TransportTypes
<1>2. PICK full \in BOOLEAN : full = FALSE
  OBVIOUS
<1>3. engine' = LandFlight(engine, f, full)
  BY <1>2 DEF LoseFlight
<1>4. StoreOK(engine')
  BY <1>1, <1>2, <1>3, LandFlightWarm
<1>5. PICK n \in Int : n = play.losses
  BY <1>1 DEF Scenes
<1>6. play'.losses = n - 1
  BY <1>1, <1>5 DEF LoseFlight, Scenes
<1>7. play'.losses # play.losses
  BY <1>5, <1>6
<1>8. StoreOK(engine') /\ play'.losses # play.losses
  BY <1>4, <1>7
<1> QED BY <1>8 DEF StaysWarm

LEMMA SetLoopKept == ASSUME TransportInv, StoreOK(engine), NEW loop \in Spans, SetLoop(loop) PROVE StaysWarm
<1>1. engine \in Engines /\ engine' = [engine EXCEPT !.loop = loop] /\ loop # engine.loop
  BY DEF TransportInv, Whole, SetLoop
<1>2. engine'.cache = engine.cache /\ engine'.flights = engine.flights /\ engine'.loop # engine.loop
  BY <1>1 DEF Engines
<1>3. StoreOK(engine')
  BY <1>2 DEF StoreOK
<1> QED BY <1>2, <1>3 DEF StaysWarm

LEMMA TransportKept ==
    ASSUME TransportInv, StoreOK(engine), [TransportNext]_transportVars PROVE StaysWarm
<1>1. /\ Whole(engine) /\ now \in Nat /\ hidden \in BOOLEAN /\ engine \in Engines
  BY DEF TransportInv, TransportTypes, Whole
<1>2. CASE UNCHANGED engine
  BY <1>2, UntouchedKept
<1>3. CASE PressPause
  BY <1>1, <1>3, PauseWarm DEF PressPause, StaysWarm
<1>4. CASE ApplySpeed
  BY <1>1, <1>4, SetPlaybackRateWarm DEF ApplySpeed, StaysWarm
<1>5. CASE SwitchTab
  <2>1. engine' = engine \/ engine' = [engine EXCEPT !.tick = "timeout"]
    BY <1>5 DEF SwitchTab, OnHidden
  <2>2. engine'.cache = engine.cache /\ engine'.flights = engine.flights /\ engine'.loop = engine.loop
    BY <1>1, <2>1 DEF Engines
  <2> QED BY <2>2, UntouchedKept
<1>6. CASE MetronomeTick
  <2>1. engine' = engine \/ engine' = [engine EXCEPT !.moved = FALSE]
    BY <1>6 DEF MetronomeTick
  <2>2. engine'.cache = engine.cache /\ engine'.flights = engine.flights /\ engine'.loop = engine.loop
    BY <1>1, <2>1 DEF Engines
  <2> QED BY <2>2, UntouchedKept
<1>7. CASE TickLoop
  BY <1>1, <1>7, TickWarm DEF TickLoop, StaysWarm
<1>8. CASE Clock
  <2>1. PICK N : N = {n \in engine.nodes : n.at + (n.until - n.from) > now'}
    OBVIOUS
  <2>2. engine' = [engine EXCEPT !.nodes = N]
    BY <1>1, <1>8, <2>1 DEF Clock, Engines
  <2>3. engine'.cache = engine.cache /\ engine'.flights = engine.flights /\ engine'.loop = engine.loop
    BY <1>1, <2>2 DEF Engines
  <2> QED BY <2>3, UntouchedKept
<1>9. CASE Continue
  BY <1>1, <1>9, ResumeWarm DEF Continue, Rest, StaysWarm
<1>10. ASSUME NEW t \in 0..Length, ClickRuler(t) PROVE StaysWarm
  <2>1. engine' = Seek(engine, t) /\ t \in Times
    BY <1>10 DEF ClickRuler, Times
  <2> QED BY <1>1, <2>1, SeekWarm DEF StaysWarm
<1>11. CASE ToggleMetronome
  BY <1>2, <1>11 DEF ToggleMetronome
<1> QED BY <1>2, <1>3, <1>4, <1>5, <1>6, <1>7, <1>8, <1>9, <1>10, <1>11, PressPlayKept, PressStopKept,
           TeardownKept, SetLoopKept, LandKept, LoseFlightKept DEF TransportNext, transportVars

LEMMA StoreStarts == TransportInit => StoreOK(engine)
<1> SUFFICES ASSUME TransportInit PROVE StoreOK(engine)
  OBVIOUS
<1>1. PICK kind \in {"chunked", "buffered"} : kind = play.kind
  BY TransportAssumption DEF TransportInit
<1>2. PICK e : e = FreshEngine(kind)
  OBVIOUS
<1>3. PICK r : r = ReadyEngine(kind)
  OBVIOUS
<1>4. 0 \in Chunks /\ 1 \in Chunks /\ PastEnd \in Chunks
  <2>1. Length \in Nat \ {0} /\ Chunk \in Nat \ {0} /\ Length % Chunk = 0
    BY EngineAssumption
  <2>2. Length \div Chunk >= 1
    BY <2>1
  <2> QED BY <2>2, PastEndIs DEF Chunks, PastEnd
<1>5. Whole(e) /\ StoreOK(e)
  <2>1. /\ e.flights = {} /\ e.cache = [c \in Chunks |-> Absent]
    BY <1>2 DEF FreshEngine
  <2>2. StoreOK(e)
    BY <1>4, <2>1 DEF StoreOK, Absent, Full
  <2>3. Whole(e)
    BY <1>2, FreshEngineIs
  <2> QED BY <2>2, <2>3
<1>6. StoreOK(r)
  <2>1. CASE r = e
    BY <1>5, <2>1
  <2>2. CASE r # e
    <3>1. PICK a \in Chunks, z \in Chunks : z = 0 /\ a = 1
      BY <1>4
    <3>2. PICK g : g = Fetch(e, z)
      OBVIOUS
    <3>3. Whole(g) /\ StoreOK(g)
      BY <1>5, <3>2, FetchIs, FetchWarm DEF Warm
    <3>4. r = Fetch(g, a)
      BY <1>2, <1>3, <2>2, <3>1, <3>2 DEF ReadyEngine
    <3> QED BY <3>3, <3>4, FetchWarm DEF Warm
  <2> QED BY <2>1, <2>2
<1>7. Whole(r)
  BY <1>3, ReadyIs
<1>8. engine = [r EXCEPT !.loop = play.loop]
  BY <1>1, <1>3 DEF TransportInit
<1>9. engine.cache = r.cache /\ engine.flights = r.flights
  BY <1>7, <1>8 DEF Whole, Engines
<1> QED BY <1>6, <1>9 DEF StoreOK

(* The chunk a loop starts in, once it is in the cache, stays there while  *)
(* the loop stands and the network holds: every pass replays without a     *)
(* fetch (chunkedAudioEngine.js, the pin of _evict and of seek).           *)
THEOREM LoopsStayWarm == TransportSpec => LoopStaysWarm
<1>1. TransportInv /\ StoreOK(engine) /\ [TransportNext]_transportVars =>
         (TransportInv /\ StoreOK(engine))'
  BY TransportKeeps, TransportKept DEF StaysWarm, Warm, StoreOK
<1>2. TransportInv /\ StoreOK(engine) /\ [TransportNext]_transportVars =>
         [(/\ engine.loop # Idle /\ engine'.loop = engine.loop
           /\ ~engine'.destroyed /\ play'.losses = play.losses)
          => (Cached(engine, PinnedChunk(engine)) => Cached(engine', PinnedChunk(engine)))
         ]_transportVars
  BY TransportKept DEF StaysWarm, Warm
<1> QED BY <1>1, <1>2, TransportStarts, StoreStarts, PTL DEF TransportSpec, LoopStaysWarm

-----------------------------------------------------------------------------
(* The parts of the studio together.                                       *)

(* Every part's state is of its types, whatever the others do.             *)
THEOREM StudioTypesCorrect == StudioSpec => []StudioTypesOK
<1>1. /\ RoutingTypeOK /\ PlayerTypeOK /\ DeskTypeOK /\ GridTypeOK /\ SectionsTypeOK /\ LyricsTypeOK
      => StudioTypesOK
  BY DEF StudioTypesOK
<1> QED BY <1>1, RoutingTypeCorrect, EveryPlayerIsWhole, DeskStaysHeard, GridStaysInOrder, SectionsStayApart,
        LyricsStayTheirs, PTL DEF StudioSpec

(* The grid, the snapshots taken of it and what the server keeps of it     *)
(* stay in order, no two sections added overlap, and the lines of the      *)
(* lyrics keep one time in order (beatgrid.js, sections.js, lyricsSync.js).*)
THEOREM EditorsStaySound == StudioSpec => []EditorsHold
<1>1. GridIsInOrder /\ AddedSectionsStayApart /\ LyricsKeepTime => EditorsHold
  BY DEF EditorsHold
<1> QED BY <1>1, GridStaysInOrder, SectionsStayApart, LyricsStayInTime, PTL DEF StudioSpec
=============================================================================

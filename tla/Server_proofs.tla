---------------------------- MODULE Server_proofs -----------------------------
(* Proofs about the server: the event streams, and the work on the GPU.     *)
EXTENDS JobStream, GpuWork, FiniteSetTheorems, SequenceTheorems, TLAPS

-----------------------------------------------------------------------------
(***************************************************************************)
(* Proofs about JobStream for any number of streams, any bound on them and *)
(* any sequence of _set() calls: the slots are counted, and a stream that  *)
(* has caught up shows the job as it is.  A stream is right because each   *)
(* _set() ends with the version (WritesEndInVersion): a field read before  *)
(* the write of it is found out when the version is read again.            *)
(***************************************************************************)

Places == {"off", "claimed", "refused", "turn", "reading", "ending", "closed"}
Fields == [FieldNames -> Texts]
StreamStates ==
    [at : Places, version : Nat, last : Nat, read : 0..3, frame : Fields, sent : Fields]
Writes == (FieldNames \cup {"version"}) \X Texts

StreamTypeOK ==
    /\ told \in [fields : Fields, version : Nat \ {0}]
    /\ script \in Seq(Seq(FieldNames \X Texts))
    /\ setCalls \in Nat
    /\ writes \in Seq(Writes)
    /\ streams \in [Streams -> StreamStates]
    /\ sseActive \in Nat

Open == {s \in Streams : HoldsSlot(s)}
SlotsAreCounted == sseActive = Cardinality(Open) /\ sseActive <= MaxSse

(* The last write of a _set() is that of the version, and only that one.   *)
WritesEndInVersion ==
    \A i \in DOMAIN writes : writes[i][1] = "version" <=> i = Len(writes)

(* A version a stream holds was the job's.                                 *)
VersionsAreOld ==
    \A s \in Streams :
        /\ streams[s].last <= told.version /\ streams[s].version <= told.version
        /\ streams[s].at = "reading" => streams[s].last < streams[s].version

(* What a stream read under the version the job still has is what it has,  *)
(* unless a _set() is under way.                                           *)
ReadsAreTrue ==
    \A s \in Streams :
        streams[s].at = "reading" /\ streams[s].version = told.version /\ writes = <<>> =>
            \A i \in 1..streams[s].read :
                streams[s].frame[StateFields[i]] = told.fields[StateFields[i]]

CaughtUpIsTrue ==
    \A s \in Streams : CaughtUp(s) /\ writes = <<>> => streams[s].sent = told.fields

StreamInv ==
    /\ StreamTypeOK
    /\ SlotsAreCounted
    /\ WritesEndInVersion
    /\ VersionsAreOld
    /\ ReadsAreTrue
    /\ CaughtUpIsTrue

-----------------------------------------------------------------------------
(* What a stream in a state r must be for the invariant.                   *)
TakesSlot(r) == r.at \in {"claimed", "turn", "reading", "ending"}
FineStream(r) ==
    /\ r \in StreamStates
    /\ r.last <= told.version /\ r.version <= told.version
    /\ r.at = "reading" => r.last < r.version
    /\ r.at = "reading" /\ r.version = told.version /\ writes = <<>> =>
          \A i \in 1..r.read : r.frame[StateFields[i]] = told.fields[StateFields[i]]
    /\ r.at = "turn" /\ r.last = told.version /\ writes = <<>> => r.sent = told.fields

(* A stream goes to the state r, and the count follows.                    *)
StreamGoesTo(s, r) ==
    /\ streams' = [streams EXCEPT ![s] = r] /\ UNCHANGED <<told, script, setCalls, writes>>
    /\ sseActive' \in Int /\ sseActive' <= MaxSse
    /\ sseActive' = sseActive + (IF TakesSlot(r) THEN 1 ELSE 0) - (IF HoldsSlot(s) THEN 1 ELSE 0)

LEMMA StreamsAreFine ==
    ASSUME StreamInv, NEW s \in Streams
    PROVE  FineStream(streams[s])
  BY DEF StreamInv, StreamTypeOK, VersionsAreOld, ReadsAreTrue, CaughtUpIsTrue, CaughtUp, FineStream

(* The slots when one stream opens, closes or stays as it is.              *)
LEMMA SlotsWhenOneMoves ==
    ASSUME StreamInv, NEW s \in Streams, NEW r \in StreamStates, StreamGoesTo(s, r)
    PROVE  SlotsAreCounted' /\ sseActive' \in Nat
<1> USE DEF StreamGoesTo
<1>1. sseActive = Cardinality(Open) /\ streams \in [Streams -> StreamStates] /\ sseActive \in Nat
  BY DEF StreamInv, SlotsAreCounted, StreamTypeOK
<1>2. IsFiniteSet(Open) /\ IsFiniteSet(Open')
  <2>1. Open \subseteq Streams /\ Open' \subseteq Streams
    BY DEF Open
  <2> QED  BY <2>1, FS_Subset, StreamAssumption
<1>3. \A x \in Streams : streams'[x] = IF x = s THEN r ELSE streams[x]
  BY <1>1
<1>4. Open' = IF TakesSlot(r) THEN Open \cup {s} ELSE Open \ {s}
  <2>1. \A x \in Streams : HoldsSlot(x)' <=> IF x = s THEN TakesSlot(r) ELSE HoldsSlot(x)
    BY <1>3 DEF HoldsSlot, TakesSlot
  <2> QED  BY <2>1 DEF Open
<1>5. s \in Open <=> HoldsSlot(s)
  BY DEF Open
<1>6. Cardinality(Open \cup {s}) = IF s \in Open THEN Cardinality(Open) ELSE Cardinality(Open) + 1
  BY <1>2, FS_AddElement
<1>7. Cardinality(Open \ {s}) = IF s \in Open THEN Cardinality(Open) - 1 ELSE Cardinality(Open)
  BY <1>2, FS_RemoveElement
<1>8. Cardinality(Open') = sseActive'
  BY <1>1, <1>4, <1>5, <1>6, <1>7
<1>9. Cardinality(Open') \in Nat
  BY <1>2, FS_CardinalityType
<1> QED  BY <1>8, <1>9 DEF SlotsAreCounted

(* All a stream's own step does to the invariant.                          *)
LEMMA OneStreamMoves ==
    ASSUME StreamInv, NEW s \in Streams, NEW r, FineStream(r), StreamGoesTo(s, r)
    PROVE  StreamInv'
<1>1. r \in StreamStates /\ streams \in [Streams -> StreamStates]
  BY DEF FineStream, StreamInv, StreamTypeOK
<1>2. SlotsAreCounted' /\ sseActive' \in Nat
  BY <1>1, SlotsWhenOneMoves
<1> USE DEF StreamGoesTo
<1>3. StreamTypeOK'
  BY <1>1, <1>2 DEF StreamInv, StreamTypeOK
<1>4. \A x \in Streams : streams'[x] = r \/ streams'[x] = streams[x]
  BY <1>1
<1>5. \A x \in Streams : FineStream(streams'[x])
  BY <1>4, StreamsAreFine
<1>6. VersionsAreOld' /\ ReadsAreTrue' /\ CaughtUpIsTrue'
  BY <1>5 DEF FineStream, VersionsAreOld, ReadsAreTrue, CaughtUpIsTrue, CaughtUp
<1> QED  BY <1>2, <1>3, <1>6 DEF StreamInv, WritesEndInVersion

-----------------------------------------------------------------------------
LEMMA FramesAreFields == NewFrame \in Fields /\ QueuedFields \in Fields
<1>1. NewFrame \in Fields
  BY StreamAssumption DEF NewFrame, Fields
<1> DEFINE first == [NewFrame EXCEPT !["status"] = "queued"]
<1>2. first \in Fields
  BY <1>1, StreamAssumption DEF Fields
<1>3. QueuedFields = [first EXCEPT !["stage"] = "Queued"]
  BY DEF QueuedFields
<1> HIDE DEF first
<1> QED  BY <1>1, <1>2, <1>3, StreamAssumption DEF Fields

LEMMA FirstStream == NoStream \in StreamStates
<1>1. NewFrame \in Fields
  BY FramesAreFields
<1> QED  BY <1>1 DEF NoStream, StreamStates, Places

LEMMA StreamInitially == StreamInit => StreamInv
<1> SUFFICES ASSUME StreamInit PROVE StreamInv
  OBVIOUS
<1>1. NoStream \in StreamStates
  BY FirstStream
<1>2. StreamTypeOK
  <2>1. script \in Seq(Seq(FieldNames \X Texts)) /\ setCalls \in Nat /\ sseActive \in Nat
    BY StreamAssumption DEF StreamInit
  <2>2. told \in [fields : Fields, version : Nat \ {0}] /\ writes \in Seq(Writes)
    BY FramesAreFields DEF StreamInit
  <2>3. streams \in [Streams -> StreamStates]
    BY <1>1 DEF StreamInit
  <2> QED  BY <2>1, <2>2, <2>3 DEF StreamTypeOK
<1>3. Open = {}
  BY DEF StreamInit, Open, HoldsSlot, NoStream
<1>4. SlotsAreCounted
  <2>1. Cardinality(Open) = 0
    BY <1>3, FS_EmptySet
  <2>2. sseActive = 0 /\ 0 <= MaxSse
    <3>1. MaxSse \in Nat
      BY StreamAssumption
    <3> QED  BY <3>1 DEF StreamInit
  <2> QED  BY <2>1, <2>2 DEF SlotsAreCounted
<1>5. VersionsAreOld /\ ReadsAreTrue /\ CaughtUpIsTrue
  BY DEF StreamInit, NoStream, VersionsAreOld, ReadsAreTrue, CaughtUpIsTrue, CaughtUp
<1>6. WritesEndInVersion
  BY DEF StreamInit, WritesEndInVersion
<1> QED  BY <1>2, <1>4, <1>5, <1>6 DEF StreamInv

(* The pipeline thread's steps.                                            *)
LEMMA SetBeginsKeeps == StreamInv /\ SetBegins => StreamInv'
<1> SUFFICES ASSUME StreamInv, SetBegins PROVE StreamInv'
  OBVIOUS
<1> DEFINE call == script[setCalls + 1]
           version == <<"version", "">>
<1>1. /\ writes' = Append(call, version) /\ setCalls' = setCalls + 1
      /\ UNCHANGED <<told, script, streams, sseActive>>
  BY DEF SetBegins
<1>2. call \in Seq(FieldNames \X Texts)
  <2> DEFINE Calls == Seq(FieldNames \X Texts)
  <2>1. script \in Seq(Calls) /\ setCalls \in Nat /\ setCalls < Len(script)
    BY DEF SetBegins, StreamInv, StreamTypeOK
  <2> HIDE DEF Calls
  <2>2. call \in Calls
    BY <2>1
  <2> QED  BY <2>2 DEF Calls
<1> HIDE DEF call
<1>3. version \in Writes /\ version[1] = "version"
  BY StreamAssumption DEF Writes
<1> HIDE DEF version
<1>4. call \in Seq(Writes)
  <2>1. FieldNames \X Texts \subseteq Writes
    BY DEF Writes
  <2> QED  BY <1>2, <2>1, SeqMonotonic
<1>5. writes' \in Seq(Writes) /\ writes' # <<>>
  BY <1>1, <1>3, <1>4
<1>6. WritesEndInVersion'
  <2>1. \A i \in 1..Len(call) : call[i] \in FieldNames \X Texts
    BY <1>2
  <2>2. \A i \in 1..Len(call) : call[i][1] # "version"
    BY <2>1 DEF FieldNames
  <2>3. /\ Len(writes') = Len(call) + 1 /\ writes'[Len(call) + 1] = version
        /\ \A i \in 1..Len(call) : writes'[i] = call[i]
    BY <1>1, <1>2, <1>3, <1>4
  <2>4. DOMAIN writes' = 1..(Len(call) + 1) /\ Len(call) \in Nat
    BY <1>5, <2>3, <1>2
  <2> QED  BY <2>2, <2>3, <2>4, <1>3 DEF WritesEndInVersion
<1>7. StreamTypeOK' /\ VersionsAreOld' /\ SlotsAreCounted'
  BY <1>1, <1>5 DEF StreamInv, StreamTypeOK, VersionsAreOld, SlotsAreCounted, Open, HoldsSlot
<1> QED  BY <1>5, <1>6, <1>7 DEF StreamInv, ReadsAreTrue, CaughtUpIsTrue

LEMMA SetWritesKeeps == StreamInv /\ SetWrites => StreamInv'
<1> SUFFICES ASSUME StreamInv, SetWrites PROVE StreamInv'
  OBVIOUS
<1> DEFINE w == Head(writes)
<1>1. /\ writes # <<>> /\ writes' = Tail(writes) /\ UNCHANGED <<script, setCalls, streams, sseActive>>
      /\ told' = IF w[1] = "version" THEN [told EXCEPT !.version = told.version + 1]
                 ELSE [told EXCEPT !.fields[w[1]] = w[2]]
  BY DEF SetWrites
<1>2. writes \in Seq(Writes) /\ told \in [fields : Fields, version : Nat \ {0}]
  BY DEF StreamInv, StreamTypeOK
<1>3. w = writes[1] /\ w \in Writes /\ Len(writes) \in Nat \ {0} /\ 1 \in DOMAIN writes
  BY <1>1, <1>2
<1> HIDE DEF w
<1>4. /\ writes' \in Seq(Writes) /\ Len(writes') = Len(writes) - 1
      /\ \A i \in DOMAIN writes' : i + 1 \in DOMAIN writes /\ writes'[i] = writes[i + 1]
  BY <1>1, <1>2
<1>5. WritesEndInVersion'
  <2>1. ASSUME NEW i \in DOMAIN writes' PROVE writes'[i][1] = "version" <=> i = Len(writes')
    <3>1. writes'[i][1] = "version" <=> i + 1 = Len(writes)
      BY <1>4 DEF StreamInv, WritesEndInVersion
    <3>2. i \in Int
      BY <1>4
    <3> QED  BY <3>1, <3>2, <1>3, <1>4
  <2> QED  BY <2>1 DEF WritesEndInVersion
<1>6. SlotsAreCounted'
  BY <1>1 DEF StreamInv, SlotsAreCounted, Open, HoldsSlot
<1>7. w[1] = "version" <=> Len(writes) = 1
  BY <1>3 DEF StreamInv, WritesEndInVersion
<1>8. streams \in [Streams -> StreamStates]
  BY DEF StreamInv, StreamTypeOK
<1>9. CASE w[1] = "version"
  <2>1. told'.version = told.version + 1 /\ told' \in [fields : Fields, version : Nat \ {0}]
    BY <1>1, <1>2, <1>9
  <2>2. \A s \in Streams : /\ streams[s].last \in Nat /\ streams[s].version \in Nat
                           /\ streams[s].last <= told.version /\ streams[s].version <= told.version
    BY <1>8 DEF StreamStates, StreamInv, VersionsAreOld
  <2>3. VersionsAreOld'
    BY <2>1, <2>2, <1>1, <1>2 DEF StreamInv, VersionsAreOld
  <2>4. ReadsAreTrue' /\ CaughtUpIsTrue'
    BY <2>1, <2>2, <1>1, <1>2 DEF ReadsAreTrue, CaughtUpIsTrue, CaughtUp
  <2> QED  BY <2>1, <2>3, <2>4, <1>1, <1>4, <1>5, <1>6 DEF StreamInv, StreamTypeOK
<1>10. CASE w[1] # "version"
  <2>1. w[1] \in FieldNames /\ w[2] \in Texts
    BY <1>3, <1>10 DEF Writes
  <2>2. told'.version = told.version /\ told' \in [fields : Fields, version : Nat \ {0}]
    BY <1>1, <1>2, <1>10, <2>1 DEF Fields
  <2>3. writes' # <<>>
    BY <1>3, <1>4, <1>7, <1>10
  <2>4. VersionsAreOld'
    BY <2>2, <1>1 DEF StreamInv, VersionsAreOld
  <2>5. ReadsAreTrue' /\ CaughtUpIsTrue'
    BY <2>3 DEF ReadsAreTrue, CaughtUpIsTrue
  <2> QED  BY <2>2, <2>4, <2>5, <1>1, <1>4, <1>5, <1>6 DEF StreamInv, StreamTypeOK
<1> QED  BY <1>9, <1>10

(* The steps of a stream: each is OneStreamMoves to the state r it gives.  *)
LEMMA ReleaseKeeps ==
    ASSUME StreamInv, NEW s \in Streams, HoldsSlot(s), ReleaseSlot(s),
           UNCHANGED <<told, script, setCalls, writes>>
    PROVE  StreamInv'
<1> DEFINE r == [streams[s] EXCEPT !.at = "closed"]
<1>1. FineStream(r) /\ ~TakesSlot(r)
  <2>1. FineStream(streams[s])
    BY StreamsAreFine
  <2>2. r \in StreamStates /\ r.at = "closed" /\ r.last = streams[s].last /\ r.version = streams[s].version
    BY <2>1 DEF FineStream, StreamStates, Places
  <2> QED  BY <2>1, <2>2 DEF FineStream, TakesSlot
<1>2. streams' = [streams EXCEPT ![s] = r] /\ sseActive' = sseActive - 1
  BY DEF ReleaseSlot
<1> HIDE DEF r
<1>3. sseActive \in Nat /\ sseActive <= MaxSse /\ MaxSse \in Nat
  BY StreamAssumption DEF StreamInv, StreamTypeOK, SlotsAreCounted
<1>8. StreamGoesTo(s, r)
  BY <1>1, <1>2, <1>3 DEF StreamGoesTo
<1> QED  BY <1>1, <1>2, <1>3, <1>8, OneStreamMoves

LEMMA ClaimKeeps == ASSUME StreamInv, NEW s \in Streams, ClaimSlot(s) PROVE StreamInv'
<1>1. /\ streams[s].at = "off" /\ UNCHANGED <<told, script, setCalls, writes>>
      /\ ~HoldsSlot(s)
  BY DEF ClaimSlot, HoldsSlot
<1>2. sseActive \in Nat /\ sseActive <= MaxSse /\ MaxSse \in Nat
      /\ told.version \in Nat \ {0} /\ streams[s] \in StreamStates
  BY StreamAssumption DEF StreamInv, StreamTypeOK, SlotsAreCounted
<1>3. CASE sseActive < MaxSse
  <2> DEFINE r == [NoStream EXCEPT !.at = "claimed"]
  <2>1. streams' = [streams EXCEPT ![s] = r] /\ sseActive' = sseActive + 1
    BY <1>2, <1>3 DEF ClaimSlot
  <2>2. r \in StreamStates /\ r.at = "claimed" /\ r.last = 0 /\ r.version = 0
    BY FirstStream DEF NoStream, StreamStates, Places
  <2>3. FineStream(r) /\ TakesSlot(r)
    BY <2>2, <1>2 DEF FineStream, TakesSlot
  <2> HIDE DEF r
  <2>8. StreamGoesTo(s, r)
    BY <1>1, <1>2, <1>3, <2>1, <2>3 DEF StreamGoesTo
  <2> QED  BY <1>1, <1>2, <1>3, <2>1, <2>3, <2>8, OneStreamMoves
<1>4. CASE ~(sseActive < MaxSse)
  <2> DEFINE r == [streams[s] EXCEPT !.at = "refused"]
  <2>1. streams' = [streams EXCEPT ![s] = r] /\ sseActive' = sseActive
    BY <1>2, <1>4 DEF ClaimSlot
  <2>2. r \in StreamStates /\ r.at = "refused" /\ r.last = streams[s].last /\ r.version = streams[s].version
    BY <1>2 DEF StreamStates, Places
  <2>3. FineStream(r) /\ ~TakesSlot(r)
    BY <2>2, StreamsAreFine DEF FineStream, TakesSlot
  <2> HIDE DEF r
  <2>8. StreamGoesTo(s, r)
    BY <1>1, <1>2, <2>1, <2>3 DEF StreamGoesTo
  <2> QED  BY <1>1, <1>2, <2>1, <2>3, <2>8, OneStreamMoves
<1> QED  BY <1>3, <1>4

LEMMA TurnKeeps == ASSUME StreamInv, NEW s \in Streams, SseTurn(s) PROVE StreamInv'
<1>1. HoldsSlot(s) /\ UNCHANGED <<told, script, setCalls, writes>>
  BY DEF SseTurn, HoldsSlot
<1>2. sseActive \in Nat /\ sseActive <= MaxSse /\ MaxSse \in Nat
      /\ told.version \in Nat \ {0} /\ streams[s] \in StreamStates
  BY StreamAssumption DEF StreamInv, StreamTypeOK, SlotsAreCounted
<1>3. CASE told.version # streams[s].last
  <2> DEFINE r == [streams[s] EXCEPT !.at = "reading", !.version = told.version, !.read = 0,
                                     !.frame = NewFrame]
  <2>1. streams' = [streams EXCEPT ![s] = r] /\ sseActive' = sseActive
    BY <1>2, <1>3 DEF SseTurn
  <2>2. r \in StreamStates
    <3>1. NewFrame \in Fields
      BY FramesAreFields
    <3> DEFINE r1 == [streams[s] EXCEPT !.at = "reading", !.version = told.version]
    <3>2. r1 \in StreamStates
      BY <1>2 DEF StreamStates, Places
    <3>3. r = [r1 EXCEPT !.read = 0, !.frame = NewFrame]
      OBVIOUS
    <3> DEFINE r2 == [r1 EXCEPT !.read = 0]
    <3> HIDE DEF r1, r
    <3>4. r2 \in StreamStates
      BY <3>2 DEF StreamStates
    <3>5. r = [r2 EXCEPT !.frame = NewFrame]
      BY <3>3
    <3> HIDE DEF r2
    <3> QED  BY <3>1, <3>4, <3>5 DEF StreamStates
  <2>3. r.at = "reading" /\ r.last = streams[s].last /\ r.version = told.version /\ r.read = 0
    BY <1>2 DEF StreamStates
  <2>4. streams[s].last <= told.version /\ streams[s].last \in Nat
    BY <1>2 DEF StreamInv, VersionsAreOld, StreamStates
  <2>5. FineStream(r) /\ TakesSlot(r)
    BY <2>2, <2>3, <2>4, <1>2, <1>3 DEF FineStream, TakesSlot
  <2> HIDE DEF r
  <2>8. StreamGoesTo(s, r)
    BY <1>1, <1>2, <2>1, <2>5 DEF StreamGoesTo
  <2> QED  BY <1>1, <1>2, <2>1, <2>5, <2>8, OneStreamMoves
<1>4. CASE ~(told.version # streams[s].last)
  BY <1>1, <1>4, ReleaseKeeps DEF SseTurn
<1> QED  BY <1>3, <1>4

LEMMA ReadKeeps == ASSUME StreamInv, NEW s \in Streams, ReadField(s) PROVE StreamInv'
<1> DEFINE n == streams[s].read + 1
           f == StateFields[n]
           r == [streams[s] EXCEPT !.read = n, !.frame = [streams[s].frame EXCEPT ![f] = told.fields[f]]]
<1>1. /\ HoldsSlot(s) /\ streams[s].at = "reading" /\ streams[s].read < 3
      /\ UNCHANGED <<told, script, setCalls, writes, sseActive>>
  BY DEF ReadField, HoldsSlot, StateFields
<1>2. /\ sseActive \in Nat /\ sseActive <= MaxSse /\ streams[s] \in StreamStates
      /\ streams \in [Streams -> StreamStates] /\ told.fields \in Fields
  BY DEF StreamInv, StreamTypeOK, SlotsAreCounted
<1>3. n \in 1..3 /\ f \in FieldNames
  BY <1>1, <1>2 DEF StreamStates, StateFields, FieldNames
<1>4. streams' = [streams EXCEPT ![s] = r]
  BY <1>2 DEF ReadField, StreamStates
<1> DEFINE frame == [streams[s].frame EXCEPT ![f] = told.fields[f]]
<1>9. frame \in Fields /\ n \in 0..3
  BY <1>2, <1>3 DEF StreamStates, Fields
<1> HIDE DEF frame, n
<1>5. /\ r \in StreamStates
      /\ r.at = "reading" /\ r.last = streams[s].last /\ r.version = streams[s].version /\ r.read = n
      /\ r.frame = [streams[s].frame EXCEPT ![f] = told.fields[f]]
  <2>1. r = [streams[s] EXCEPT !.read = n, !.frame = frame]
    BY DEF frame
  <2>2. r \in StreamStates
    BY <2>1, <1>2, <1>9 DEF StreamStates
  <2>3. /\ r.at = "reading" /\ r.last = streams[s].last /\ r.version = streams[s].version
        /\ r.read = n /\ r.frame = frame
    BY <2>1, <1>1, <1>2 DEF StreamStates
  <2> QED  BY <2>2, <2>3 DEF frame
<1> HIDE DEF r
<1>6. ASSUME r.version = told.version, writes = <<>>, NEW i \in 1..n
      PROVE  r.frame[StateFields[i]] = told.fields[StateFields[i]]
  <2>1. StateFields[i] \in FieldNames /\ streams[s].frame \in Fields
    BY <1>2, <1>3 DEF StateFields, FieldNames, StreamStates
  <2>2. CASE StateFields[i] = f
    BY <2>1, <2>2, <1>5 DEF Fields
  <2>3. CASE StateFields[i] # f
    <3>1. i \in 1..streams[s].read
      <4>1. i \in 1..n /\ i # n
        BY <2>3
      <4> QED  BY <4>1, <1>2 DEF StreamStates, n
    <3>2. streams[s].frame[StateFields[i]] = told.fields[StateFields[i]]
      BY <3>1, <1>1, <1>5, <1>6 DEF StreamInv, ReadsAreTrue
    <3> QED  BY <2>1, <2>3, <3>2, <1>5 DEF Fields
  <2> QED  BY <2>2, <2>3
<1>7. FineStream(r) /\ TakesSlot(r)
  BY <1>1, <1>5, <1>6, StreamsAreFine DEF FineStream, TakesSlot
<1>8. StreamGoesTo(s, r)
  BY <1>1, <1>2, <1>4, <1>7 DEF StreamGoesTo
<1> QED  BY <1>1, <1>2, <1>4, <1>7, <1>8, OneStreamMoves

LEMMA SendKeeps == ASSUME StreamInv, NEW s \in Streams, SendOrRetry(s) PROVE StreamInv'
<1>1. /\ HoldsSlot(s) /\ streams[s].at = "reading" /\ streams[s].read = 3
      /\ UNCHANGED <<told, script, setCalls, writes, sseActive>>
  BY DEF SendOrRetry, HoldsSlot, StateFields
<1>2. /\ sseActive \in Nat /\ sseActive <= MaxSse /\ streams[s] \in StreamStates
      /\ told.fields \in Fields /\ told.version \in Nat
  BY DEF StreamInv, StreamTypeOK, SlotsAreCounted
<1>3. FineStream(streams[s])
  BY StreamsAreFine
<1>4. CASE told.version # streams[s].version
  <2> DEFINE r == [streams[s] EXCEPT !.at = "turn"]
  <2>1. streams' = [streams EXCEPT ![s] = r]
    BY <1>4 DEF SendOrRetry
  <2>2. r \in StreamStates /\ r.at = "turn" /\ r.last = streams[s].last /\ r.version = streams[s].version
    BY <1>2 DEF StreamStates, Places
  <2>3. r.last # told.version
    BY <2>2, <1>1, <1>2, <1>3 DEF FineStream, StreamStates
  <2>4. FineStream(r) /\ TakesSlot(r)
    BY <2>2, <2>3, <1>3 DEF FineStream, TakesSlot
  <2> HIDE DEF r
  <2>8. StreamGoesTo(s, r)
    BY <1>1, <1>2, <2>1, <2>4 DEF StreamGoesTo
  <2> QED  BY <1>1, <1>2, <2>1, <2>4, <2>8, OneStreamMoves
<1>5. CASE told.version = streams[s].version
  <2> DEFINE next == IF streams[s].frame["status"] \in EndStatuses THEN "ending" ELSE "turn"
             r == [streams[s] EXCEPT !.sent = streams[s].frame, !.last = streams[s].version, !.at = next]
  <2>1. streams' = [streams EXCEPT ![s] = r]
    BY <1>5 DEF SendOrRetry
  <2>2. next \in {"ending", "turn"}
    OBVIOUS
  <2> HIDE DEF next
  <2>3. /\ r \in StreamStates /\ r.at = next /\ r.last = streams[s].version
        /\ r.version = streams[s].version /\ r.sent = streams[s].frame
    BY <1>2, <2>2 DEF StreamStates, Places
  <2>4. writes = <<>> => r.sent = told.fields
    <3>1. streams[s].frame \in Fields
      BY <1>2 DEF StreamStates
    <3>2. ASSUME writes = <<>>, NEW f \in FieldNames PROVE streams[s].frame[f] = told.fields[f]
      <4>1. \E i \in 1..3 : StateFields[i] = f
        BY DEF StateFields, FieldNames
      <4> QED  BY <4>1, <3>2, <1>1, <1>3, <1>5 DEF FineStream
    <3> QED  BY <3>1, <3>2, <2>3, <1>2 DEF Fields
  <2>5. FineStream(r) /\ TakesSlot(r)
    BY <2>2, <2>3, <2>4, <1>2, <1>3 DEF FineStream, TakesSlot
  <2> HIDE DEF r
  <2>8. StreamGoesTo(s, r)
    BY <1>1, <1>2, <2>1, <2>5 DEF StreamGoesTo
  <2> QED  BY <1>1, <1>2, <2>1, <2>5, <2>8, OneStreamMoves
<1> QED  BY <1>4, <1>5

LEMMA StreamStep == StreamInv /\ [StreamNext]_streamVars => StreamInv'
<1> SUFFICES ASSUME StreamInv, [StreamNext]_streamVars PROVE StreamInv'
  OBVIOUS
<1>1. ASSUME NEW s \in Streams, Collected(s) \/ StreamEnds(s) PROVE StreamInv'
  <2>1. HoldsSlot(s) /\ ReleaseSlot(s) /\ UNCHANGED <<told, script, setCalls, writes>>
    BY <1>1 DEF Collected, StreamEnds, HoldsSlot
  <2> QED  BY <2>1, ReleaseKeeps
<1>2. ASSUME UNCHANGED streamVars PROVE StreamInv'
  BY <1>2 DEF streamVars, StreamInv, StreamTypeOK, SlotsAreCounted, Open, HoldsSlot,
              WritesEndInVersion, VersionsAreOld, ReadsAreTrue, CaughtUpIsTrue, CaughtUp
<1> QED  BY <1>1, <1>2, SetBeginsKeeps, SetWritesKeeps, ClaimKeeps, TurnKeeps, ReadKeeps, SendKeeps
         DEF StreamNext

LEMMA StreamInvHolds == StreamSpec => []StreamInv
  BY StreamInitially, StreamStep, PTL DEF StreamSpec

(* The state of the streams is of its type.                                *)
THEOREM StreamTypeCorrect == StreamSpec => []StreamTypeOK
<1>1. StreamInv => StreamTypeOK
  BY DEF StreamInv
<1> QED  BY <1>1, StreamInvHolds, PTL

(* _sse_active counts the streams that are open, at most as many as        *)
(* _MAX_SSE_CONNECTIONS, and a stream that has caught up shows the job as  *)
(* it is once no _set() is under way.                                      *)
THEOREM StreamsTellTheTruth == StreamSpec => []StreamsAreTrue
<1>1. StreamInv => StreamsAreTrue
  BY DEF StreamInv, SlotsAreCounted, Open, CaughtUpIsTrue, StreamsAreTrue
<1> QED  BY <1>1, StreamInvHolds, PTL

-----------------------------------------------------------------------------
(***************************************************************************)
(* Proofs about the work on the GPU.  For any jobs, devices and number of  *)
(* processes: the one process kept between the jobs is clean, the only one *)
(* that lives, and found only by the job it works for.  For any jobs, runs *)
(* and stops: a lyric run holds the slot of its job until it is over or    *)
(* flagged, and what flagged it can still see whether it is over.          *)
(***************************************************************************)


Pids == 1..MaxProcesses
ProcessStates == [device : Devices, state : {"unborn", "live", "dying", "dead"}, soiled : BOOLEAN]
Ats == {"none", "ask", "set", "send", "reading", "close", "raised", "asked", "decide", "clean"}
Passes ==
    [job : SepJobs \cup {NoSepJob}, at : Ats, device : Devices, retry : BOOLEAN,
     proc : Pids \cup {0}, ok : {"unknown", "yes", "no"}]
Stoppers == [at : {"none", "look", "signal", "over"}, proc : Pids \cup {0}]

SepTypeOK ==
    /\ processes \in [Pids -> ProcessStates]
    /\ keptProc \in Pids \cup {0}
    /\ procOf \in [SepJobs -> Pids \cup {0}]
    /\ pass \in Passes
    /\ sepEnded \in [SepJobs -> {"not", "done", "failed", "cancelled"}]
    /\ stopAsked \in [SepJobs -> BOOLEAN]
    /\ stopper \in [SepJobs -> Stoppers]

(* A separation works on the kept process from when it got it until the    *)
(* finally of _run_demucs().                                               *)
WorksOnKept ==
    /\ pass.at # "none" <=> pass.job \in SepJobs
    /\ pass.at \in {"set", "send", "reading", "close"} => pass.proc = keptProc /\ keptProc # 0

(* A process on which a separation went wrong is kept only until then.     *)
KeptIsClean ==
    keptProc # 0 /\ processes[keptProc].soiled => pass.at = "close" /\ pass.ok # "yes"

OneLives == \A w \in Pids : Polls(w) => w = keptProc

FoundByItsJob ==
    \A j \in SepJobs : procOf[j] # 0 =>
        pass.job = j /\ procOf[j] = pass.proc /\ pass.at \in {"send", "reading", "close"}

SignalsAProcess == \A j \in SepJobs : stopper[j].at = "signal" => stopper[j].proc # 0

SepInv ==
    /\ SepTypeOK
    /\ WorksOnKept /\ KeptIsClean /\ OneLives /\ FoundByItsJob /\ SignalsAProcess

-----------------------------------------------------------------------------
LEMMA SepInitially == SepInit => SepInv
<1> SUFFICES ASSUME SepInit PROVE SepInv
  OBVIOUS
<1>1. Unborn \in ProcessStates /\ NoPass \in Passes
  BY SepAssumption DEF Unborn, NoPass, ProcessStates, Passes, Ats
<1>2. SepTypeOK
  BY <1>1 DEF SepInit, SepTypeOK, Stoppers, Pids
<1>3. WorksOnKept /\ KeptIsClean /\ FoundByItsJob /\ SignalsAProcess
  BY SepAssumption DEF SepInit, NoPass, WorksOnKept, KeptIsClean, FoundByItsJob, SignalsAProcess
<1>4. OneLives
  BY DEF SepInit, Unborn, OneLives, Polls, Pids
<1> QED  BY <1>2, <1>3, <1>4 DEF SepInv

(* _kill_worker() leaves no process alive.                                 *)
LEMMA KilledLeavesNone ==
    ASSUME SepInv
    PROVE  /\ Killed(processes) \in [Pids -> ProcessStates]
           /\ \A w \in Pids : Killed(processes)[w].state \notin {"live", "dying"}
<1>1. processes \in [Pids -> ProcessStates] /\ keptProc \in Pids \cup {0} /\ 0 \notin Pids
  BY DEF SepInv, SepTypeOK, Pids
<1>2. \A w \in Pids : processes[w].state \in {"live", "dying"} => w = keptProc
  BY <1>1 DEF SepInv, OneLives, Polls
<1>3. CASE keptProc = 0
  BY <1>1, <1>2, <1>3 DEF Killed
<1>4. CASE keptProc # 0
  <2> DEFINE dead == [processes[keptProc] EXCEPT !.state = "dead"]
  <2>1. Killed(processes) = [processes EXCEPT ![keptProc] = dead]
    BY <1>4 DEF Killed
  <2>2. dead \in ProcessStates /\ dead.state = "dead"
    BY <1>1, <1>4 DEF ProcessStates
  <2> HIDE DEF dead
  <2> QED  BY <1>1, <1>2, <1>4, <2>1, <2>2
<1> QED  BY <1>3, <1>4

-----------------------------------------------------------------------------
(* The separation's own steps.                                             *)
LEMMA BeginsKeeps ==
    ASSUME SepInv, NEW j \in SepJobs, NEW device \in Devices, SeparateBegins(j, device)
    PROVE  SepInv'
<1>1. /\ pass' = [NoPass EXCEPT !.job = j, !.at = "ask", !.device = device] /\ pass.job = NoSepJob
      /\ UNCHANGED <<processes, keptProc, procOf, sepEnded, stopAsked, stopper>>
  BY DEF SeparateBegins
<1>2. pass' \in Passes /\ pass'.at = "ask" /\ pass'.job = j
  BY <1>1, SepAssumption DEF NoPass, Passes, Ats
<1>3. pass.at = "none" /\ \A i \in SepJobs : procOf[i] = 0
  BY <1>1, SepAssumption DEF SepInv, WorksOnKept, FoundByItsJob, SepTypeOK
<1>4. SepTypeOK'
  BY <1>1, <1>2 DEF SepInv, SepTypeOK
<1> QED  BY <1>1, <1>2, <1>3, <1>4 DEF SepInv, WorksOnKept, KeptIsClean, OneLives, Polls,
                                       FoundByItsJob, SignalsAProcess

LEMMA GetWorkerKeeps == SepInv /\ GetWorker => SepInv'
<1> SUFFICES ASSUME SepInv, GetWorker PROVE SepInv'
  OBVIOUS
<1>1. /\ pass.at = "ask" /\ UNCHANGED <<procOf, sepEnded, stopAsked, stopper>>
      /\ processes \in [Pids -> ProcessStates] /\ pass \in Passes /\ keptProc \in Pids \cup {0}
      /\ 0 \notin Pids
  <2>1. pass.at = "ask" /\ UNCHANGED <<procOf, sepEnded, stopAsked, stopper>>
    BY DEF GetWorker
  <2> QED  BY <2>1 DEF SepInv, SepTypeOK, Pids
<1>2. \A i \in SepJobs : procOf[i] = 0
  BY <1>1 DEF SepInv, FoundByItsJob, SepTypeOK
<1>3. ASSUME NEW w \in Pids, pass' = [pass EXCEPT !.at = "set", !.proc = w]
      PROVE  /\ pass' \in Passes /\ pass'.at = "set" /\ pass'.proc = w /\ pass'.job = pass.job
             /\ pass.job \in SepJobs
  BY <1>1, <1>3 DEF Passes, Ats, SepInv, WorksOnKept
<1>4. CASE Serves(keptProc, pass.device) /\ pass' = [pass EXCEPT !.at = "set", !.proc = keptProc]
           /\ UNCHANGED <<processes, keptProc>>
  <2>1. keptProc \in Pids
    BY <1>1, <1>4 DEF Serves, Polls
  <2>2. SepTypeOK'
    BY <1>1, <1>3, <1>4, <2>1 DEF SepInv, SepTypeOK
  <2>3. WorksOnKept' /\ FoundByItsJob'
    BY <1>1, <1>2, <1>3, <1>4, <2>1 DEF WorksOnKept, FoundByItsJob
  <2>4. KeptIsClean' /\ OneLives' /\ SignalsAProcess'
    BY <1>1, <1>4 DEF SepInv, KeptIsClean, OneLives, Polls, SignalsAProcess
  <2> QED  BY <2>2, <2>3, <2>4 DEF SepInv
<1>5. ASSUME NEW w \in Pids,
             processes' = [Killed(processes) EXCEPT ![w] =
                              [device |-> pass.device, state |-> "live", soiled |-> FALSE]],
             keptProc' = w, pass' = [pass EXCEPT !.at = "set", !.proc = w]
      PROVE  SepInv'
  <2> DEFINE new == [device |-> pass.device, state |-> "live", soiled |-> FALSE]
             killed == Killed(processes)
  <2>1. new \in ProcessStates /\ new.state = "live" /\ new.soiled = FALSE
    BY <1>1 DEF Passes, ProcessStates
  <2>2. killed \in [Pids -> ProcessStates] /\ \A v \in Pids : killed[v].state \notin {"live", "dying"}
    BY KilledLeavesNone
  <2>3. processes' = [killed EXCEPT ![w] = new]
    BY <1>5
  <2> HIDE DEF new, killed
  <2>4. processes' \in [Pids -> ProcessStates] /\ \A v \in Pids : processes'[v] = IF v = w THEN new ELSE killed[v]
    BY <2>1, <2>2, <2>3
  <2>5. SepTypeOK'
    BY <1>1, <1>3, <1>5, <2>4 DEF SepInv, SepTypeOK
  <2>6. WorksOnKept' /\ FoundByItsJob'
    BY <1>1, <1>2, <1>3, <1>5 DEF WorksOnKept, FoundByItsJob
  <2>7. KeptIsClean'
    BY <1>5, <2>1, <2>4 DEF KeptIsClean
  <2>8. OneLives' /\ SignalsAProcess'
    BY <1>1, <1>5, <2>2, <2>4 DEF SepInv, OneLives, Polls, SignalsAProcess
  <2> QED  BY <2>5, <2>6, <2>7, <2>8 DEF SepInv
<1> QED  BY <1>4, <1>5 DEF GetWorker, Pids

LEMMA SetProcKeeps == SepInv /\ SetProc => SepInv'
<1> SUFFICES ASSUME SepInv, SetProc PROVE SepInv'
  OBVIOUS
<1>1. /\ pass.at = "set" /\ pass' = [pass EXCEPT !.at = "send"]
      /\ procOf' = [procOf EXCEPT ![pass.job] = pass.proc]
      /\ UNCHANGED <<processes, keptProc, sepEnded, stopAsked, stopper>>
  BY DEF SetProc
<1>2. pass \in Passes /\ procOf \in [SepJobs -> Pids \cup {0}] /\ pass.job \in SepJobs
  BY <1>1 DEF SepInv, SepTypeOK, WorksOnKept
<1>3. /\ pass' \in Passes /\ pass'.at = "send" /\ pass'.job = pass.job /\ pass'.proc = pass.proc
      /\ pass.proc \in Pids \cup {0}
  BY <1>1, <1>2 DEF Passes, Ats
<1>4. SepTypeOK'
  BY <1>1, <1>2, <1>3 DEF SepInv, SepTypeOK
<1>5. FoundByItsJob'
  BY <1>1, <1>2, <1>3 DEF SepInv, FoundByItsJob
<1> QED  BY <1>1, <1>2, <1>3, <1>4, <1>5
            DEF SepInv, WorksOnKept, KeptIsClean, OneLives, Polls, SignalsAProcess

(* The process is forgotten by its job and by the module, killed.          *)
LEMMA KillKeeps ==
    ASSUME SepInv, pass.at \in {"send", "close"},
           procOf' = [procOf EXCEPT ![pass.job] = 0],
           processes' = Killed(processes), keptProc' = 0,
           pass' \in Passes, pass'.job = pass.job,
           pass'.at \in {"decide", "raised", "asked"},
           UNCHANGED <<sepEnded, stopAsked, stopper>>
    PROVE  SepInv'
<1>1. procOf \in [SepJobs -> Pids \cup {0}] /\ pass.job \in SepJobs /\ 0 \notin Pids
  BY DEF SepInv, SepTypeOK, WorksOnKept, Pids
<1>2. \A i \in SepJobs : procOf'[i] = 0
  BY <1>1 DEF SepInv, FoundByItsJob
<1>3. SepTypeOK'
  BY <1>1, KilledLeavesNone DEF SepInv, SepTypeOK
<1>4. OneLives'
  BY KilledLeavesNone DEF OneLives, Polls
<1> QED  BY <1>1, <1>2, <1>3, <1>4
            DEF SepInv, WorksOnKept, KeptIsClean, FoundByItsJob, SignalsAProcess

LEMMA SepSendKeeps == SepInv /\ Send => SepInv'
<1> SUFFICES ASSUME SepInv, Send PROVE SepInv'
  OBVIOUS
<1>1. pass.at = "send" /\ pass \in Passes /\ UNCHANGED <<sepEnded, stopAsked, stopper>>
  BY DEF Send, SepInv, SepTypeOK
<1>2. CASE pass' = [pass EXCEPT !.at = "reading"] /\ UNCHANGED <<processes, keptProc, procOf>>
  <2>1. pass' \in Passes /\ pass'.at = "reading" /\ pass'.job = pass.job /\ pass'.proc = pass.proc
    BY <1>1, <1>2 DEF Passes, Ats
  <2> QED  BY <1>1, <1>2, <2>1 DEF SepInv, SepTypeOK, WorksOnKept, KeptIsClean, OneLives, Polls,
                                   FoundByItsJob, SignalsAProcess
<1>3. CASE /\ procOf' = [procOf EXCEPT ![pass.job] = 0]
           /\ processes' = Killed(processes) /\ keptProc' = 0
           /\ pass' = [pass EXCEPT !.at = "decide", !.ok = "no"]
  <2>1. pass' \in Passes /\ pass'.at = "decide" /\ pass'.job = pass.job
    BY <1>1, <1>3 DEF Passes, Ats
  <2> QED  BY <1>1, <1>3, <2>1, KillKeeps
<1> QED  BY <1>2, <1>3 DEF Send

LEMMA ReadLoopKeeps == SepInv /\ ReadLoopEnds => SepInv'
<1> SUFFICES ASSUME SepInv, ReadLoopEnds PROVE SepInv'
  OBVIOUS
<1>1. /\ pass.at = "reading" /\ pass \in Passes /\ UNCHANGED <<keptProc, procOf, sepEnded, stopAsked, stopper>>
      /\ processes \in [Pids -> ProcessStates] /\ pass.proc = keptProc /\ keptProc \in Pids
  BY DEF ReadLoopEnds, SepInv, SepTypeOK, WorksOnKept
<1>2. PICK ok \in {"yes", "no", "unknown"} :
         /\ pass' = [pass EXCEPT !.at = "close", !.ok = ok]
         /\ processes' = [processes EXCEPT ![pass.proc].soiled = @ \/ ok # "yes"]
  BY Zenon DEF ReadLoopEnds
<1>3. /\ pass' \in Passes /\ pass'.at = "close" /\ pass'.ok = ok
      /\ pass'.job = pass.job /\ pass'.proc = pass.proc
  BY <1>1, <1>2 DEF Passes, Ats
<1> DEFINE soil == processes[keptProc].soiled \/ ok # "yes"
           read == [processes[keptProc] EXCEPT !.soiled = soil]
<1>4. soil \in BOOLEAN /\ (soil => ok # "yes")
  <2>1. keptProc # 0 /\ pass.at # "close"
    BY <1>1 DEF SepInv, WorksOnKept
  <2>2. ~processes[keptProc].soiled
    BY <2>1 DEF SepInv, KeptIsClean
  <2> QED  BY <2>2, Zenon
<1>5. processes' = [processes EXCEPT ![keptProc] = read]
  BY <1>1, <1>2
<1> HIDE DEF soil
<1>6. read \in ProcessStates /\ read.soiled = soil /\ read.state = processes[keptProc].state
  BY <1>1, <1>4 DEF ProcessStates
<1> HIDE DEF read
<1>7. /\ processes' \in [Pids -> ProcessStates]
      /\ \A w \in Pids : processes'[w] = IF w = keptProc THEN read ELSE processes[w]
  BY <1>1, <1>5, <1>6
<1>8. SepTypeOK'
  BY <1>1, <1>3, <1>7 DEF SepInv, SepTypeOK
<1>9. KeptIsClean'
  BY <1>1, <1>3, <1>4, <1>6, <1>7 DEF KeptIsClean
<1>10. OneLives'
  BY <1>1, <1>6, <1>7 DEF SepInv, OneLives, Polls
<1> QED  BY <1>1, <1>3, <1>8, <1>9, <1>10 DEF SepInv, WorksOnKept, FoundByItsJob, SignalsAProcess

LEMMA CloseKeeps == SepInv /\ Close => SepInv'
<1> SUFFICES ASSUME SepInv, Close PROVE SepInv'
  OBVIOUS
<1> DEFINE next == IF pass.ok = "unknown" THEN "raised" ELSE "asked"
<1>1. /\ pass.at = "close" /\ pass \in Passes /\ pass' = [pass EXCEPT !.at = next]
      /\ procOf' = [procOf EXCEPT ![pass.job] = 0] /\ UNCHANGED <<sepEnded, stopAsked, stopper>>
  BY DEF Close, SepInv, SepTypeOK
<1>2. next \in {"raised", "asked"}
  OBVIOUS
<1> HIDE DEF next
<1>3. pass' \in Passes /\ pass'.at = next /\ pass'.job = pass.job /\ pass'.proc = pass.proc
  BY <1>1, <1>2 DEF Passes, Ats
<1>4. CASE pass.ok # "yes"
  <2>1. processes' = Killed(processes) /\ keptProc' = 0
    BY <1>4 DEF Close, KillsAfter
  <2> QED  BY <1>1, <1>2, <1>3, <2>1, KillKeeps
<1>5. CASE pass.ok = "yes"
  <2>1. UNCHANGED <<processes, keptProc>>
    BY <1>5 DEF Close, KillsAfter
  <2>2. procOf \in [SepJobs -> Pids \cup {0}] /\ pass.job \in SepJobs
    BY <1>1 DEF SepInv, SepTypeOK, WorksOnKept
  <2>3. \A i \in SepJobs : procOf'[i] = 0
    BY <1>1, <2>2 DEF SepInv, FoundByItsJob
  <2>4. SepTypeOK'
    BY <1>1, <1>3, <2>1, <2>2 DEF SepInv, SepTypeOK
  <2>5. KeptIsClean'
    BY <1>5, <2>1 DEF SepInv, KeptIsClean
  <2> QED  BY <1>1, <1>2, <1>3, <2>1, <2>2, <2>3, <2>4, <2>5
           DEF SepInv, WorksOnKept, OneLives, Polls, FoundByItsJob, SignalsAProcess
<1> QED  BY <1>4, <1>5

(* What comes after the finally touches no process: the pass ends, or goes *)
(* on to another step that has none.                                       *)
Apart(p) == p \in Passes /\ (p.at = "none" <=> p.job \notin SepJobs) /\ p.at \notin {"set", "send", "reading", "close"}

LEMMA ApartKeeps ==
    ASSUME SepInv, pass.at \in {"raised", "asked", "decide", "clean"}, Apart(pass'),
           sepEnded' \in [SepJobs -> {"not", "done", "failed", "cancelled"}],
           UNCHANGED <<processes, keptProc, procOf, stopAsked, stopper>>
    PROVE  SepInv'
<1>1. SepTypeOK'
  BY DEF SepInv, SepTypeOK, Apart
<1>2. \A i \in SepJobs : procOf[i] = 0
  BY DEF SepInv, FoundByItsJob, SepTypeOK
<1>3. pass'.job \in SepJobs \cup {NoSepJob}
  BY DEF Apart, Passes
<1> QED  BY <1>1, <1>2, <1>3, SepAssumption
         DEF SepInv, Apart, WorksOnKept, KeptIsClean, OneLives, Polls, FoundByItsJob, SignalsAProcess

LEMMA EndsKeeps ==
    ASSUME SepInv, pass.at \in {"raised", "asked", "decide", "clean"},
           NEW how \in {"done", "failed", "cancelled"}, Ends(how),
           UNCHANGED <<processes, keptProc, procOf, stopAsked, stopper>>
    PROVE  SepInv'
<1>1. sepEnded' \in [SepJobs -> {"not", "done", "failed", "cancelled"}] /\ pass' = NoPass
  BY DEF Ends, SepInv, SepTypeOK
<1>2. Apart(NoPass)
  BY SepAssumption DEF Apart, NoPass, Passes, Ats
<1> QED  BY <1>1, <1>2, ApartKeeps

LEMMA AfterwardsKeeps == SepInv /\ (Raised \/ AskCancelled \/ Decide \/ RetryOnCpu) => SepInv'
<1> SUFFICES ASSUME SepInv, Raised \/ AskCancelled \/ Decide \/ RetryOnCpu PROVE SepInv'
  OBVIOUS
<1>1. /\ pass.at \in {"raised", "asked", "decide", "clean"} /\ pass \in Passes /\ pass.job \in SepJobs
      /\ sepEnded \in [SepJobs -> {"not", "done", "failed", "cancelled"}]
      /\ UNCHANGED <<processes, keptProc, procOf, stopAsked, stopper>>
  BY DEF Raised, AskCancelled, Decide, RetryOnCpu, SepInv, SepTypeOK, WorksOnKept
<1>2. CASE Ends("done") \/ Ends("failed") \/ Ends("cancelled")
  BY <1>1, <1>2, EndsKeeps
<1>3. ASSUME NEW at \in {"decide", "raised", "clean"}, pass' = [pass EXCEPT !.at = at], UNCHANGED sepEnded
      PROVE  SepInv'
  <2>1. Apart(pass')
    BY <1>1, <1>3 DEF Apart, Passes, Ats
  <2> QED  BY <1>1, <1>3, <2>1, ApartKeeps
<1>4. CASE pass' = [NoPass EXCEPT !.job = pass.job, !.at = "ask", !.retry = TRUE] /\ UNCHANGED sepEnded
  <2>1. Apart(pass')
    BY <1>1, <1>4, SepAssumption DEF Apart, NoPass, Passes, Ats
  <2> QED  BY <1>1, <1>4, <2>1, ApartKeeps
<1> QED  BY <1>2, <1>3, <1>4 DEF Raised, AskCancelled, Decide, RetryOnCpu

-----------------------------------------------------------------------------
(* A process's end, and a cancel's signal, change how one process is; a    *)
(* dead one stays dead.                                                    *)
LEMMA ProcessMoves ==
    ASSUME SepInv, NEW w \in Pids, NEW next \in {"unborn", "dying", "live", "dead"},
           processes' = [processes EXCEPT ![w].state = next],
           next \in {"live", "dying"} => processes[w].state \in {"live", "dying"},
           stopper' \in [SepJobs -> Stoppers], SignalsAProcess',
           UNCHANGED <<keptProc, procOf, pass, sepEnded, stopAsked>>
    PROVE  SepInv'
<1> DEFINE moved == [processes[w] EXCEPT !.state = next]
<1>1. processes \in [Pids -> ProcessStates] /\ keptProc \in Pids \cup {0} /\ 0 \notin Pids
  BY DEF SepInv, SepTypeOK, Pids
<1>2. processes' = [processes EXCEPT ![w] = moved]
  OBVIOUS
<1>3. moved \in ProcessStates /\ moved.state = next /\ moved.soiled = processes[w].soiled
  BY <1>1 DEF ProcessStates
<1> HIDE DEF moved
<1>4. /\ processes' \in [Pids -> ProcessStates]
      /\ \A v \in Pids : processes'[v] = IF v = w THEN moved ELSE processes[v]
  BY <1>1, <1>2, <1>3
<1>5. SepTypeOK'
  BY <1>4 DEF SepInv, SepTypeOK
<1>6. KeptIsClean'
  BY <1>1, <1>3, <1>4 DEF SepInv, KeptIsClean
<1>7. OneLives'
  BY <1>1, <1>3, <1>4 DEF SepInv, OneLives, Polls
<1> QED  BY <1>5, <1>6, <1>7 DEF SepInv, WorksOnKept, FoundByItsJob

LEMMA ProcessEndsKeeps == ASSUME SepInv, NEW w \in Pids, ProcessEnds(w) PROVE SepInv'
  BY ProcessMoves DEF ProcessEnds, SepInv, SepTypeOK, SignalsAProcess

(* The cancel's handler.                                                   *)
LEMMA StopKeeps ==
    ASSUME SepInv, NEW j \in SepJobs, StopAsked(j) \/ StopLooks(j) \/ StopSignals(j)
    PROVE  SepInv'
<1>1. /\ stopper \in [SepJobs -> Stoppers] /\ procOf \in [SepJobs -> Pids \cup {0}]
      /\ stopAsked \in [SepJobs -> BOOLEAN] /\ SignalsAProcess /\ 0 \notin Pids
  BY DEF SepInv, SepTypeOK, Pids
<1>2. ASSUME NEW r \in Stoppers, stopper' = [stopper EXCEPT ![j] = r], r.at = "signal" => r.proc # 0
      PROVE  stopper' \in [SepJobs -> Stoppers] /\ SignalsAProcess'
  BY <1>1, <1>2 DEF SignalsAProcess
<1>3. CASE StopAsked(j)
  <2> DEFINE r == [stopper[j] EXCEPT !.at = "look"]
  <2>1. /\ stopper' = [stopper EXCEPT ![j] = r] /\ stopAsked' = [stopAsked EXCEPT ![j] = TRUE]
        /\ UNCHANGED <<processes, keptProc, procOf, pass, sepEnded>>
    BY <1>3 DEF StopAsked
  <2>2. r \in Stoppers /\ r.at = "look"
    BY <1>1 DEF Stoppers
  <2> HIDE DEF r
  <2>3. stopper' \in [SepJobs -> Stoppers] /\ SignalsAProcess'
    BY <1>2, <2>1, <2>2
  <2> QED  BY <1>1, <2>1, <2>3
              DEF SepInv, SepTypeOK, WorksOnKept, KeptIsClean, OneLives, Polls, FoundByItsJob
<1>4. CASE StopLooks(j)
  <2> DEFINE r == IF pass.job = j /\ Polls(procOf[j]) THEN [at |-> "signal", proc |-> procOf[j]]
                  ELSE [at |-> "over", proc |-> 0]
  <2>1. /\ stopper' = [stopper EXCEPT ![j] = r]
        /\ UNCHANGED <<processes, keptProc, procOf, pass, sepEnded, stopAsked>>
    BY <1>4 DEF StopLooks
  <2>2. r \in Stoppers /\ (r.at = "signal" => r.proc # 0)
    BY <1>1 DEF Stoppers, Polls
  <2> HIDE DEF r
  <2>3. stopper' \in [SepJobs -> Stoppers] /\ SignalsAProcess'
    BY <1>2, <2>1, <2>2
  <2> QED  BY <1>1, <2>1, <2>3
              DEF SepInv, SepTypeOK, WorksOnKept, KeptIsClean, OneLives, Polls, FoundByItsJob
<1>5. CASE StopSignals(j)
  <2> DEFINE r == [stopper[j] EXCEPT !.at = "over"]
             w == stopper[j].proc
             next == IF processes[w].state = "live" THEN "dying" ELSE processes[w].state
  <2>1. /\ stopper' = [stopper EXCEPT ![j] = r] /\ stopper[j].at = "signal"
        /\ processes' = [processes EXCEPT ![w].state = next]
        /\ UNCHANGED <<keptProc, procOf, pass, sepEnded, stopAsked>>
    BY <1>5 DEF StopSignals
  <2>2. r \in Stoppers /\ r.at = "over"
    BY <1>1 DEF Stoppers
  <2> HIDE DEF r
  <2>3. stopper' \in [SepJobs -> Stoppers] /\ SignalsAProcess'
    BY <1>2, <2>1, <2>2
  <2>4. w \in Pids
    BY <1>1, <2>1 DEF SignalsAProcess, Stoppers
  <2>5. /\ next \in {"unborn", "dying", "live", "dead"}
        /\ next \in {"live", "dying"} => processes[w].state \in {"live", "dying"}
    <3>1. processes[w] \in ProcessStates
      BY <2>4 DEF SepInv, SepTypeOK
    <3> QED  BY <3>1 DEF ProcessStates
  <2> HIDE DEF next, w
  <2> QED  BY <2>1, <2>3, <2>4, <2>5, ProcessMoves
<1> QED  BY <1>3, <1>4, <1>5

-----------------------------------------------------------------------------
LEMMA SepStep == SepInv /\ [SepNext]_sepVars => SepInv'
<1> SUFFICES ASSUME SepInv, [SepNext]_sepVars PROVE SepInv'
  OBVIOUS
<1>1. ASSUME UNCHANGED sepVars PROVE SepInv'
  BY <1>1 DEF sepVars, SepInv, SepTypeOK, WorksOnKept, KeptIsClean, OneLives, Polls,
              FoundByItsJob, SignalsAProcess
<1> QED  BY <1>1, BeginsKeeps, GetWorkerKeeps, SetProcKeeps, SepSendKeeps, ReadLoopKeeps, CloseKeeps,
            AfterwardsKeeps, ProcessEndsKeeps, StopKeeps DEF SepNext, Pids

LEMMA SepInvHolds == SepSpec => []SepInv
  BY SepInitially, SepStep, PTL DEF SepSpec

(* The state of the separations and their processes is of its type.        *)
THEOREM SepTypeCorrect == SepSpec => []SepTypeOK
<1>1. SepInv => SepTypeOK
  BY DEF SepInv
<1> QED  BY <1>1, SepInvHolds, PTL

(* No separation is given to a demucs process on which one went wrong, no  *)
(* process lives on that _worker does not know of, and a cancel finds the  *)
(* process of its own job or none.                                         *)
THEOREM EveryWorkerIsClean == SepSpec => []WorkersAreClean
<1>1. SepInv => WorkersAreClean
  <2> SUFFICES ASSUME SepInv PROVE WorkersAreClean
    OBVIOUS
  <2>1. pass.at = "reading" => ~processes[pass.proc].soiled
    BY DEF SepInv, WorksOnKept, KeptIsClean
  <2>2. \A w \in 1..MaxProcesses : Polls(w) => w = keptProc
    BY DEF SepInv, OneLives, Pids
  <2>3. \A j \in SepJobs : procOf[j] # 0 => pass.job = j /\ procOf[j] = pass.proc
    BY DEF SepInv, FoundByItsJob
  <2> QED  BY <2>1, <2>2, <2>3 DEF WorkersAreClean
<1> QED  BY <1>1, SepInvHolds, PTL

-----------------------------------------------------------------------------

(* The lyric runs.                                                         *)
RunRecs ==
    [job : LyricJobs \cup {NoLyricJob}, state : {"none", "running", "idle", "failed", "unsure", "done"},
     cancel : BOOLEAN, started : BOOLEAN,
     at : {"none", "waiting", "check", "over"} \cup Going, of : Nat]
StopRecs ==
    [job : LyricJobs \cup {NoLyricJob}, kind : {"none", "cancel", "delete"},
     at : {"none", "flag", "settle", "signal", "wait", "forget", "remove"}, run : RunIds \cup {0},
     spared : BOOLEAN]
Locks ==
    [kind : {"free", "run", "import", "split"}, of : RunIds \cup {0} \cup LyricJobs, killed : BOOLEAN]
SplitStates == {"none", "running", "done", "error"}

LyricTypeOK ==
    /\ lyricRuns \in [RunIds -> RunRecs]
    /\ runOf \in [LyricJobs -> RunIds \cup {0}]
    /\ lookedUp \in [LyricJobs -> Nat]
    /\ lockedBy \in Locks
    /\ lockedBy.kind = "run" => lockedBy.of \in RunIds
    /\ lockedBy.kind = "split" => lockedBy.of \in LyricJobs
    /\ registered \subseteq LyricJobs
    /\ splitState \in [LyricJobs -> SplitStates]
    /\ stop \in StopRecs
    /\ lyricsOf \in [LyricJobs -> [answered : Nat, kept : Nat, timed : BOOLEAN]]

(* A task that is there is of a job, and has started once it holds the     *)
(* lock; one that hears or writes is not over for the user.                *)
TasksAreRuns ==
    \A r \in RunIds :
        /\ lyricRuns[r].at = "none" <=> lyricRuns[r].state = "none"
        /\ lyricRuns[r].at # "none" => lyricRuns[r].job \in LyricJobs
        /\ lyricRuns[r].at \in Going \cup {"check", "over"} => lyricRuns[r].started
        /\ lyricRuns[r].at = "waiting" => ~lyricRuns[r].started
        /\ lyricRuns[r].at \in Going => lyricRuns[r].state = "running"

(* What nobody stopped is running, in the slot of its job, unless that was *)
(* forgotten with the job.                                                 *)
Unstopped(r) == ~lyricRuns[r].cancel /\ lyricRuns[r].at \in Going \cup {"waiting", "check"}
Stays(r) == lyricRuns[r].job \in registered /\ ~Leaving(lyricRuns[r].job)
UnstoppedHoldSlots ==
    /\ \A r \in RunIds : Unstopped(r) => lyricRuns[r].state = "running"
    /\ \A r \in RunIds : Unstopped(r) /\ Stays(r) => runOf[lyricRuns[r].job] = r

(* The run that a cancel or a deletion flagged holds its slot for as long  *)
(* as it runs and is waited for; it has let go of the files when a         *)
(* deletion that did not give up goes on.                                  *)
Off(r) == lyricRuns[r].at \notin Going
StopKnowsItsRun ==
    /\ stop.at # "none" => stop.job \in LyricJobs
    /\ stop.at \in {"none", "flag"} => stop.run = 0
    /\ stop.at = "settle" => stop.run # 0 /\ runOf[stop.job] = stop.run
    /\ stop.run # 0 => lyricRuns[stop.run].cancel /\ lyricRuns[stop.run].state # "none"
    /\ stop.run # 0 /\ stop.at \in {"settle", "signal", "wait"} =>
          runOf[stop.job] = stop.run \/ lyricRuns[stop.run].state # "running"
    /\ stop.at \in {"forget", "remove"} /\ stop.run # 0 /\ ~stop.spared => Off(stop.run)

(* Who writes the lyrics has read the edits there are.                     *)
HasTheEdits(run) == run.at = "writing" => run.of = lyricsOf[run.job].kept
EditsAreKept ==
    /\ \A j \in LyricJobs : lyricsOf[j].kept = lyricsOf[j].answered
    /\ \A r \in RunIds : HasTheEdits(lyricRuns[r])

LyricInv ==
    /\ LyricTypeOK
    /\ TasksAreRuns /\ UnstoppedHoldSlots /\ StopKnowsItsRun /\ EditsAreKept

-----------------------------------------------------------------------------
LEMMA RunsAreThere == 0 \notin RunIds /\ NoRun \in RunRecs /\ NoStop \in StopRecs /\ Unlocked \in Locks
  BY LyricAssumption DEF RunIds, NoRun, RunRecs, NoStop, StopRecs, Unlocked, Locked, Locks

LEMMA LyricInitially == LyricInit => LyricInv
<1> SUFFICES ASSUME LyricInit PROVE LyricInv
  OBVIOUS
<1>1. LyricTypeOK
  BY RunsAreThere DEF LyricInit, LyricTypeOK, SplitStates, Unlocked, Locked
<1>2. TasksAreRuns /\ UnstoppedHoldSlots /\ StopKnowsItsRun /\ EditsAreKept
  BY DEF LyricInit, NoRun, NoStop, TasksAreRuns, UnstoppedHoldSlots, Unstopped, StopKnowsItsRun,
         EditsAreKept, HasTheEdits, Going
<1> QED  BY <1>1, <1>2 DEF LyricInv

(* A run goes on: it ends, or it takes its next step if nobody stopped it. *)
GoesOn(old, new) ==
    /\ new \in RunRecs
    /\ new.job = old.job /\ new.cancel = old.cancel /\ old.at # "none" /\ new.at # "none"
    /\ \/ /\ new.at = "over" /\ new.started /\ new.state \in {"idle", "failed", "unsure", "done"}
       \/ /\ new.at = "check" /\ old.at = "waiting" /\ new.started /\ new.state = old.state
       \/ /\ new.at \in Going /\ new.started = old.started /\ new.state = old.state
          /\ old.at \in Going \/ (old.at = "check" /\ ~old.cancel)

LEMMA RunGoesOn ==
    ASSUME LyricInv, NEW r \in RunIds, NEW new, GoesOn(lyricRuns[r], new),
           lyricRuns' = [lyricRuns EXCEPT ![r] = new], UNCHANGED <<runOf, registered, stop>>
    PROVE  TasksAreRuns' /\ UnstoppedHoldSlots'
<1>1. /\ lyricRuns \in [RunIds -> RunRecs] /\ lyricRuns[r] \in RunRecs
      /\ \A q \in RunIds : lyricRuns'[q] = IF q = r THEN new ELSE lyricRuns[q]
  BY DEF LyricInv, LyricTypeOK
<1>2. TasksAreRuns /\ UnstoppedHoldSlots /\ StopKnowsItsRun
  BY DEF LyricInv
<1>3. TasksAreRuns'
  <2>1. ASSUME NEW q \in RunIds, q # r PROVE lyricRuns'[q] = lyricRuns[q]
    BY <1>1, <2>1
  <2>2. lyricRuns'[r] = new
    BY <1>1
  <2>3. /\ new.at = "none" <=> new.state = "none"
        /\ new.at # "none" => new.job \in LyricJobs
        /\ new.at \in Going \cup {"check", "over"} => new.started
        /\ new.at = "waiting" => ~new.started
        /\ new.at \in Going => new.state = "running"
    <3>1. /\ lyricRuns[r].at = "none" <=> lyricRuns[r].state = "none"
          /\ lyricRuns[r].at # "none" => lyricRuns[r].job \in LyricJobs
          /\ lyricRuns[r].at \in Going \cup {"check"} => lyricRuns[r].started
          /\ lyricRuns[r].at \in Going => lyricRuns[r].state = "running"
      BY <1>2 DEF TasksAreRuns
    <3>2. lyricRuns[r].at = "check" /\ ~lyricRuns[r].cancel => lyricRuns[r].state = "running"
      BY <1>2 DEF UnstoppedHoldSlots, Unstopped
    <3> QED  BY <3>1, <3>2 DEF GoesOn, Going
  <2> QED  BY <1>2, <2>1, <2>2, <2>3 DEF TasksAreRuns
<1>4. UnstoppedHoldSlots'
  <2>1. \A q \in RunIds : Unstopped(q)' => Unstopped(q)
    BY <1>1 DEF GoesOn, Unstopped, Going
  <2>2. \A q \in RunIds : lyricRuns'[q].job = lyricRuns[q].job /\ (Stays(q)' => Stays(q))
    BY <1>1 DEF GoesOn, Stays, Leaving
  <2>3. \A q \in RunIds : Unstopped(q)' => lyricRuns'[q].state = lyricRuns[q].state
    BY <1>1 DEF GoesOn, Unstopped, Going
  <2> QED  BY <1>2, <2>1, <2>2, <2>3 DEF UnstoppedHoldSlots
<1> QED  BY <1>3, <1>4

LEMMA RunGoesOnKeeps ==
    ASSUME LyricInv, NEW r \in RunIds, NEW new, GoesOn(lyricRuns[r], new),
           lyricRuns' = [lyricRuns EXCEPT ![r] = new],
           UNCHANGED <<runOf, registered, stop>>, LyricTypeOK', EditsAreKept'
    PROVE  LyricInv'
<1>1. /\ lyricRuns \in [RunIds -> RunRecs] /\ lyricRuns[r] \in RunRecs
      /\ \A q \in RunIds : lyricRuns'[q] = IF q = r THEN new ELSE lyricRuns[q]
  BY DEF LyricInv, LyricTypeOK
<1>2. TasksAreRuns /\ UnstoppedHoldSlots /\ StopKnowsItsRun
  BY DEF LyricInv
<1>3. TasksAreRuns' /\ UnstoppedHoldSlots'
  BY RunGoesOn
<1>4. StopKnowsItsRun'
  <2>1. stop' = stop /\ runOf' = runOf /\ (stop.run # 0 => stop.run \in RunIds)
    BY DEF LyricInv, LyricTypeOK, StopRecs
  <2>2. stop.run # 0 =>
          /\ lyricRuns'[stop.run].cancel = lyricRuns[stop.run].cancel
          /\ lyricRuns[stop.run].state # "none" => lyricRuns'[stop.run].state # "none"
          /\ lyricRuns[stop.run].state # "running" => lyricRuns'[stop.run].state # "running"
          /\ lyricRuns[stop.run].cancel /\ Off(stop.run) => Off(stop.run)'
    BY <1>1, <2>1 DEF GoesOn, Off, Going
  <2> QED  BY <1>2, <2>1, <2>2 DEF StopKnowsItsRun
<1> QED  BY <1>3, <1>4 DEF LyricInv

LEMMA EndsWell ==
    ASSUME LyricInv, NEW r \in RunIds, lyricRuns[r].at \in Going \cup {"check"},
           NEW state \in {"idle", "failed", "unsure", "done"}
    PROVE  GoesOn(lyricRuns[r], [lyricRuns[r] EXCEPT !.at = "over", !.state = state])
<1>1. lyricRuns[r] \in RunRecs
  BY DEF LyricInv, LyricTypeOK
<1>2. lyricRuns[r].started
  BY DEF LyricInv, TasksAreRuns
<1> QED  BY <1>1, <1>2 DEF GoesOn, RunRecs, Going

LEMMA RunEndsKeeps ==
    ASSUME LyricInv, NEW r \in RunIds, lyricRuns[r].at \in Going \cup {"check"},
           NEW state \in {"idle", "failed", "unsure", "done"}, RunEnds(r, state),
           UNCHANGED <<lookedUp, runOf, registered, stop, splitState>>,
           lyricsOf' \in [LyricJobs -> [answered : Nat, kept : Nat, timed : BOOLEAN]], EditsAreKept'
    PROVE  LyricInv'
<1> DEFINE new == [lyricRuns[r] EXCEPT !.at = "over", !.state = state]
<1>1. lyricRuns' = [lyricRuns EXCEPT ![r] = new] /\ lockedBy' = Unlocked
  BY DEF RunEnds, SetRun
<1>2. GoesOn(lyricRuns[r], new)
  BY EndsWell
<1> HIDE DEF new
<1>3. LyricTypeOK'
  BY <1>1, <1>2, RunsAreThere DEF LyricInv, LyricTypeOK, GoesOn, Unlocked, Locked
<1> QED  BY <1>1, <1>2, <1>3, RunGoesOnKeeps

LEMMA NextStepKeeps ==
    ASSUME LyricInv, NEW r \in RunIds, NEW new, GoesOn(lyricRuns[r], new), SetRun(r, new), HasTheEdits(new),
           lockedBy' = lockedBy \/ lockedBy' = Locked("run", r),
           UNCHANGED <<lookedUp, runOf, registered, stop, splitState, lyricsOf>>
    PROVE  LyricInv'
<1>1. lyricRuns' = [lyricRuns EXCEPT ![r] = new]
  BY DEF SetRun
<1>2. lockedBy' \in Locks /\ (lockedBy'.kind = "run" => lockedBy'.of \in RunIds)
      /\ (lockedBy'.kind = "split" => lockedBy'.of \in LyricJobs)
  <2>1. CASE lockedBy' = lockedBy
    BY <2>1 DEF LyricInv, LyricTypeOK
  <2>2. CASE lockedBy' = Locked("run", r)
    BY <2>2 DEF Locks, Locked
  <2> QED  BY <2>1, <2>2
<1>3. LyricTypeOK' /\ EditsAreKept'
  BY <1>1, <1>2 DEF LyricInv, LyricTypeOK, GoesOn, EditsAreKept, HasTheEdits
<1> QED  BY <1>1, <1>3, RunGoesOnKeeps

LEMMA RunStartsKeeps == ASSUME LyricInv, NEW r \in RunIds, RunStarts(r) PROVE LyricInv'
<1> DEFINE new == [lyricRuns[r] EXCEPT !.started = TRUE, !.at = "check"]
<1>1. lyricRuns[r] \in RunRecs /\ lyricRuns[r].at = "waiting"
  BY DEF LyricInv, LyricTypeOK, RunStarts
<1>2. GoesOn(lyricRuns[r], new) /\ HasTheEdits(new)
  BY <1>1 DEF GoesOn, RunRecs, HasTheEdits
<1>3. SetRun(r, new) /\ lockedBy' = Locked("run", r)
      /\ UNCHANGED <<lookedUp, runOf, registered, stop, splitState, lyricsOf>>
  BY DEF RunStarts
<1> HIDE DEF new
<1> QED  BY <1>2, <1>3, NextStepKeeps

(* A run that ends with the lyrics as they were.                           *)
LEMMA EndsAsItWas ==
    ASSUME LyricInv, NEW r \in RunIds, lyricRuns[r].at \in Going \cup {"check"},
           NEW state \in {"idle", "failed", "unsure", "done"}, RunEnds(r, state),
           UNCHANGED <<lookedUp, runOf, registered, stop, splitState, lyricsOf>>
    PROVE  LyricInv'
<1>1. /\ lyricRuns' = [lyricRuns EXCEPT ![r] = [lyricRuns[r] EXCEPT !.at = "over", !.state = state]]
      /\ lyricRuns \in [RunIds -> RunRecs]
      /\ lyricsOf \in [LyricJobs -> [answered : Nat, kept : Nat, timed : BOOLEAN]]
  BY DEF RunEnds, SetRun, LyricInv, LyricTypeOK
<1>2. EditsAreKept'
  BY <1>1 DEF LyricInv, EditsAreKept, HasTheEdits, RunRecs
<1> QED  BY <1>1, <1>2, RunEndsKeeps

LEMMA RunChecksKeeps == ASSUME LyricInv, NEW r \in RunIds, RunChecks(r) PROVE LyricInv'
<1>1. /\ lyricRuns[r] \in RunRecs /\ lyricRuns[r].at = "check"
      /\ UNCHANGED <<lookedUp, runOf, registered, stop, splitState, lyricsOf>>
  BY DEF LyricInv, LyricTypeOK, RunChecks
<1>2. CASE RunIsCancelled(r)
  BY <1>1, <1>2, EndsAsItWas DEF RunChecks
<1>3. CASE ~RunIsCancelled(r)
  <2> DEFINE new == [lyricRuns[r] EXCEPT !.at = "hear"]
  <2>1. SetRun(r, new) /\ lockedBy' = lockedBy
    BY <1>3 DEF RunChecks
  <2>2. GoesOn(lyricRuns[r], new) /\ HasTheEdits(new)
    BY <1>1, <1>3 DEF GoesOn, RunRecs, HasTheEdits, RunIsCancelled, Going
  <2> HIDE DEF new
  <2> QED  BY <1>1, <2>1, <2>2, NextStepKeeps
<1> QED  BY <1>2, <1>3

LEMMA RunHearsKeeps == ASSUME LyricInv, NEW r \in RunIds, RunHears(r) PROVE LyricInv'
<1>1. /\ lyricRuns[r] \in RunRecs /\ lyricRuns[r].at \in {"hear", "again"} /\ lyricRuns[r].at \in Going
      /\ UNCHANGED <<lookedUp, runOf, registered, stop, splitState, lyricsOf>>
  BY DEF LyricInv, LyricTypeOK, RunHears, Going
<1>2. CASE \E state \in {"idle", "failed", "unsure"} : RunEnds(r, state)
  BY <1>1, <1>2, EndsAsItWas
<1>3. CASE \E to \in {"again", "write"} : HearsOn(r, to)
  <2>1. PICK to \in {"again", "write"} : HearsOn(r, to)
    BY <1>3
  <2> DEFINE new == [lyricRuns[r] EXCEPT !.at = to]
  <2>2. SetRun(r, new) /\ lockedBy' = Locked("run", r)
    BY <2>1 DEF HearsOn
  <2>3. GoesOn(lyricRuns[r], new) /\ HasTheEdits(new)
    BY <1>1 DEF GoesOn, RunRecs, HasTheEdits, Going
  <2> HIDE DEF new
  <2> QED  BY <1>1, <2>2, <2>3, NextStepKeeps
<1> QED  BY <1>2, <1>3 DEF RunHears

LEMMA RunLooksKeeps == ASSUME LyricInv, NEW r \in RunIds, RunLooks(r) PROVE LyricInv'
<1>1. /\ lyricRuns[r] \in RunRecs /\ lyricRuns[r].at = "write" /\ lyricRuns[r].at \in Going
      /\ lyricRuns[r].job \in LyricJobs
      /\ lyricsOf \in [LyricJobs -> [answered : Nat, kept : Nat, timed : BOOLEAN]]
      /\ UNCHANGED <<lookedUp, runOf, registered, stop, splitState, lyricsOf>>
  BY DEF LyricInv, LyricTypeOK, RunLooks, TasksAreRuns, Going
<1>2. CASE RunIsCancelled(r)
  BY <1>1, <1>2, EndsAsItWas DEF RunLooks
<1>3. CASE ~RunIsCancelled(r)
  <2> DEFINE new == [lyricRuns[r] EXCEPT !.at = "writing", !.of = lyricsOf[lyricRuns[r].job].kept]
  <2>1. SetRun(r, new) /\ lockedBy' = lockedBy
    BY <1>3 DEF RunLooks
  <2>2. lyricsOf[lyricRuns[r].job].kept \in Nat
    BY <1>1
  <2>3. GoesOn(lyricRuns[r], new) /\ HasTheEdits(new)
    BY <1>1, <2>2 DEF GoesOn, RunRecs, HasTheEdits, Going
  <2> HIDE DEF new
  <2> QED  BY <1>1, <2>1, <2>3, NextStepKeeps
<1> QED  BY <1>2, <1>3

(* What it writes is what is there, with the timing.                       *)
LEMMA RunWritesKeeps == ASSUME LyricInv, NEW r \in RunIds, RunWrites(r) PROVE LyricInv'
<1> DEFINE j == lyricRuns[r].job
<1>1. /\ lyricRuns[r].at = "writing" /\ lyricRuns[r].at \in Going /\ j \in LyricJobs
      /\ lyricRuns[r].of = lyricsOf[j].kept /\ lyricRuns \in [RunIds -> RunRecs]
      /\ lyricsOf \in [LyricJobs -> [answered : Nat, kept : Nat, timed : BOOLEAN]] /\ EditsAreKept
      /\ UNCHANGED <<lookedUp, runOf, registered, stop, splitState>>
  BY DEF LyricInv, LyricTypeOK, RunWrites, TasksAreRuns, EditsAreKept, HasTheEdits, Going
<1>2. CASE RunEnds(r, "failed") /\ UNCHANGED lyricsOf
  BY <1>1, <1>2, EndsAsItWas
<1>3. CASE RunEnds(r, "done")
           /\ lyricsOf' = [lyricsOf EXCEPT ![j].kept = lyricRuns[r].of, ![j].timed = TRUE]
  <2>1. /\ lyricsOf' \in [LyricJobs -> [answered : Nat, kept : Nat, timed : BOOLEAN]]
        /\ \A i \in LyricJobs : lyricsOf'[i].kept = lyricsOf[i].kept /\ lyricsOf'[i].answered = lyricsOf[i].answered
    BY <1>1, <1>3
  <2>2. lyricRuns' = [lyricRuns EXCEPT ![r] = [lyricRuns[r] EXCEPT !.at = "over", !.state = "done"]]
    BY <1>3 DEF RunEnds, SetRun
  <2>3. \A q \in RunIds : HasTheEdits(lyricRuns[q])'
    <3>1. \A q \in RunIds : lyricRuns'[q].at = "writing" => lyricRuns'[q] = lyricRuns[q] /\ lyricRuns[q].job \in LyricJobs
      BY <1>1, <2>2 DEF RunRecs, LyricInv, TasksAreRuns
    <3> QED  BY <1>1, <2>1, <3>1 DEF EditsAreKept, HasTheEdits
  <2>4. EditsAreKept'
    BY <1>1, <2>1, <2>3 DEF EditsAreKept
  <2> HIDE DEF j
  <2> QED  BY <1>1, <1>3, <2>1, <2>4, RunEndsKeeps
<1> QED  BY <1>2, <1>3 DEF RunWrites

(* A new run: nobody else of the job is running, so it is the only one     *)
(* that nobody stopped.                                                    *)
LEMMA StartRetimeKeeps == ASSUME LyricInv, NEW j \in LyricJobs, StartRetime(j) PROVE LyricInv'
<1> DEFINE new == [NoRun EXCEPT !.job = j, !.state = "running", !.at = "waiting"]
<1>1. PICK r \in RunIds :
        /\ lyricRuns[r].state = "none" /\ lyricRuns' = [lyricRuns EXCEPT ![r] = new]
        /\ runOf' = [runOf EXCEPT ![j] = r]
  BY DEF StartRetime, SetRun
<1>2. /\ ~IsRunning(runOf[j]) /\ stop.at # "settle" /\ lookedUp' \in [LyricJobs -> Nat]
      /\ UNCHANGED <<lockedBy, registered, splitState, stop, stops, lyricsOf>>
  BY DEF StartRetime, ClaimRun, RunsLockFree, LyricInv, LyricTypeOK
<1>3. /\ new \in RunRecs /\ new.job = j /\ new.state = "running" /\ new.at = "waiting"
      /\ ~new.cancel /\ ~new.started
  BY DEF NoRun, RunRecs, Going
<1> HIDE DEF new
<1>4. /\ lyricRuns \in [RunIds -> RunRecs] /\ runOf \in [LyricJobs -> RunIds \cup {0}]
      /\ lyricRuns'[r] = new /\ runOf'[j] = r
      /\ \A q \in RunIds \ {r} : lyricRuns'[q] = lyricRuns[q]
      /\ \A i \in LyricJobs \ {j} : runOf'[i] = runOf[i]
  BY <1>1 DEF LyricInv, LyricTypeOK
<1>5. TasksAreRuns /\ UnstoppedHoldSlots /\ StopKnowsItsRun
  BY DEF LyricInv
<1>6. LyricTypeOK' /\ EditsAreKept'
  BY <1>1, <1>2, <1>3, <1>4 DEF LyricInv, LyricTypeOK, EditsAreKept, HasTheEdits
<1>7. TasksAreRuns'
  BY <1>3, <1>4, <1>5 DEF TasksAreRuns, Going
<1>8. UnstoppedHoldSlots'
  <2>1. \A q \in RunIds \ {r} : (Unstopped(q)' <=> Unstopped(q)) /\ (Stays(q)' <=> Stays(q))
    BY <1>2, <1>4 DEF Unstopped, Stays, Leaving
  <2>2. \A q \in RunIds \ {r} : Unstopped(q) /\ Stays(q) => lyricRuns[q].job # j
    <3> SUFFICES ASSUME NEW q \in RunIds, Unstopped(q), Stays(q), lyricRuns[q].job = j PROVE FALSE
      OBVIOUS
    <3>1. runOf[j] = q /\ lyricRuns[q].state = "running"
      BY <1>2, <1>5 DEF UnstoppedHoldSlots
    <3> QED  BY <3>1, <1>2, RunsAreThere DEF IsRunning
  <2>3. \A q \in RunIds \ {r} : Unstopped(q) /\ Stays(q) => lyricRuns[q].job \in LyricJobs \ {j}
    BY <2>2, <1>5 DEF TasksAreRuns, Unstopped, Going
  <2> QED  BY <1>2, <1>3, <1>4, <1>5, <2>1, <2>2, <2>3 DEF UnstoppedHoldSlots
<1>9. StopKnowsItsRun'
  <2>1. stop.run # 0 => stop.run \in RunIds \ {r}
    BY <1>1, <1>5 DEF LyricInv, LyricTypeOK, StopRecs, StopKnowsItsRun
  <2>2. stop.run # 0 /\ stop.at \in {"settle", "signal", "wait"} =>
          runOf'[stop.job] = stop.run \/ lyricRuns[stop.run].state # "running"
    <3>1. CASE stop.job = j
      BY <1>2, <1>5, <2>1, <3>1 DEF StopKnowsItsRun, IsRunning
    <3>2. CASE stop.job # j /\ stop.at # "none"
      BY <1>4, <1>5, <3>2 DEF StopKnowsItsRun
    <3>3. CASE stop.at = "none"
      BY <1>5, <3>3 DEF StopKnowsItsRun
    <3> QED  BY <3>1, <3>2, <3>3
  <2> QED  BY <1>2, <1>4, <1>5, <2>1, <2>2 DEF StopKnowsItsRun, Off
<1> QED  BY <1>6, <1>7, <1>8, <1>9 DEF LyricInv

(* Requests that are let in, or refused.                                   *)
LEMMA AskedKeeps == ASSUME LyricInv, NEW j \in LyricJobs, AskRetime(j) \/ RefuseRetime(j) PROVE LyricInv'
<1>1. /\ lookedUp' \in [LyricJobs -> Nat]
      /\ UNCHANGED <<lyricRuns, runOf, lockedBy, registered, splitState, stop, stops, lyricsOf>>
  <2>1. lookedUp \in [LyricJobs -> Nat] /\ lookedUp[j] \in Nat
    BY DEF LyricInv, LyricTypeOK
  <2>2. CASE AskRetime(j)
    BY <2>1, <2>2 DEF AskRetime
  <2>3. CASE RefuseRetime(j)
    <3>1. lookedUp[j] - 1 \in Nat
      BY <2>1, <2>3 DEF RefuseRetime
    <3> QED  BY <2>1, <2>3, <3>1 DEF RefuseRetime
  <2> QED  BY <2>2, <2>3
<1>2. LyricTypeOK' /\ EditsAreKept' /\ TasksAreRuns' /\ UnstoppedHoldSlots' /\ StopKnowsItsRun'
  BY <1>1 DEF LyricInv, LyricTypeOK, EditsAreKept, HasTheEdits, TasksAreRuns, UnstoppedHoldSlots, Unstopped,
              Stays, Leaving, StopKnowsItsRun, Off
<1> QED  BY <1>2 DEF LyricInv

(* Steps that leave the runs and the stop alone.                           *)
LEMMA OthersKeep ==
    ASSUME LyricInv, UNCHANGED <<lyricRuns, runOf, registered, stop>>, LyricTypeOK', EditsAreKept'
    PROVE  LyricInv'
<1>1. TasksAreRuns' /\ UnstoppedHoldSlots'
  BY DEF LyricInv, TasksAreRuns, UnstoppedHoldSlots, Unstopped, Stays, Leaving
<1>2. StopKnowsItsRun'
  BY DEF LyricInv, StopKnowsItsRun, Off
<1> QED  BY <1>1, <1>2 DEF LyricInv

LEMMA EditKeeps == ASSUME LyricInv, NEW j \in LyricJobs, EditLyrics(j) PROVE LyricInv'
<1>1. /\ lyricsOf' = [lyricsOf EXCEPT ![j].answered = lyricsOf[j].answered + 1, ![j].kept = lyricsOf[j].kept + 1]
      /\ UNCHANGED <<lookedUp, lyricRuns, runOf, lockedBy, registered, splitState, stop, stops>>
      /\ \A r \in RunIds : lyricRuns[r].at # "writing"
  BY DEF EditLyrics, LyricInv, LyricTypeOK, OffsetLockFree
<1>2. lyricsOf \in [LyricJobs -> [answered : Nat, kept : Nat, timed : BOOLEAN]] /\ EditsAreKept
  BY DEF LyricInv, LyricTypeOK
<1>3. lyricsOf' \in [LyricJobs -> [answered : Nat, kept : Nat, timed : BOOLEAN]] /\ EditsAreKept'
  BY <1>1, <1>2 DEF EditsAreKept, HasTheEdits
<1>4. LyricTypeOK'
  BY <1>1, <1>3 DEF LyricInv, LyricTypeOK
<1> QED  BY <1>1, <1>3, <1>4, OthersKeep

LEMMA LockOrSplitKeeps ==
    ASSUME LyricInv, UNCHANGED <<lookedUp, lyricRuns, runOf, registered, stop, lyricsOf>>, lockedBy' \in Locks,
           lockedBy'.kind = "run" => lockedBy'.of \in RunIds, lockedBy'.kind = "split" => lockedBy'.of \in LyricJobs,
           splitState' = splitState \/ \E j \in LyricJobs, s \in SplitStates \ {"none"} :
                                          splitState' = [splitState EXCEPT ![j] = s]
    PROVE  LyricInv'
<1>1. LyricTypeOK' /\ EditsAreKept'
  BY DEF LyricInv, LyricTypeOK, EditsAreKept, HasTheEdits
<1> QED  BY <1>1, OthersKeep

LEMMA BehindTheLockKeeps ==
    LyricInv /\ (ImportLocks \/ OtherUnlocks \/ \E j \in LyricJobs : StartSplit(j) \/ SplitLocks(j)) => LyricInv'
<1> SUFFICES ASSUME LyricInv, ImportLocks \/ OtherUnlocks \/ \E j \in LyricJobs : StartSplit(j) \/ SplitLocks(j)
             PROVE  LyricInv'
  OBVIOUS
<1>1. CASE ImportLocks
  BY <1>1, LockOrSplitKeeps DEF ImportLocks, Locked, Locks
<1>2. CASE OtherUnlocks
  <2>1. /\ UNCHANGED <<lookedUp, lyricRuns, runOf, registered, stop, lyricsOf>>
        /\ lockedBy' \in Locks /\ lockedBy'.kind = "free"
    BY <1>2, RunsAreThere DEF OtherUnlocks, Unlocked, Locked
  <2>2. CASE lockedBy.kind = "split"
    <3>1. lockedBy.of \in LyricJobs
      BY <2>2 DEF LyricInv, LyricTypeOK
    <3> QED  BY <1>2, <2>1, <2>2, <3>1, LockOrSplitKeeps DEF OtherUnlocks, SplitStates
  <2>3. CASE lockedBy.kind # "split"
    BY <1>2, <2>1, <2>3, LockOrSplitKeeps DEF OtherUnlocks
  <2> QED  BY <2>2, <2>3
<1>3. ASSUME NEW j \in LyricJobs, StartSplit(j) PROVE LyricInv'
  <2>1. /\ lockedBy' \in Locks /\ (lockedBy'.kind = "run" => lockedBy'.of \in RunIds)
        /\ lockedBy'.kind = "split" => lockedBy'.of \in LyricJobs
    BY <1>3 DEF StartSplit, LyricInv, LyricTypeOK
  <2> QED  BY <1>3, <2>1, LockOrSplitKeeps DEF StartSplit, SplitStates
<1>4. ASSUME NEW j \in LyricJobs, SplitLocks(j) PROVE LyricInv'
  BY <1>4, LockOrSplitKeeps DEF SplitLocks, Locked, Locks
<1> QED  BY <1>1, <1>2, <1>3, <1>4

-----------------------------------------------------------------------------
(* Steps of a cancel or a deletion.                                        *)
LEMMA StopBeginsKeeps ==
    ASSUME LyricInv, NEW j \in LyricJobs, NEW kind \in {"cancel", "delete"}, StopBegins(j, kind)
    PROVE  LyricInv'
<1>1. /\ stop' \in StopRecs /\ stop'.job = j /\ stop'.run = 0 /\ stop'.at \in {"signal", "flag"}
      /\ stop.at = "none"
      /\ UNCHANGED <<lookedUp, lyricRuns, runOf, lockedBy, registered, splitState, lyricsOf>>
  BY RunsAreThere DEF StopBegins, StopRecs, NoStop
<1>2. LyricTypeOK' /\ EditsAreKept'
  BY <1>1 DEF LyricInv, LyricTypeOK, EditsAreKept, HasTheEdits
<1>3. TasksAreRuns' /\ UnstoppedHoldSlots'
  BY <1>1 DEF LyricInv, TasksAreRuns, UnstoppedHoldSlots, Unstopped, Stays, Leaving
<1>4. StopKnowsItsRun'
  BY <1>1 DEF StopKnowsItsRun
<1> QED  BY <1>2, <1>3, <1>4 DEF LyricInv

(* A run gets its flag, or is told to be over, once it is flagged.         *)
LEMMA FlaggedKeeps ==
    ASSUME LyricInv, NEW r \in RunIds, NEW new \in RunRecs,
           lyricRuns' = [lyricRuns EXCEPT ![r] = new], UNCHANGED <<runOf, registered>>,
           stop.at # "remove", new.cancel, new.at = lyricRuns[r].at, new.job = lyricRuns[r].job,
           new.started = lyricRuns[r].started, lyricRuns[r].state # "none", new.state # "none",
           new.state = lyricRuns[r].state \/ ~new.started,
           new.of = lyricRuns[r].of, EditsAreKept, lyricsOf' = lyricsOf
    PROVE  TasksAreRuns' /\ UnstoppedHoldSlots' /\ EditsAreKept'
<1>1. /\ lyricRuns \in [RunIds -> RunRecs] /\ TasksAreRuns /\ UnstoppedHoldSlots
      /\ \A q \in RunIds : lyricRuns'[q] = IF q = r THEN new ELSE lyricRuns[q]
  BY DEF LyricInv, LyricTypeOK
<1>2. TasksAreRuns'
  BY <1>1 DEF TasksAreRuns, Going
<1>4. EditsAreKept'
  BY <1>1 DEF EditsAreKept, HasTheEdits
<1>3. UnstoppedHoldSlots'
  <2>1. \A q \in RunIds : Unstopped(q)' => Unstopped(q) /\ lyricRuns'[q] = lyricRuns[q] /\ (Stays(q)' => Stays(q))
    BY <1>1 DEF Unstopped, Stays, Leaving
  <2> QED  BY <1>1, <2>1 DEF UnstoppedHoldSlots
<1> QED  BY <1>2, <1>3, <1>4

LEMMA StopFlagsKeeps == ASSUME LyricInv, StopFlags PROVE LyricInv'
<1> DEFINE r == runOf[stop.job]
<1>1. /\ lyricRuns \in [RunIds -> RunRecs] /\ runOf \in [LyricJobs -> RunIds \cup {0}]
      /\ stop \in StopRecs /\ stop.job \in LyricJobs /\ stop.run = 0 /\ stop.at = "flag"
      /\ r \in RunIds \cup {0}
      /\ EditsAreKept /\ UNCHANGED <<lookedUp, runOf, lockedBy, registered, splitState, stops, lyricsOf>>
  BY DEF LyricInv, LyricTypeOK, StopKnowsItsRun, StopFlags
<1>2. CASE IsRunning(r)
  <2> DEFINE new == [lyricRuns[r] EXCEPT !.cancel = TRUE]
  <2>1. /\ lyricRuns' = [lyricRuns EXCEPT ![r] = new] /\ stop' = [stop EXCEPT !.at = "settle", !.run = r]
        /\ r \in RunIds /\ lyricRuns[r].state = "running"
    BY <1>1, <1>2 DEF StopFlags, SetRun, IsRunning
  <2>2. /\ new \in RunRecs /\ new.cancel /\ new.state = "running" /\ new.at = lyricRuns[r].at
        /\ new.job = lyricRuns[r].job /\ new.started = lyricRuns[r].started /\ new.of = lyricRuns[r].of
    BY <1>1, <2>1 DEF RunRecs
  <2> HIDE DEF new
  <2>3. TasksAreRuns' /\ UnstoppedHoldSlots' /\ EditsAreKept'
    BY <1>1, <2>1, <2>2, FlaggedKeeps
  <2>4. stop' \in StopRecs /\ stop'.job = stop.job /\ stop'.at = "settle" /\ stop'.run = r
    BY <1>1, <2>1 DEF StopRecs
  <2>5. lyricRuns'[r] = new
    BY <1>1, <2>1
  <2>6. StopKnowsItsRun'
    BY <1>1, <2>1, <2>2, <2>4, <2>5, RunsAreThere DEF StopKnowsItsRun
  <2>7. LyricTypeOK'
    BY <1>1, <2>1, <2>2, <2>4 DEF LyricInv, LyricTypeOK
  <2> QED  BY <2>3, <2>6, <2>7 DEF LyricInv
<1>3. CASE ~IsRunning(r)
  <2>1. /\ lyricRuns' = lyricRuns
        /\ stop' = NoStop \/ stop' = [stop EXCEPT !.at = "forget"]
    BY <1>3 DEF StopFlags
  <2>2. /\ stop' \in StopRecs /\ stop'.run = 0 /\ stop'.at \in {"none", "forget"}
        /\ stop'.at # "none" => stop'.job \in LyricJobs
    BY <1>1, <2>1, RunsAreThere DEF StopRecs, NoStop
  <2>3. LyricTypeOK' /\ EditsAreKept' /\ TasksAreRuns' /\ UnstoppedHoldSlots'
    BY <1>1, <2>1, <2>2
       DEF LyricInv, LyricTypeOK, EditsAreKept, HasTheEdits, TasksAreRuns, UnstoppedHoldSlots, Unstopped,
           Stays, Leaving
  <2>4. StopKnowsItsRun'
    BY <2>2 DEF StopKnowsItsRun
  <2> QED  BY <2>3, <2>4 DEF LyricInv
<1> QED  BY <1>2, <1>3

LEMMA StopSettlesKeeps == ASSUME LyricInv, StopSettles PROVE LyricInv'
<1> DEFINE r == stop.run
<1>1. /\ lyricRuns \in [RunIds -> RunRecs] /\ stop \in StopRecs /\ stop.job \in LyricJobs
      /\ r \in RunIds /\ runOf[stop.job] = r /\ lyricRuns[r].cancel /\ lyricRuns[r].state # "none"
      /\ EditsAreKept /\ stop.at = "settle" /\ UNCHANGED <<lookedUp, runOf, lockedBy, registered, splitState, stops, lyricsOf>>
  BY DEF LyricInv, LyricTypeOK, StopKnowsItsRun, StopSettles, StopRecs
<1>2. /\ stop' \in StopRecs /\ stop'.job = stop.job /\ stop'.run = r
      /\ stop'.at = "signal" \/ (stop'.at = "forget" /\ stop'.spared)
  BY <1>1 DEF StopSettles, StopRecs
<1> DEFINE new == IF lyricRuns[r].started THEN lyricRuns[r] ELSE [lyricRuns[r] EXCEPT !.state = "idle"]
<1>3. lyricRuns' = [lyricRuns EXCEPT ![r] = new]
  BY <1>1 DEF StopSettles, SetRun
<1>4. /\ new \in RunRecs /\ new.cancel /\ new.state # "none" /\ new.at = lyricRuns[r].at
      /\ new.job = lyricRuns[r].job /\ new.started = lyricRuns[r].started /\ new.of = lyricRuns[r].of
      /\ new.state = lyricRuns[r].state \/ ~new.started
  BY <1>1 DEF RunRecs
<1> HIDE DEF new
<1>5. TasksAreRuns' /\ UnstoppedHoldSlots' /\ EditsAreKept'
  BY <1>1, <1>3, <1>4, FlaggedKeeps
<1>6. lyricRuns'[r] = new
  BY <1>1, <1>3
<1>7. StopKnowsItsRun'
  BY <1>1, <1>2, <1>4, <1>6 DEF StopKnowsItsRun
<1>8. LyricTypeOK'
  BY <1>1, <1>2, <1>3, <1>4 DEF LyricInv, LyricTypeOK
<1> QED  BY <1>5, <1>7, <1>8 DEF LyricInv

(* A stop that goes on leaves the runs alone.                              *)
LEMMA GoingOnKeeps ==
    ASSUME LyricInv, UNCHANGED <<lookedUp, lyricRuns, splitState, lyricsOf>>, LyricTypeOK', StopKnowsItsRun',
           \/ UNCHANGED <<runOf, registered>> /\ stop.at # "remove"
           \/ /\ stop.job \in LyricJobs /\ runOf' = [runOf EXCEPT ![stop.job] = 0]
              /\ registered' = registered /\ stop.at # "remove" /\ stop'.at = "remove" /\ stop'.job = stop.job
           \/ runOf' = runOf /\ registered' = registered \ {stop.job}
    PROVE  LyricInv'
<1>1. TasksAreRuns' /\ EditsAreKept'
  BY DEF LyricInv, TasksAreRuns, EditsAreKept, HasTheEdits
<1>2. UnstoppedHoldSlots'
  <2>1. \A r \in RunIds : Unstopped(r)' => Unstopped(r) /\ lyricRuns'[r] = lyricRuns[r]
    BY DEF Unstopped
  <2>2. \A r \in RunIds : Stays(r)' => Stays(r) /\ runOf'[lyricRuns[r].job] = runOf[lyricRuns[r].job]
    BY DEF Stays, Leaving, LyricInv, LyricTypeOK
  <2>3. \A r \in RunIds : Stays(r)' => Stays(r)
    BY <2>2
  <2> QED  BY <2>1, <2>2 DEF LyricInv, UnstoppedHoldSlots
<1> QED  BY <1>1, <1>2 DEF LyricInv

LEMMA StopSignalledKeeps == ASSUME LyricInv, StopSignalled PROVE LyricInv'
<1>1. /\ stop \in StopRecs /\ stop.at = "signal" /\ StopKnowsItsRun
      /\ UNCHANGED <<lookedUp, lyricRuns, runOf, registered, splitState, stops, lyricsOf>>
      /\ stop' = NoStop \/ stop' = [stop EXCEPT !.at = "wait"]
  BY DEF LyricInv, LyricTypeOK, StopSignalled
<1>2. stop' \in StopRecs
  BY <1>1, RunsAreThere DEF StopRecs
<1>3. lockedBy' \in Locks /\ lockedBy'.kind = lockedBy.kind /\ lockedBy'.of = lockedBy.of
  BY DEF LyricInv, LyricTypeOK, StopSignalled, Locks
<1>4. LyricTypeOK'
  BY <1>1, <1>2, <1>3 DEF LyricInv, LyricTypeOK
<1>5. StopKnowsItsRun'
  <2>1. CASE stop' = NoStop
    BY <2>1 DEF StopKnowsItsRun, NoStop
  <2>2. CASE stop' = [stop EXCEPT !.at = "wait"]
    <3>1. stop'.at = "wait" /\ stop'.job = stop.job /\ stop'.run = stop.run
      BY <1>1, <2>2 DEF StopRecs
    <3> QED  BY <1>1, <3>1 DEF StopKnowsItsRun
  <2> QED  BY <1>1, <2>1, <2>2
<1> QED  BY <1>1, <1>4, <1>5, GoingOnKeeps

LEMMA StopWaitsKeeps == ASSUME LyricInv, StopWaits PROVE LyricInv'
<1>1. /\ stop \in StopRecs /\ stop.job \in LyricJobs /\ stop.at = "wait" /\ StopKnowsItsRun /\ TasksAreRuns
      /\ UNCHANGED <<lookedUp, lyricRuns, runOf, lockedBy, registered, splitState, stops, lyricsOf>>
  BY DEF LyricInv, LyricTypeOK, StopKnowsItsRun, StopWaits
<1>2. /\ stop' \in StopRecs /\ stop'.at = "forget" /\ stop'.job = stop.job /\ stop'.run = stop.run
      /\ stop'.spared \/ RunIsOff(runOf[stop.job])
  BY <1>1 DEF StopWaits, StopRecs
<1>3. stop.run # 0 /\ RunIsOff(runOf[stop.job]) => Off(stop.run)
  <2>1. stop.run # 0 => stop.run \in RunIds
    BY <1>1 DEF StopRecs
  <2> QED  BY <1>1, <2>1 DEF TasksAreRuns, StopKnowsItsRun, RunIsOff, Off, Going
<1>4. LyricTypeOK'
  BY <1>1, <1>2 DEF LyricInv, LyricTypeOK
<1>5. StopKnowsItsRun'
  BY <1>1, <1>2, <1>3 DEF StopKnowsItsRun, Off
<1> QED  BY <1>1, <1>4, <1>5, GoingOnKeeps

LEMMA StopForgetsKeeps == ASSUME LyricInv, StopForgets PROVE LyricInv'
<1>1. /\ stop \in StopRecs /\ stop.job \in LyricJobs /\ stop.at = "forget" /\ StopKnowsItsRun
      /\ runOf \in [LyricJobs -> RunIds \cup {0}] /\ runOf' = [runOf EXCEPT ![stop.job] = 0]
      /\ UNCHANGED <<lookedUp, lyricRuns, lockedBy, registered, splitState, stops, lyricsOf>>
  BY DEF LyricInv, LyricTypeOK, StopKnowsItsRun, StopForgets
<1>2. /\ stop' \in StopRecs /\ stop'.at = "remove" /\ stop'.job = stop.job /\ stop'.run = stop.run
      /\ stop'.spared = stop.spared
  BY <1>1 DEF StopForgets, StopRecs
<1>3. LyricTypeOK'
  BY <1>1, <1>2 DEF LyricInv, LyricTypeOK
<1>4. StopKnowsItsRun'
  BY <1>1, <1>2 DEF StopKnowsItsRun, Off
<1> QED  BY <1>1, <1>2, <1>3, <1>4, GoingOnKeeps

LEMMA StopRemovesKeeps == ASSUME LyricInv, StopRemoves PROVE LyricInv'
<1>1. /\ stop' = NoStop /\ stop.job \in LyricJobs /\ registered' = registered \ {stop.job}
      /\ UNCHANGED <<lookedUp, lyricRuns, runOf, lockedBy, splitState, stops, lyricsOf>>
  BY DEF LyricInv, LyricTypeOK, StopKnowsItsRun, StopRemoves
<1>2. LyricTypeOK'
  BY <1>1, RunsAreThere DEF LyricInv, LyricTypeOK
<1>3. StopKnowsItsRun'
  BY <1>1 DEF NoStop, StopKnowsItsRun
<1> QED  BY <1>1, <1>2, <1>3, GoingOnKeeps

-----------------------------------------------------------------------------
LEMMA LyricStep == LyricInv /\ [LyricRunsNext]_lyricVars => LyricInv'
<1> SUFFICES ASSUME LyricInv, [LyricRunsNext]_lyricVars PROVE LyricInv'
  OBVIOUS
<1>1. CASE UNCHANGED lyricVars
  BY <1>1, OthersKeep DEF lyricVars, LyricInv, LyricTypeOK, EditsAreKept, HasTheEdits
<1>2. CASE \E r \in RunIds : RunStarts(r) \/ RunChecks(r) \/ RunHears(r) \/ RunLooks(r) \/ RunWrites(r)
  BY <1>2, RunStartsKeeps, RunChecksKeeps, RunHearsKeeps, RunLooksKeeps, RunWritesKeeps
<1>3. CASE \E j \in LyricJobs : AskRetime(j) \/ RefuseRetime(j) \/ StartRetime(j) \/ EditLyrics(j)
  BY <1>3, AskedKeeps, StartRetimeKeeps, EditKeeps
<1>4. CASE ImportLocks \/ OtherUnlocks \/ \E j \in LyricJobs : StartSplit(j) \/ SplitLocks(j)
  BY <1>4, BehindTheLockKeeps
<1>5. CASE \E j \in LyricJobs : \E kind \in {"cancel", "delete"} : StopBegins(j, kind)
  BY <1>5, StopBeginsKeeps
<1>6. CASE StopFlags \/ StopSettles \/ StopSignalled \/ StopWaits \/ StopForgets \/ StopRemoves
  BY <1>6, StopFlagsKeeps, StopSettlesKeeps, StopSignalledKeeps, StopWaitsKeeps, StopForgetsKeeps, StopRemovesKeeps
<1> QED  BY <1>1, <1>2, <1>3, <1>4, <1>5, <1>6 DEF LyricRunsNext

(* What that says of a job's runs.                                         *)
LEMMA AtMostOne == ASSUME NEW S, \A r, q \in S : r = q PROVE Cardinality(S) <= 1
<1>1. CASE S = {}
  BY <1>1, FS_EmptySet
<1>2. CASE S # {}
  <2>1. PICK r : S = {r}
    BY <1>2
  <2>2. Cardinality({r}) = 1
    BY FS_Singleton
  <2> QED  BY <2>1, <2>2
<1> QED  BY <1>1, <1>2

LEMMA LyricInvSays == LyricInv => RunsKeepTheirWord
<1> SUFFICES ASSUME LyricInv PROVE RunsKeepTheirWord
  OBVIOUS
<1>1. \A r \in RunIds : lyricRuns[r].at \in Going => lyricRuns[r].state = "running"
  BY DEF LyricInv, TasksAreRuns
<1>2. ASSUME NEW j \in registered, ~Leaving(j)
      PROVE  Cardinality({r \in RunIds : /\ lyricRuns[r].job = j /\ ~lyricRuns[r].cancel
                                         /\ lyricRuns[r].at \in Going \cup {"waiting", "check"}}) <= 1
  <2> DEFINE those == {r \in RunIds : /\ lyricRuns[r].job = j /\ ~lyricRuns[r].cancel
                                      /\ lyricRuns[r].at \in Going \cup {"waiting", "check"}}
  <2>1. \A r \in those : runOf[j] = r
    BY <1>2 DEF LyricInv, UnstoppedHoldSlots, Unstopped, Stays
  <2>2. \A r, q \in those : r = q
    BY <2>1
  <2> QED  BY <2>2, AtMostOne
<1>3. stop.at \in {"forget", "remove"} /\ stop.run # 0 /\ ~stop.spared => lyricRuns[stop.run].at \notin Going
  BY DEF LyricInv, StopKnowsItsRun, Off
<1>4. \A j \in LyricJobs : lyricsOf[j].kept = lyricsOf[j].answered
  BY DEF LyricInv, EditsAreKept
<1> QED  BY <1>1, <1>2, <1>3, <1>4 DEF RunsKeepTheirWord

LEMMA LyricInvHolds == LyricRunsSpec => []LyricInv
<1> QED  BY LyricInitially, LyricStep, PTL DEF LyricRunsSpec

(* The runs, their slots, the lock and the stop are always of their types. *)
THEOREM LyricTypeCorrect == LyricRunsSpec => []LyricTypeOK
<1>1. LyricInv => LyricTypeOK
  BY DEF LyricInv
<1> QED  BY <1>1, LyricInvHolds, PTL

(* For any jobs and bounds: a run that the user was told is over never     *)
(* hears nor writes, a job that is kept has one run that nobody stopped,   *)
(* no timing undoes an edit, and a deletion that does not give up removes  *)
(* the files when the run it stopped has let go of them.                   *)
THEOREM RunsAlwaysKeepTheirWord == LyricRunsSpec => []RunsKeepTheirWord
<1> QED  BY LyricInvHolds, LyricInvSays, PTL

-----------------------------------------------------------------------------
(* However the steps of the separations and of the lyric runs fall, the    *)
(* process kept between the jobs is clean and the runs keep their word.    *)
THEOREM GpuWorkStaysSound == GpuWorkSpec => []GpuWorkIsSound
<1> QED  BY RunsAlwaysKeepTheirWord, EveryWorkerIsClean, PTL DEF GpuWorkSpec, GpuWorkIsSound
=============================================================================

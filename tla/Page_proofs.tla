----------------------------- MODULE Page_proofs -----------------------------
(***************************************************************************)
(* What the page's library keeps through every gesture, answer, frame and  *)
(* reload, proved for any number of jobs and folders: its types, the       *)
(* tombstones of what was deleted for good, a place for every track, and   *)
(* a forest of folders.                                                    *)
(*                                                                         *)
(* A library L is followed to the library K an operation makes of it by    *)
(* two relations: "Shows" (K hides no track that L showed) and "Brings"    *)
(* (K knows no track that L did not know, but for some).                   *)
(***************************************************************************)
EXTENDS PageStudio, DataLemmas

Shows(L, K) == \A i \in Ids : OutOfSight(K, i) => OutOfSight(L, i)
ShowsBut(L, K, ids) == \A i \in Ids \ ids : OutOfSight(K, i) => OutOfSight(L, i)
Brings(L, K, ids) == Known(K) \subseteq Known(L) \cup ids
SameTree(L, K) == K.folders = L.folders /\ K.parent = L.parent

-----------------------------------------------------------------------------
(* The library's own operations.                                           *)

(* Unsorted and the Trash are two of the folders.                          *)
LEMMA FoldersThere == Unsorted \in FolderIds /\ Trash \in FolderIds /\ Unsorted # Trash
  BY DEF FolderIds, Unsorted, Trash

(* The fields of a library.                                                *)
LEMMA LibIs ==
    ASSUME NEW L \in Lib
    PROVE  /\ L.folders \subseteq FolderIds
           /\ L.parent \in [FolderIds -> FolderIds \cup {None}]
           /\ L.items \in [FolderIds -> SUBSET Ids]
           /\ L.tracks \in [Ids -> Track \cup {None}]
           /\ L.current \in Ids \cup {None}
           /\ InTrash(L) \subseteq Ids /\ Known(L) \subseteq Ids
  BY FoldersThere DEF Lib, InTrash, Known

(* PutIn() adds a folder if need be, and places in it.                     *)
LEMMA PutInKeeps ==
    ASSUME NEW L \in Lib, NEW f \in FolderIds, NEW ids \in SUBSET Ids, NEW K, K = PutIn(L, f, ids)
    PROVE  /\ K \in Lib
           /\ K.folders = L.folders \cup {f} /\ K.parent = L.parent
           /\ K.tracks = L.tracks /\ K.current = L.current
           /\ \A g \in FolderIds : K.items[g] = IF g = f THEN L.items[g] \cup ids ELSE L.items[g]
  BY DEF PutIn, Lib

LEMMA PutInHolds ==
    ASSUME NEW L \in Lib, NEW f \in FolderIds, NEW ids \in SUBSET Ids, NEW K, K = PutIn(L, f, ids),
           NEW i \in Ids
    PROVE  Holding(K, i) = IF i \in ids THEN Holding(L, i) \cup {f} ELSE Holding(L, i)
<1>1. \A g \in FolderIds : K.items[g] = IF g = f THEN L.items[g] \cup ids ELSE L.items[g]
  BY PutInKeeps
<1>2. \A g \in FolderIds : i \in K.items[g] <=> (i \in L.items[g] \/ (g = f /\ i \in ids))
  BY <1>1
<1> QED BY <1>2 DEF Holding

(* A track that takes over an older one: only the older one goes, and only *)
(* its places change.                                                      *)
LEMMA ReplaceKeeps ==
    ASSUME NEW L \in Lib, NEW old \in Ids, NEW new \in Ids, old # new,
           NEW K, K = ReplaceTrackId(L, old, new)
    PROVE  /\ K \in Lib /\ K.folders = L.folders /\ K.parent = L.parent
           /\ \A i \in Ids : K.tracks[i] =
                 IF i = old THEN None
                 ELSE IF i = new /\ L.tracks[new] = None THEN L.tracks[old] ELSE L.tracks[i]
           /\ \A f \in FolderIds : K.items[f] =
                 IF old \in L.items[f] THEN (L.items[f] \ {old}) \cup {new} ELSE L.items[f]
  BY DEF ReplaceTrackId, Lib

LEMMA ReplaceHolds ==
    ASSUME NEW L \in Lib, NEW old \in Ids, NEW new \in Ids, old # new,
           NEW K, K = ReplaceTrackId(L, old, new), NEW i \in Ids, i # old, i # new
    PROVE  Holding(K, i) = Holding(L, i)
<1>1. \A f \in FolderIds : K.items[f] =
         IF old \in L.items[f] THEN (L.items[f] \ {old}) \cup {new} ELSE L.items[f]
  BY DEF ReplaceTrackId, Lib
<1>2. \A f \in FolderIds : i \in K.items[f] <=> i \in L.items[f]
  BY <1>1
<1> QED BY <1>2 DEF Holding

(* What addTrackToLibrary() does, in three steps: it claims an older track *)
(* of the source or none, writes the entry, and places the track.          *)
Entry(K, id, status, audio) ==
    [K EXCEPT !.tracks[id] = [status |-> status, audio |-> audio,
                              favorite |-> K.tracks[id] # None /\ K.tracks[id].favorite]]
Claimed(L, o, id) == IF o \in InTrash(L) THEN L ELSE ReplaceTrackId(L, o, id)
Placed(E, K, id) ==
    \/ Holding(E, id) # {} /\ K = E
    \/ Holding(E, id) = {} /\ \E f \in Landing(E) : K = PutIn(E, f, {id})

LEMMA AddIs ==
    ASSUME NEW L, NEW id, NEW status, NEW audio,
           NEW K \in AddTrackToLibrary(L, id, status, audio)
    PROVE  \E J \in {L} \cup {Claimed(L, o, id) : o \in FindTracksBySource(L, id)} :
              Placed(Entry(J, id, status, audio), K, id)
  BY ZenonT(40) DEF AddTrackToLibrary, Entry, Claimed, Placed

LEMMA EntryKeeps ==
    ASSUME NEW L \in Lib, NEW id \in Ids, NEW status \in TrackStatus, NEW audio \in BOOLEAN
    PROVE  LET E == Entry(L, id, status, audio)
           IN  /\ E \in Lib /\ SameTree(L, E) /\ E.items = L.items
               /\ E.tracks[id] \in Track
               /\ \A i \in Ids \ {id} : E.tracks[i] = L.tracks[i]
<1>1. (L.tracks[id] # None /\ L.tracks[id].favorite) \in BOOLEAN
  BY DEF Lib, Track
<1> DEFINE t == [status |-> status, audio |-> audio,
                 favorite |-> L.tracks[id] # None /\ L.tracks[id].favorite]
           E == [L EXCEPT !.tracks[id] = t]
<1>2. t \in Track
  BY <1>1 DEF Track
<1>3. E = Entry(L, id, status, audio)
  BY DEF Entry
<1> HIDE DEF t
<1>4. E \in Lib
  BY <1>2 DEF Lib
<1>5. /\ E.folders = L.folders /\ E.parent = L.parent /\ E.items = L.items
      /\ E.tracks = [L.tracks EXCEPT ![id] = t]
  BY DEF Lib
<1> HIDE DEF E
<1>6. E.tracks[id] = t /\ \A i \in Ids \ {id} : E.tracks[i] = L.tracks[i]
  BY <1>5, LibIs
<1> QED BY <1>2, <1>3, <1>4, <1>5, <1>6 DEF SameTree

(* A place for a track is a folder, and never the Trash.                   *)
LEMMA LandingIs ==
    ASSUME NEW L \in Lib
    PROVE  /\ Landing(L) \subseteq L.folders \cup {Unsorted}
           /\ Landing(L) \subseteq FolderIds /\ Trash \notin Landing(L)
  BY LibIs, FoldersThere DEF Landing

LEMMA ClaimKeeps ==
    ASSUME NEW L \in Lib, NEW id \in Ids,
           NEW J \in {L} \cup {Claimed(L, o, id) : o \in FindTracksBySource(L, id)}
    PROVE  /\ J \in Lib /\ SameTree(L, J) /\ Brings(L, J, {id})
           /\ ShowsBut(L, J, {id})
<1>1. CASE J = L
  BY <1>1 DEF SameTree, ShowsBut, Brings
<1>2. ASSUME NEW o \in FindTracksBySource(L, id), J = ReplaceTrackId(L, o, id)
      PROVE  /\ J \in Lib /\ SameTree(L, J) /\ Brings(L, J, {id})
             /\ ShowsBut(L, J, {id})
  <2>1. o \in Ids /\ o # id
    BY DEF FindTracksBySource, Known
  <2>2. J \in Lib /\ SameTree(L, J)
    BY <1>2, <2>1, ReplaceKeeps DEF SameTree
  <2>3. \A i \in Ids \ {id} : J.tracks[i] # None => L.tracks[i] # None /\ i # o
    <3>1. \A i \in Ids : J.tracks[i] =
             IF i = o THEN None
             ELSE IF i = id /\ L.tracks[id] = None THEN L.tracks[o] ELSE L.tracks[i]
      BY <1>2, <2>1, ReplaceKeeps
    <3> QED BY <3>1
  <2>4. \A i \in Ids \ {id, o} : Holding(J, i) = Holding(L, i)
    BY <1>2, <2>1, ReplaceHolds
  <2>5. ShowsBut(L, J, {id})
    BY <2>3, <2>4 DEF OutOfSight, ShowsBut
  <2>6. Brings(L, J, {id})
    BY <2>3 DEF Brings, Known
  <2> QED BY <2>2, <2>5, <2>6
<1> QED BY <1>1, <1>2 DEF Claimed

LEMMA PlaceKeeps ==
    ASSUME NEW E \in Lib, NEW id \in Ids, NEW K, Placed(E, K, id)
    PROVE  /\ K \in Lib /\ K.parent = E.parent /\ K.tracks = E.tracks
           /\ E.folders \subseteq K.folders /\ K.folders \subseteq E.folders \cup {Unsorted}
           /\ Holding(K, id) # {}
           /\ \A i \in Ids \ {id} : Holding(K, i) = Holding(E, i)
<1>1. CASE K = E /\ Holding(E, id) # {}
  BY <1>1
<1>2. ASSUME NEW f \in Landing(E), K = PutIn(E, f, {id})
      PROVE  /\ K \in Lib /\ K.parent = E.parent /\ K.tracks = E.tracks
             /\ E.folders \subseteq K.folders /\ K.folders \subseteq E.folders \cup {Unsorted}
             /\ Holding(K, id) # {}
             /\ \A i \in Ids \ {id} : Holding(K, i) = Holding(E, i)
  <2>1. f \in FolderIds /\ f \in E.folders \cup {Unsorted} /\ {id} \in SUBSET Ids
    BY LandingIs
  <2>2. /\ K \in Lib /\ K.folders = E.folders \cup {f} /\ K.parent = E.parent
        /\ K.tracks = E.tracks
    BY <1>2, <2>1, PutInKeeps
  <2>3. Holding(K, id) # {} /\ \A i \in Ids \ {id} : Holding(K, i) = Holding(E, i)
    BY <1>2, <2>1, PutInHolds
  <2> QED BY <2>1, <2>2, <2>3
<1> QED BY <1>1, <1>2 DEF Placed

(* addTrackToLibrary() writes the track, brings no other, hides none, and  *)
(* leaves the folders as they are but for Unsorted.                        *)
LEMMA AddKeeps ==
    ASSUME NEW L \in Lib, NEW id \in Ids, NEW status \in TrackStatus, NEW audio \in BOOLEAN,
           NEW K \in AddTrackToLibrary(L, id, status, audio)
    PROVE  /\ K \in Lib /\ K.parent = L.parent
           /\ L.folders \subseteq K.folders /\ K.folders \subseteq L.folders \cup {Unsorted}
           /\ K.tracks[id] \in Track
           /\ Brings(L, K, {id}) /\ Shows(L, K)
<1>1. PICK J \in {L} \cup {Claimed(L, o, id) : o \in FindTracksBySource(L, id)} :
         Placed(Entry(J, id, status, audio), K, id)
  BY AddIs
<1>2. J \in Lib /\ SameTree(L, J) /\ Brings(L, J, {id}) /\ ShowsBut(L, J, {id})
  BY ClaimKeeps
<1> DEFINE E == Entry(J, id, status, audio)
<1>3. /\ E \in Lib /\ SameTree(J, E) /\ E.items = J.items
      /\ E.tracks[id] \in Track
      /\ \A i \in Ids \ {id} : E.tracks[i] = J.tracks[i]
  BY <1>2, EntryKeeps
<1>4. Placed(E, K, id)
  BY <1>1
<1> HIDE DEF E
<1>5. /\ K \in Lib /\ K.parent = E.parent /\ K.tracks = E.tracks
      /\ E.folders \subseteq K.folders /\ K.folders \subseteq E.folders \cup {Unsorted}
      /\ Holding(K, id) # {}
      /\ \A i \in Ids \ {id} : Holding(K, i) = Holding(E, i)
  BY <1>3, <1>4, PlaceKeeps
<1>6. \A i \in Ids : Holding(E, i) = Holding(J, i)
  BY <1>3 DEF Holding
<1>7. Brings(L, K, {id})
  BY <1>2, <1>3, <1>5 DEF Brings, Known
<1>8. Shows(L, K)
  BY <1>2, <1>3, <1>5, <1>6 DEF Shows, ShowsBut, OutOfSight
<1> QED BY <1>2, <1>3, <1>5, <1>7, <1>8 DEF SameTree

-----------------------------------------------------------------------------
(* The operations a sync is made of.                                       *)

(* The relations compose.                                                  *)
LEMMA Transitive ==
    ASSUME NEW L, NEW J, NEW K, NEW ids, Shows(L, J), Shows(J, K),
           Brings(L, J, ids), Brings(J, K, ids)
    PROVE  Shows(L, K) /\ Brings(L, K, ids)
  BY DEF Shows, Brings

(* The libraries a sync may make of L: those that adopt some of "ids".     *)
Adopting(L, ids) ==
    {K \in Lib : /\ K.parent = L.parent
                 /\ L.folders \subseteq K.folders /\ K.folders \subseteq L.folders \cup {Unsorted}
                 /\ Brings(L, K, ids) /\ Shows(L, K)}

LEMMA StatusIs ==
    ASSUME NEW job \in Job, job.status \notin {"absent", "gone"}
    PROVE  StatusOf(job) \in TrackStatus /\ HasAudio(job) \in BOOLEAN
  BY DEF Job, StatusOf, TrackStatus, Active, Settled, HasAudio

(* One more adoption.                                                      *)
LEMMA AdoptOne ==
    ASSUME NEW L \in Lib, NEW ids \in SUBSET Ids, NEW K \in Adopting(L, ids), NEW id \in ids,
           NEW job \in Job, Listed(job),
           NEW M \in AddTrackToLibrary(K, id, StatusOf(job), TRUE)
    PROVE  M \in Adopting(L, ids)
<1>1. StatusOf(job) \in TrackStatus
  BY StatusIs DEF Listed
<1>2. K \in Lib /\ id \in Ids
  BY DEF Adopting
<1>3. /\ M \in Lib /\ M.parent = K.parent
      /\ K.folders \subseteq M.folders /\ M.folders \subseteq K.folders \cup {Unsorted}
      /\ Brings(K, M, {id}) /\ Shows(K, M)
  BY <1>1, <1>2, AddKeeps
<1>4. Brings(K, M, ids)
  BY <1>3 DEF Brings
<1>5. Shows(L, M) /\ Brings(L, M, ids)
  BY <1>3, <1>4, Transitive DEF Adopting
<1> QED BY <1>3, <1>5 DEF Adopting

(* The fold that adopts them all: it is well defined, and by induction on  *)
(* the set of jobs it only makes libraries that adopt some of them.        *)
LEMMA AdoptKeeps ==
    ASSUME NEW L \in Lib, NEW jobs \in [Ids -> Job]
    PROVE  Adopt(L, jobs) \subseteq Adopting(L, Adoptable(L, jobs))
<1> DEFINE A == Adoptable(L, jobs)
           Good == Adopting(L, A)
           Step(id, Ls) == UNION {AddTrackToLibrary(K, id, StatusOf(jobs[id]), TRUE) : K \in Ls}
           next == [p \in A \X SUBSET Good |-> Step(p[1], p[2])]
           it == CHOOSE f : f = [s \in SUBSET A |->
                    IF s = {} THEN {L}
                    ELSE Step(CHOOSE x \in s : TRUE, f[s \ {CHOOSE x \in s : TRUE}])]
<1>1. A \subseteq Ids /\ IsFiniteSet(A) /\ \A id \in A : Listed(jobs[id])
  BY LibraryAssumption, FS_Subset DEF Adoptable
<1>2. {L} \in SUBSET Good
  BY DEF Adopting, Shows, Brings
<1>3. \A id \in A, Ls \in SUBSET Good : Step(id, Ls) \in SUBSET Good
  <2> SUFFICES ASSUME NEW id \in A, NEW Ls \in SUBSET Good, NEW M \in Step(id, Ls)
               PROVE  M \in Good
    OBVIOUS
  <2>1. PICK K \in Ls : M \in AddTrackToLibrary(K, id, StatusOf(jobs[id]), TRUE)
    OBVIOUS
  <2>2. K \in Adopting(L, A) /\ A \in SUBSET Ids /\ jobs[id] \in Job /\ Listed(jobs[id])
    BY <1>1
  <2> HIDE DEF A, Step
  <2> QED BY <2>1, <2>2, AdoptOne
<1>4. Adopt(L, jobs) = it[A]
  BY DEF Adopt, FoldSet, MapThenFoldSet
<1> HIDE DEF A, Good, Step
<1>5. next \in [A \X SUBSET Good -> SUBSET Good]
  BY <1>3
<1> HIDE DEF next
<1>6. PICK g \in [SUBSET A -> SUBSET Good] : Recurses(g, A, {L}, next)
  BY <1>1, <1>2, <1>5, SetRecursion
<1>7. g = [s \in SUBSET A |->
              IF s = {} THEN {L}
              ELSE Step(CHOOSE x \in s : TRUE, g[s \ {CHOOSE x \in s : TRUE}])]
  <2>1. \A s \in SUBSET A : s # {} =>
           next[<<AnyOf(s), g[Less1(s)]>>] = Step(AnyOf(s), g[Less1(s)])
    <3> SUFFICES ASSUME NEW s \in SUBSET A, s # {}
                 PROVE  next[<<AnyOf(s), g[Less1(s)]>>] = Step(AnyOf(s), g[Less1(s)])
      OBVIOUS
    <3>1. AnyOf(s) \in A /\ g[Less1(s)] \in SUBSET Good
      BY <1>1, AnyOfIt
    <3> QED BY <3>1 DEF next
  <2> QED BY ZenonT(40), <1>6, <2>1 DEF AnyOf, Less1, Recurses
<1>8. it = [s \in SUBSET A |->
              IF s = {} THEN {L}
              ELSE Step(CHOOSE x \in s : TRUE, it[s \ {CHOOSE x \in s : TRUE}])]
  BY <1>7
<1> HIDE DEF it
<1> DEFINE P == {s \in SUBSET A : it[s] \in SUBSET Good}
<1>9. {} \in P
  BY <1>2, <1>8
<1>10. \A s \in SUBSET A : s # {} /\ Less1(s) \in P => s \in P
  <2> SUFFICES ASSUME NEW s \in SUBSET A, s # {}, Less1(s) \in P PROVE it[s] \in SUBSET Good
    OBVIOUS
  <2>1. it[s] = Step(AnyOf(s), it[Less1(s)])
    BY <1>8 DEF AnyOf, Less1
  <2>2. AnyOf(s) \in A
    BY <1>1, AnyOfIt
  <2> QED BY <1>3, <2>1, <2>2
<1>11. SUBSET A \subseteq P
  <2> HIDE DEF P
  <2> QED BY <1>1, <1>9, <1>10, SetInduction
<1>12. A \in P
  BY <1>11
<1> QED BY <1>4, <1>12 DEF A, Good

-----------------------------------------------------------------------------
(* The other operations: what each leaves in sight.                        *)

(* A change of entries alone.                                              *)
LEMMA EntriesOnly ==
    ASSUME NEW L \in Lib, NEW K \in Lib, K.items = L.items, Known(K) \subseteq Known(L)
    PROVE  Shows(L, K) /\ Brings(L, K, {})
<1>1. \A i \in Ids : Holding(K, i) = Holding(L, i)
  BY DEF Holding
<1>2. \A i \in Ids : K.tracks[i] # None => L.tracks[i] # None
  BY DEF Known
<1> QED BY <1>1, <1>2 DEF Shows, Brings, OutOfSight, Known

LEMMA UpdateKeeps ==
    ASSUME NEW L \in Lib, NEW id \in Ids, NEW status \in TrackStatus,
           NEW K, K = UpdateTrackStatus(L, id, status)
    PROVE  /\ K \in Lib /\ SameTree(L, K) /\ Shows(L, K) /\ Brings(L, K, {})
           /\ \A i \in Ids : L.tracks[i] = None => K.tracks[i] = None
<1>1. K \in Lib /\ SameTree(L, K) /\ K.items = L.items
  BY DEF UpdateTrackStatus, Lib, Track, SameTree
<1>2. \A i \in Ids : L.tracks[i] = None => K.tracks[i] = None
  BY DEF UpdateTrackStatus, Lib, Track
<1>3. Known(K) \subseteq Known(L)
  BY <1>2 DEF Known
<1> QED BY <1>1, <1>2, <1>3, EntriesOnly

LEMMA FavoritesKeep ==
    ASSUME NEW L \in Lib, NEW jobs \in [Ids -> Job], NEW K, K = ApplyServerFavorite(L, jobs)
    PROVE  /\ K \in Lib /\ SameTree(L, K) /\ Shows(L, K) /\ Brings(L, K, {})
           /\ Known(K) = Known(L) /\ InTrash(K) = InTrash(L)
<1> DEFINE entry(id) == IF L.tracks[id] # None /\ Listed(jobs[id]) /\ jobs[id].favorite # None
                        THEN [L.tracks[id] EXCEPT !.favorite = jobs[id].favorite]
                        ELSE L.tracks[id]
<1>1. \A id \in Ids : L.tracks[id] # None => entry(id) \in Track
  BY DEF Lib, Track, Job
<1>2. \A id \in Ids : L.tracks[id] = None => entry(id) = None
  OBVIOUS
<1>3. \A id \in Ids : L.tracks[id] # None => entry(id) # None
  BY <1>1, EntryAssumption
<1>4. K = [L EXCEPT !.tracks = [id \in Ids |-> entry(id)]]
  BY DEF ApplyServerFavorite
<1> HIDE DEF entry
<1>5. K \in Lib /\ SameTree(L, K) /\ K.items = L.items
  BY <1>1, <1>2, <1>4 DEF Lib, SameTree
<1>6. \A id \in Ids : K.tracks[id] = entry(id)
  BY <1>4 DEF Lib
<1>7. Known(K) = Known(L)
  BY <1>2, <1>3, <1>6 DEF Known
<1> QED BY <1>5, <1>7, EntriesOnly DEF InTrash

LEMMA AvailabilityKeeps ==
    ASSUME NEW L \in Lib, NEW jobs \in [Ids -> Job], NEW K, K = ReconcileAvailability(L, jobs)
    PROVE  /\ K \in Lib /\ SameTree(L, K) /\ Shows(L, K) /\ Brings(L, K, {})
<1> DEFINE old == L.tracks
           entry(id) == IF \/ old[id] = None \/ id \in InTrash(L)
                           \/ old[id].status \notin {"done", "unavailable"} THEN old[id]
                        ELSE IF Listed(jobs[id]) THEN [old[id] EXCEPT !.status = StatusOf(jobs[id])]
                        ELSE [old[id] EXCEPT !.status = "unavailable"]
<1>1. \A id \in Ids : Listed(jobs[id]) => StatusOf(jobs[id]) \in TrackStatus
  BY StatusIs DEF Listed
<1>2. \A id \in Ids : entry(id) \in Track \cup {None} /\ (old[id] = None => entry(id) = None)
  BY <1>1 DEF Lib, Track, TrackStatus
<1>3. K = [L EXCEPT !.tracks = [id \in Ids |-> entry(id)]]
  BY DEF ReconcileAvailability
<1> HIDE DEF entry
<1>4. K \in Lib /\ SameTree(L, K) /\ K.items = L.items
  BY <1>2, <1>3 DEF Lib, SameTree
<1>5. \A id \in Ids : K.tracks[id] = entry(id)
  BY <1>3 DEF Lib
<1>6. Known(K) \subseteq Known(L)
  BY <1>2, <1>5 DEF Known
<1> QED BY <1>4, <1>6, EntriesOnly

(* Which track is open says nothing of the rows.                           *)
LEMMA CurrentKeeps ==
    ASSUME NEW L \in Lib, NEW id \in Ids \cup {None}, NEW K, K = [L EXCEPT !.current = id]
    PROVE  /\ K \in Lib /\ SameTree(L, K) /\ Shows(L, K) /\ Brings(L, K, {})
           /\ K.tracks = L.tracks /\ K.items = L.items
<1>1. K \in Lib /\ SameTree(L, K) /\ K.items = L.items /\ K.tracks = L.tracks
  BY DEF Lib, SameTree
<1> QED BY <1>1, EntriesOnly DEF Known

(* One entry written or dropped, and the places as they were.              *)
LEMMA WriteKeeps ==
    ASSUME NEW L \in Lib, NEW id \in Ids, NEW t \in Track \cup {None},
           NEW K, K = [L EXCEPT !.tracks[id] = t]
    PROVE  /\ K \in Lib /\ SameTree(L, K) /\ ShowsBut(L, K, {id}) /\ Brings(L, K, {id})
           /\ K.tracks[id] = t
           /\ \A i \in Ids \ {id} : K.tracks[i] = L.tracks[i]
           /\ K.items = L.items
<1>1. K \in Lib /\ SameTree(L, K) /\ K.items = L.items /\ K.tracks = [L.tracks EXCEPT ![id] = t]
  BY DEF Lib, SameTree
<1>2. K.tracks[id] = t /\ \A i \in Ids \ {id} : K.tracks[i] = L.tracks[i]
  BY <1>1, LibIs
<1>3. \A i \in Ids : Holding(K, i) = Holding(L, i)
  BY <1>1 DEF Holding
<1> QED BY <1>1, <1>2, <1>3 DEF ShowsBut, Brings, OutOfSight, Known

LEMMA RemoveKeeps ==
    ASSUME NEW L \in Lib, NEW id \in Ids, NEW K, K = RemoveTrackFromFolders(L, id)
    PROVE  /\ K \in Lib /\ SameTree(L, K) /\ K.tracks = L.tracks /\ K.current = L.current
           /\ \A i \in Ids \ {id} : Holding(K, i) = Holding(L, i)
<1>1. K \in Lib /\ SameTree(L, K) /\ K.tracks = L.tracks /\ K.current = L.current
  BY DEF RemoveTrackFromFolders, Lib, SameTree
<1>2. \A f \in FolderIds : K.items[f] = L.items[f] \ {id}
  BY DEF RemoveTrackFromFolders, Lib
<1> QED BY <1>1, <1>2 DEF Holding

(* Emptying the bin drops tracks with their places.                        *)
LEMMA PurgeKeeps ==
    ASSUME NEW L \in Lib, NEW K, K = PurgeTrash(L)
    PROVE  K \in Lib /\ SameTree(L, K) /\ Shows(L, K) /\ Brings(L, K, {})
<1>1. K \in Lib /\ SameTree(L, K)
  BY LibIs DEF PurgeTrash, Lib, SameTree
<1>2. \A i \in Ids : K.tracks[i] # None => L.tracks[i] # None /\ i \notin InTrash(L)
  BY DEF PurgeTrash, Lib
<1>3. \A f \in FolderIds : K.items[f] = L.items[f] \ InTrash(L)
  BY DEF PurgeTrash, Lib
<1>4. \A i \in Ids \ InTrash(L) : Holding(K, i) = Holding(L, i)
  BY <1>3 DEF Holding
<1> QED BY <1>1, <1>2, <1>4 DEF Shows, Brings, OutOfSight, Known

(* What is loaded is what was saved, less names without a track.           *)
LEMMA LoadedKeeps ==
    ASSUME NEW L \in Lib, NEW K, K = Loaded(L)
    PROVE  K \in Lib /\ SameTree(L, K) /\ Shows(L, K) /\ K.tracks = L.tracks
<1>1. K \in Lib /\ SameTree(L, K) /\ K.tracks = L.tracks
  BY FoldersThere DEF Loaded, Lib, SameTree
<1>2. \A f \in FolderIds : K.items[f] = IF f = Trash THEN L.items[f] \cap Known(L) ELSE L.items[f]
  BY FoldersThere DEF Loaded, Lib
<1>3. \A i \in Known(L) : Holding(K, i) = Holding(L, i)
  BY <1>2 DEF Holding
<1> QED BY <1>1, <1>3 DEF Shows, OutOfSight, Known

(* A library as the answer of a sync makes it.                             *)
LEMMA SyncKeeps ==
    ASSUME lib \in Lib, NEW jobs \in [Ids -> Job], NEW K \in SyncedLibs(jobs)
    PROVE  /\ K \in Lib /\ K.parent = lib.parent /\ lib.folders \subseteq K.folders
           /\ Shows(lib, K) /\ Brings(lib, K, Ids \ deleted)
<1> DEFINE J == ApplyServerFavorite(lib, jobs)
           A == Adoptable(J, jobs)
<1>1. PICK M \in Adopt(J, jobs) : K = ReconcileAvailability(M, jobs)
  BY DEF SyncedLibs
<1>2. /\ J \in Lib /\ SameTree(lib, J) /\ Shows(lib, J) /\ Brings(lib, J, {})
  BY FavoritesKeep
<1>3. A \subseteq Ids \ deleted
  BY DEF Adoptable
<1> HIDE DEF J
<1>4. M \in Adopting(J, A)
  BY <1>1, <1>2, AdoptKeeps
<1> HIDE DEF A
<1>5. /\ M \in Lib /\ M.parent = J.parent /\ J.folders \subseteq M.folders
      /\ Brings(J, M, A) /\ Shows(J, M)
  BY <1>4 DEF Adopting
<1>6. /\ K \in Lib /\ SameTree(M, K) /\ Shows(M, K) /\ Brings(M, K, {})
  BY <1>1, <1>5, AvailabilityKeeps
<1> QED BY <1>2, <1>3, <1>5, <1>6 DEF Shows, Brings, SameTree

(* Tracks that leave their place for another: J is the library between.    *)
LEMMA MoveKeeps ==
    ASSUME NEW L \in Lib, NEW J \in Lib, SameTree(L, J), J.tracks = L.tracks,
           NEW ids \in SUBSET Ids, \A i \in Ids \ ids : Holding(J, i) = Holding(L, i),
           NEW f \in FolderIds, NEW K, K = PutIn(J, f, ids)
    PROVE  /\ K \in Lib /\ K.parent = L.parent /\ L.folders \subseteq K.folders
           /\ Shows(L, K) /\ Brings(L, K, {})
<1>1. K \in Lib /\ K.folders = J.folders \cup {f} /\ K.parent = J.parent /\ K.tracks = J.tracks
  BY PutInKeeps
<1>2. \A i \in Ids : Holding(K, i) = IF i \in ids THEN Holding(J, i) \cup {f} ELSE Holding(J, i)
  BY PutInHolds
<1> QED BY <1>1, <1>2 DEF Shows, Brings, SameTree, OutOfSight, Known

(* The rows' gestures.                                                     *)
LEMMA TrashKeeps ==
    ASSUME NEW L \in Lib, NEW id \in Ids,
           NEW K, K = PutIn(RemoveTrackFromFolders(L, id), Trash, {id})
    PROVE  /\ K \in Lib /\ K.parent = L.parent /\ L.folders \subseteq K.folders
           /\ Shows(L, K) /\ Brings(L, K, {})
<1>1. PICK J : J = RemoveTrackFromFolders(L, id)
  OBVIOUS
<1>2. PICK ids : ids = {id}
  OBVIOUS
<1>3. K = PutIn(J, Trash, ids)
  BY <1>1, <1>2
<1>4. /\ J \in Lib /\ SameTree(L, J) /\ J.tracks = L.tracks
      /\ \A i \in Ids \ {id} : Holding(J, i) = Holding(L, i)
  BY <1>1, RemoveKeeps
<1>5. ids \in SUBSET Ids /\ \A i \in Ids \ ids : Holding(J, i) = Holding(L, i)
  BY <1>2, <1>4
<1> QED BY <1>3, <1>4, <1>5, FoldersThere, MoveKeeps

Without(L, f, ids) == [L EXCEPT !.items[f] = @ \ ids]

LEMMA DropKeeps ==
    ASSUME NEW L \in Lib, NEW g \in FolderIds, NEW f \in FolderIds, NEW ids \in SUBSET Ids,
           NEW K, K = PutIn(Without(L, g, ids), f, ids)
    PROVE  /\ K \in Lib /\ K.parent = L.parent /\ L.folders \subseteq K.folders
           /\ Shows(L, K) /\ Brings(L, K, {})
<1>1. PICK J : J = Without(L, g, ids)
  OBVIOUS
<1>2. J \in Lib /\ SameTree(L, J) /\ J.tracks = L.tracks
  BY <1>1 DEF Without, Lib, SameTree
<1>3. \A h \in FolderIds : J.items[h] = IF h = g THEN L.items[h] \ ids ELSE L.items[h]
  BY <1>1 DEF Without, Lib
<1>4. \A i \in Ids \ ids : Holding(J, i) = Holding(L, i)
  BY <1>3 DEF Holding
<1> QED BY <1>1, <1>2, <1>4, MoveKeeps

(* A deleted folder's songs are in the Trash, those of the folders under   *)
(* it too.                                                                 *)
LEMMA DeleteKeeps ==
    ASSUME NEW L \in Lib, NEW under \in SUBSET FolderIds,
           NEW K, K = WithoutFolders(L, under)
    PROVE  /\ K \in Lib /\ Shows(L, K) /\ Brings(L, K, {})
           /\ K.folders = L.folders \ under
           /\ K.parent = [g \in FolderIds |-> IF g \in under THEN None ELSE L.parent[g]]
<1> DEFINE songs == Known(L) \cap UNION {L.items[g] : g \in under}
<1>1. songs \subseteq Ids
  BY DEF Known
<1> DEFINE items == [g \in FolderIds |-> IF g = Trash THEN L.items[g] \cup songs
                                         ELSE IF g \in under THEN {} ELSE L.items[g]]
           parent == [g \in FolderIds |-> IF g \in under THEN None ELSE L.parent[g]]
<1>2. K = [L EXCEPT !.folders = L.folders \ under, !.parent = parent, !.items = items]
  BY DEF WithoutFolders
<1>3. items \in [FolderIds -> SUBSET Ids] /\ parent \in [FolderIds -> FolderIds \cup {None}]
  BY <1>1, LibIs
<1> HIDE DEF items, parent, songs
<1>4. K \in Lib /\ K.tracks = L.tracks /\ K.items = items
      /\ K.folders = L.folders \ under /\ K.parent = parent
  BY <1>2, <1>3 DEF Lib
<1>5. ASSUME NEW i \in Known(L), NEW g \in FolderIds, i \in L.items[g]
      PROVE  Holding(K, i) # {}
  <2>1. CASE g \in under \/ g = Trash
    <3>1. g # Trash => i \in songs
      BY <1>5, <2>1 DEF songs
    <3>2. i \in items[Trash]
      BY <1>5, <3>1, FoldersThere DEF items
    <3> QED BY <1>4, <3>2, FoldersThere DEF Holding
  <2>2. CASE g \notin under /\ g # Trash
    <3>1. i \in items[g]
      BY <1>5, <2>2 DEF items
    <3> QED BY <1>4, <3>1 DEF Holding
  <2> QED BY <2>1, <2>2
<1>6. Shows(L, K)
  BY <1>4, <1>5 DEF Shows, OutOfSight, Known, Holding
<1> QED BY <1>4, <1>6 DEF Brings, Known, parent

-----------------------------------------------------------------------------
(* The tree of folders.  isFolderDescendant() walks up from a folder, and  *)
(* its model counts the rounds: as many as there are folders are enough to *)
(* meet every ancestor, since each round meets one more or has met all.    *)

FolderMax == Cardinality(FolderIds)
Nodes == FolderIds \cup {None}
Higher(L, S) == S \cup {L.parent[f] : f \in S \ {None}}

LEMMA FoldersCount ==
    /\ IsFiniteSet(FolderIds) /\ IsFiniteSet(Nodes) /\ FolderMax \in Nat
    /\ Cardinality(Nodes) = FolderMax + 1
<1>1. IsFiniteSet({Unsorted, Trash})
  <2>1. IsFiniteSet({Unsorted}) /\ {Unsorted, Trash} = {Unsorted} \cup {Trash}
    BY FS_Singleton
  <2> QED BY <2>1, FS_AddElement
<1>2. IsFiniteSet(FolderIds)
  BY <1>1, FS_Union, LibraryAssumption DEF FolderIds
<1>3. None \notin FolderIds
  BY LibraryAssumption
<1> QED BY <1>2, <1>3, FS_AddElement, FS_CardinalityType DEF Nodes, FolderMax

(* The way up, one round after the other. *)
LEMMA WayUp ==
    ASSUME NEW L \in Lib, NEW h \in FolderIds
    PROVE  \E up \in [0..FolderMax -> SUBSET Nodes] :
              /\ up[0] = {L.parent[h]}
              /\ \A n \in 0..FolderMax : n # 0 => up[n] = Higher(L, up[n - 1])
              /\ Ancestors(L, h) = up[FolderMax]
<1> DEFINE next == [S \in SUBSET Nodes |-> Higher(L, S)]
           it == CHOOSE up : up = [n \in 0..FolderMax |->
                    IF n = 0 THEN {L.parent[h]} ELSE Higher(L, up[n - 1])]
<1>1. FolderMax \in Nat
  BY FoldersCount
<1>2. {L.parent[h]} \in SUBSET Nodes
  BY DEF Lib, Nodes
<1>3. \A S \in SUBSET Nodes : Higher(L, S) \in SUBSET Nodes
  BY DEF Lib, Nodes, Higher
<1>4. Ancestors(L, h) = it[FolderMax]
  BY DEF Ancestors, Higher, FolderMax
<1>5. next \in [SUBSET Nodes -> SUBSET Nodes]
  BY <1>3
<1> HIDE DEF next
<1>6. PICK g \in [0..FolderMax -> SUBSET Nodes] : Iterates(g, FolderMax, {L.parent[h]}, next)
  BY <1>1, <1>2, <1>5, Iteration
<1>7. \A n \in 0..FolderMax : n # 0 => n - 1 \in 0..FolderMax
  BY <1>1
<1>8. g = [n \in 0..FolderMax |-> IF n = 0 THEN {L.parent[h]} ELSE Higher(L, g[n - 1])]
  <2>1. \A n \in 0..FolderMax : n # 0 => next[g[n - 1]] = Higher(L, g[n - 1])
    BY <1>7 DEF next
  <2> QED BY <1>6, <2>1 DEF Iterates
<1>9. it = [n \in 0..FolderMax |-> IF n = 0 THEN {L.parent[h]} ELSE Higher(L, it[n - 1])]
  BY <1>8
<1> HIDE DEF it
<1> DEFINE P == {n \in Nat : n \in 0..FolderMax => it[n] \in SUBSET Nodes}
<1>10. 0 \in P
  BY <1>1, <1>2, <1>9
<1>11. \A n \in Nat : n \in P => n + 1 \in P
  <2> SUFFICES ASSUME NEW n \in Nat, n \in P, n + 1 \in 0..FolderMax PROVE it[n + 1] \in SUBSET Nodes
    OBVIOUS
  <2>1. n \in 0..FolderMax /\ n + 1 # 0 /\ (n + 1) - 1 = n
    BY <1>1
  <2>2. it[n + 1] = Higher(L, it[n])
    BY <1>9, <2>1
  <2> QED BY <1>3, <2>1, <2>2
<1>12. Nat \subseteq P
  <2> HIDE DEF P
  <2> QED BY <1>10, <1>11, Induction
<1>13. \A n \in 0..FolderMax : it[n] \in SUBSET Nodes
  BY <1>1, <1>12
<1>14. it \in [0..FolderMax -> SUBSET Nodes]
  BY <1>9, <1>13
<1>15. it[0] = {L.parent[h]} /\ \A n \in 0..FolderMax : n # 0 => it[n] = Higher(L, it[n - 1])
  <2>1. 0 \in 0..FolderMax
    BY <1>1
  <2>2. it[0] = {L.parent[h]}
    BY <1>9, <2>1
  <2> QED BY <1>9, <2>2
<1> QED BY <1>4, <1>14, <1>15

(* What holds every ancestor: any set of folders closed under "parent". *)
ClosedUp(L, P) == \A f \in P \ {None} : L.parent[f] \in P

LEMMA AncestorsLeast ==
    ASSUME NEW L \in Lib, NEW h \in FolderIds, NEW P, L.parent[h] \in P, ClosedUp(L, P)
    PROVE  Ancestors(L, h) \subseteq P
<1>1. PICK up \in [0..FolderMax -> SUBSET Nodes] :
              /\ up[0] = {L.parent[h]}
              /\ \A n \in 0..FolderMax : n # 0 => up[n] = Higher(L, up[n - 1])
              /\ Ancestors(L, h) = up[FolderMax]
  BY WayUp
<1>2. FolderMax \in Nat
  BY FoldersCount
<1> DEFINE Q == {n \in Nat : n \in 0..FolderMax => up[n] \subseteq P}
<1>3. 0 \in Q
  BY <1>1
<1>4. \A n \in Nat : n \in Q => n + 1 \in Q
  <2> SUFFICES ASSUME NEW n \in Nat, n \in Q, n + 1 \in 0..FolderMax PROVE up[n + 1] \subseteq P
    OBVIOUS
  <2>1. n \in 0..FolderMax /\ n + 1 # 0 /\ (n + 1) - 1 = n
    BY <1>2
  <2>2. up[n + 1] = Higher(L, up[n])
    BY <1>1, <2>1
  <2> QED BY <2>1, <2>2 DEF Higher, ClosedUp
<1>5. Nat \subseteq Q
  <2> HIDE DEF Q
  <2> QED BY <1>3, <1>4, Induction
<1> QED BY <1>1, <1>2, <1>5

LEMMA AncestorsClosed ==
    ASSUME NEW L \in Lib, NEW h \in FolderIds
    PROVE  /\ Ancestors(L, h) \in SUBSET Nodes /\ L.parent[h] \in Ancestors(L, h)
           /\ ClosedUp(L, Ancestors(L, h))
<1>1. PICK up \in [0..FolderMax -> SUBSET Nodes] :
              /\ up[0] = {L.parent[h]}
              /\ \A n \in 0..FolderMax : n # 0 => up[n] = Higher(L, up[n - 1])
              /\ Ancestors(L, h) = up[FolderMax]
  BY WayUp
<1>2. FolderMax \in Nat /\ IsFiniteSet(Nodes) /\ Cardinality(Nodes) = FolderMax + 1
  BY FoldersCount
<1> DEFINE Q == {n \in Nat : n \in 0..FolderMax =>
                    /\ L.parent[h] \in up[n]
                    /\ ClosedUp(L, up[n]) \/ Cardinality(up[n]) >= n + 1}
<1>3. 0 \in Q
  <2>1. Cardinality(up[0]) = 1 /\ L.parent[h] \in up[0]
    BY <1>1, FS_Singleton
  <2> QED BY <2>1
<1>4. \A n \in Nat : n \in Q => n + 1 \in Q
  <2> SUFFICES ASSUME NEW n \in Nat, n \in Q, n + 1 \in 0..FolderMax
               PROVE  /\ L.parent[h] \in up[n + 1]
                      /\ ClosedUp(L, up[n + 1]) \/ Cardinality(up[n + 1]) >= (n + 1) + 1
    OBVIOUS
  <2>1. n \in 0..FolderMax /\ n + 1 # 0 /\ (n + 1) - 1 = n
    BY <1>2
  <2>2. up[n + 1] = Higher(L, up[n])
    BY <1>1, <2>1
  <2>3. up[n] \subseteq up[n + 1] /\ L.parent[h] \in up[n]
    BY <2>1, <2>2 DEF Higher
  <2>4. CASE ClosedUp(L, up[n])
    <3>1. up[n + 1] = up[n]
      BY <2>2, <2>4 DEF Higher, ClosedUp
    <3> QED BY <2>3, <2>4, <3>1
  <2>5. CASE ~ClosedUp(L, up[n])
    <3>1. PICK f \in up[n] \ {None} : L.parent[f] \notin up[n]
      BY <2>5 DEF ClosedUp
    <3>2. L.parent[f] \in up[n + 1]
      BY <2>2, <3>1 DEF Higher
    <3>3. up[n + 1] \in SUBSET Nodes /\ IsFiniteSet(up[n + 1])
      BY <1>2, FS_Subset
    <3>4. up[n] # up[n + 1]
      BY <3>1, <3>2
    <3>5. Cardinality(up[n]) \in Nat /\ Cardinality(up[n + 1]) \in Nat
      BY <2>3, <3>3, FS_Subset, FS_CardinalityType
    <3>6. Cardinality(up[n]) < Cardinality(up[n + 1])
      <4>1. up[n] \in SUBSET up[n + 1]
        BY <2>3
      <4>2. /\ Cardinality(up[n]) <= Cardinality(up[n + 1])
            /\ Cardinality(up[n]) # Cardinality(up[n + 1])
        BY <3>3, <3>4, <4>1, FS_Subset
      <4> QED BY <3>5, <4>2
    <3>7. Cardinality(up[n]) >= n + 1
      BY <2>1, <2>5
    <3>8. Cardinality(up[n + 1]) >= (n + 1) + 1
      BY <3>5, <3>6, <3>7
    <3> QED BY <2>3, <3>8
  <2> QED BY <2>4, <2>5
<1>5. Nat \subseteq Q
  <2> HIDE DEF Q
  <2> QED BY <1>3, <1>4, Induction
<1>6. FolderMax \in Q /\ FolderMax \in 0..FolderMax
  BY <1>2, <1>5
<1>7. ClosedUp(L, up[FolderMax])
  <2> SUFFICES ASSUME Cardinality(up[FolderMax]) >= FolderMax + 1 PROVE ClosedUp(L, up[FolderMax])
    BY <1>6
  <2>1. up[FolderMax] \in SUBSET Nodes
    BY <1>6
  <2>2. Cardinality(up[FolderMax]) \in Nat /\ Cardinality(Nodes) \in Nat
    BY <1>2, <2>1, FS_Subset, FS_CardinalityType
  <2>3. /\ Cardinality(up[FolderMax]) <= Cardinality(Nodes)
        /\ Cardinality(Nodes) = Cardinality(up[FolderMax]) => Nodes = up[FolderMax]
    BY <1>2, <2>1, FS_Subset
  <2>4. up[FolderMax] = Nodes
    BY <1>2, <2>2, <2>3
  <2> QED BY <2>4 DEF ClosedUp, Nodes, Lib
<1> QED BY <1>1, <1>6, <1>7

(* A forest: every set of folders has one whose parent is outside of it. *)
Rooted(L) == \A S \in SUBSET FolderIds : S # {} => \E g \in S : L.parent[g] \notin S
Forest(L) ==
    /\ \A g \in FolderIds : L.parent[g] # None => g \in L.folders /\ L.parent[g] \in L.folders
    /\ Rooted(L)

LEMMA ForestHasNoCycle ==
    ASSUME NEW L \in Lib, Rooted(L)
    PROVE  \A f \in FolderIds : ~IsFolderDescendant(L, f, f)
<1> SUFFICES ASSUME NEW f \in FolderIds, f \in Ancestors(L, f) PROVE FALSE
  BY DEF IsFolderDescendant
<1> DEFINE S == {g \in FolderIds : f \in Ancestors(L, g)}
<1>1. \A g \in S : L.parent[g] \in S
  <2> SUFFICES ASSUME NEW g \in S PROVE L.parent[g] \in S
    OBVIOUS
  <2>1. L.parent[g] \in Nodes /\ f # None /\ None \notin FolderIds
    BY LibraryAssumption DEF Nodes, Lib
  <2>2. CASE L.parent[g] = None
    <3>1. Ancestors(L, g) \subseteq {None}
      <4>1. L.parent[g] \in {None} /\ ClosedUp(L, {None})
        BY <2>2 DEF ClosedUp
      <4> QED BY <4>1, AncestorsLeast
    <3> QED BY <2>1, <3>1
  <2>3. CASE L.parent[g] # None
    <3> DEFINE h == L.parent[g]
               P == {h} \cup Ancestors(L, h)
    <3>1. h \in FolderIds
      BY <2>1, <2>3 DEF Nodes
    <3>2. L.parent[h] \in Ancestors(L, h) /\ ClosedUp(L, Ancestors(L, h))
      BY <3>1, AncestorsClosed
    <3>3. L.parent[g] \in P /\ ClosedUp(L, P)
      BY <3>2 DEF ClosedUp
    <3>4. Ancestors(L, g) \subseteq P
      <4> HIDE DEF P
      <4> QED BY <3>3, AncestorsLeast
    <3>5. f \in P
      BY <3>4
    <3> QED BY <3>1, <3>5
  <2> QED BY <2>2, <2>3
<1>2. S \in SUBSET FolderIds /\ S # {}
  OBVIOUS
<1> QED BY <1>1, <1>2 DEF Rooted

LEMMA CreateKeepsForest ==
    ASSUME NEW L \in Lib, NEW K \in Lib, Forest(L),
           NEW f \in FolderIds \ L.folders, NEW under \in L.folders \cup {None},
           K.folders = L.folders \cup {f}, K.parent = [L.parent EXCEPT ![f] = under]
    PROVE  Forest(K)
<1>0. None \notin FolderIds /\ L.folders \subseteq FolderIds
  BY LibraryAssumption DEF Lib
<1>1. \A g \in FolderIds : K.parent[g] = IF g = f THEN under ELSE L.parent[g]
  BY DEF Lib
<1>2. \A g \in FolderIds : L.parent[g] # f
  BY <1>0 DEF Forest
<1>3. ASSUME NEW S \in SUBSET FolderIds, S # {}, \A g \in S : K.parent[g] \in S PROVE FALSE
  <2>1. \A g \in S \ {f} : L.parent[g] \in S \ {f}
    BY <1>1, <1>2, <1>3
  <2>2. S \ {f} # {}
    BY <1>0, <1>1, <1>3
  <2> QED BY <2>1, <2>2 DEF Forest, Rooted
<1>4. Rooted(K)
  BY <1>3 DEF Rooted
<1> QED BY <1>1, <1>4 DEF Forest

LEMMA ReparentKeepsForest ==
    ASSUME NEW L \in Lib, NEW K \in Lib, Forest(L),
           NEW f \in L.folders, NEW under \in L.folders \ {f}, ~IsFolderDescendant(L, f, under),
           K.folders = L.folders, K.parent = [L.parent EXCEPT ![f] = under]
    PROVE  Forest(K)
<1>0. None \notin FolderIds /\ f \in FolderIds /\ under \in FolderIds
  BY LibraryAssumption DEF Lib
<1>1. \A g \in FolderIds : K.parent[g] = IF g = f THEN under ELSE L.parent[g]
  BY <1>0 DEF Lib
<1> DEFINE P == {under} \cup Ancestors(L, under)
<1>2. f \notin P /\ ClosedUp(L, P)
  BY <1>0, AncestorsClosed DEF ClosedUp, IsFolderDescendant
<1> HIDE DEF P
<1>3. ASSUME NEW S \in SUBSET FolderIds, S # {}, \A g \in S : K.parent[g] \in S PROVE FALSE
  <2>1. CASE f \notin S
    <3>1. \A g \in S : L.parent[g] \in S
      BY <1>1, <1>3, <2>1
    <3> QED BY <1>3, <3>1 DEF Forest, Rooted
  <2>2. CASE f \in S
    <3>1. under \in S \cap P
      BY <1>0, <1>1, <1>3, <2>2 DEF P
    <3>2. \A g \in S \cap P : L.parent[g] \in S \cap P
      BY <1>0, <1>1, <1>2, <1>3 DEF ClosedUp
    <3> QED BY <3>1, <3>2 DEF Forest, Rooted
  <2> QED BY <2>1, <2>2
<1>4. Rooted(K)
  BY <1>3 DEF Rooted
<1> QED BY <1>1, <1>4 DEF Forest

(* The folders a deletion takes with "f".                                  *)
Under(L, f) == {g \in L.folders : g = f \/ IsFolderDescendant(L, f, g)}

LEMMA DeleteKeepsForest ==
    ASSUME NEW L \in Lib, NEW K \in Lib, Forest(L), NEW f \in FolderIds,
           K.folders = L.folders \ Under(L, f),
           K.parent = [g \in FolderIds |-> IF g \in Under(L, f) THEN None ELSE L.parent[g]]
    PROVE  Forest(K)
<1>0. None \notin FolderIds /\ L.folders \subseteq FolderIds
  BY LibraryAssumption DEF Lib
<1>1. ASSUME NEW S \in SUBSET FolderIds, S # {}, \A g \in S : K.parent[g] \in S PROVE FALSE
  <2>1. \A g \in S : L.parent[g] \in S
    BY <1>0, <1>1
  <2> QED BY <1>1, <2>1 DEF Forest, Rooted
<1>2. ASSUME NEW g \in FolderIds, K.parent[g] # None
      PROVE  g \in K.folders /\ K.parent[g] \in K.folders
  <2>1. /\ g \notin Under(L, f) /\ K.parent[g] = L.parent[g]
        /\ g \in L.folders /\ L.parent[g] \in L.folders
    BY <1>2 DEF Forest
  <2>2. PICK h : h = L.parent[g]
    OBVIOUS
  <2>3. h \in FolderIds /\ h # None
    BY <1>0, <2>1, <2>2
  <2>4. h \in Ancestors(L, g) /\ ClosedUp(L, Ancestors(L, g))
    BY <2>2, AncestorsClosed
  <2>5. Ancestors(L, h) \subseteq Ancestors(L, g)
    <3>1. L.parent[h] \in Ancestors(L, g)
      BY <2>3, <2>4 DEF ClosedUp
    <3> QED BY <2>3, <2>4, <3>1, AncestorsLeast
  <2>6. h \notin Under(L, f)
    BY <2>1, <2>4, <2>5 DEF Under, IsFolderDescendant
  <2> QED BY <2>1, <2>2, <2>6
<1>3. Rooted(K)
  BY <1>1 DEF Rooted
<1> QED BY <1>2, <1>3 DEF Forest

-----------------------------------------------------------------------------
(* The inductive invariant: every answer, frame and question under way is  *)
(* of a job, and was taken from the registry.                              *)

LibraryOK ==
    /\ lib \in Lib /\ saved = lib
    /\ deleted \subseteq Ids /\ savedDeleted \subseteq Ids

Call == [op : {"trash", "restore", "heart"}, id : Ids, on : BOOLEAN]

ServerOK ==
    /\ server \in [Ids -> Job]
    /\ calls \subseteq Call
    /\ sync \notin {None, Asked} => sync \in [Ids -> Job]
    /\ clearing \in [at : {"idle", "marking", "deleting"}, ids : SUBSET Ids]

Load == [id : Ids, token : Nat, before : Track, answer : Job \cup {Asked, Down}]
Post == [kind : {"form", "playlist", "extract", "restore"}, id : Ids,
         folder : UserFolders \cup {None}]
Question == [before : Track, answer : Job \cup {Asked}]

StudioOK ==
    studio \in [engine : Ids \cup {None}, token : Nat, foreground : Ids \cup {None}]

LoadsOK == loads \subseteq Load /\ \A l \in loads : l.token \in 1..studio.token

ArmedOK ==
    /\ armed \in [Ids -> Nat \cup {None}]
    /\ \A id \in Ids : armed[id] # None => armed[id] <= studio.token

PostsOK ==
    /\ posts \subseteq Post
    /\ \A p \in posts : p.kind = "playlist" => p.folder \in UserFolders

SettlesOK ==
    /\ settles \in [Ids -> Question \cup {None}]

QueueOK ==
    /\ seen \subseteq Ids
    /\ stream # None => stream \subseteq Ids
    /\ refresh # None => refresh \subseteq Ids

FramesOK ==
    /\ watched \subseteq Ids /\ rendered \subseteq Ids
    /\ frame \in [Ids -> Job \cup {None}]
    /\ \A id \in Ids : frame[id] # None => frame[id].status \notin {"absent", "gone"}

OpenedOK == StudioOK /\ LoadsOK /\ ArmedOK
AnswersOK == SettlesOK /\ QueueOK /\ FramesOK
PageInv == LibraryOK /\ ServerOK /\ OpenedOK /\ PostsOK /\ AnswersOK

-----------------------------------------------------------------------------
(* What one step may do to the library: hide no track but one whose load   *)
(* is under way, bring none that was deleted for good but one the page     *)
(* awaits an answer about, and leave the tree of folders as it is unless   *)
(* it is a gesture on a folder.                                            *)

Excused == {l.id : l \in loads}
Allowed == (Ids \ deleted) \cup {i \in Ids : Awaited(i)}
LibraryStep == ShowsBut(lib, lib', Excused) /\ Brings(lib, lib', Allowed)
TreeKept == lib'.parent = lib.parent /\ lib.folders \subseteq lib'.folders

(* A library kept by a handler that shows all the old one did.             *)
LEMMA KeepOK ==
    ASSUME LibraryOK, NEW K \in Lib, Keep(K), deleted' = deleted, savedDeleted' = savedDeleted,
           Shows(lib, K), NEW ids \in SUBSET Allowed, Brings(lib, K, ids)
    PROVE  LibraryOK' /\ LibraryStep
  BY DEF LibraryOK, Keep, LibraryStep, Shows, ShowsBut, Brings

(* A step that leaves the library alone.                                   *)
LEMMA Apart ==
    ASSUME LibraryOK, UNCHANGED libVars
    PROVE  LibraryOK' /\ LibraryStep /\ TreeKept
  BY DEF LibraryOK, libVars, LibraryStep, ShowsBut, Brings, TreeKept, OutOfSight, Holding, Known

LEMMA TellIs ==
    ASSUME NEW op \in {"trash", "restore", "heart"}, NEW id \in Ids, NEW on \in BOOLEAN
    PROVE  Tell(op, id, on) \in Call
  BY DEF Tell, Call

LEMMA TrashStep ==
    ASSUME LibraryOK, ServerOK, NEW id \in Ids, MoveTrackToTrash(id)
    PROVE  LibraryOK' /\ ServerOK' /\ LibraryStep /\ TreeKept
<1>1. PICK M : M = PutIn(RemoveTrackFromFolders(lib, id), Trash, {id})
  OBVIOUS
<1>2. /\ M \in Lib /\ M.parent = lib.parent /\ lib.folders \subseteq M.folders
      /\ Shows(lib, M) /\ Brings(lib, M, {})
  BY <1>1, TrashKeeps DEF LibraryOK
<1>3. PICK current : current = IF M.current = id THEN None ELSE M.current
  OBVIOUS
<1>4. current \in Ids \cup {None}
  BY <1>2, <1>3, LibIs
<1>5. PICK K : K = [M EXCEPT !.current = current]
  OBVIOUS
<1>6. Keep(K)
  BY <1>1, <1>3, <1>5 DEF MoveTrackToTrash
<1>7. K \in Lib /\ SameTree(M, K) /\ Shows(M, K) /\ Brings(M, K, {})
  BY <1>2, <1>4, <1>5, CurrentKeeps
<1>8. Shows(lib, K) /\ Brings(lib, K, {})
  BY <1>2, <1>7, Transitive
<1>9. LibraryOK' /\ LibraryStep
  BY <1>6, <1>7, <1>8, KeepOK DEF MoveTrackToTrash
<1>10. TreeKept
  BY <1>2, <1>6, <1>7 DEF TreeKept, Keep, SameTree
<1>11. ServerOK'
  <2>1. Tell("trash", id, TRUE) \in Call
    BY TellIs
  <2> QED BY <2>1 DEF MoveTrackToTrash, ServerOK
<1> QED BY <1>9, <1>10, <1>11

LEMMA RestoreStep ==
    ASSUME LibraryOK, ServerOK, NEW ids \in SUBSET Ids, RestoreTracksFromTrash(ids)
    PROVE  LibraryOK' /\ ServerOK' /\ LibraryStep /\ TreeKept
<1>1. PICK back : back = {id \in ids : lib.tracks[id] # None} \cap InTrash(lib)
  OBVIOUS
<1>2. back \in SUBSET Ids
  BY <1>1
<1>3. PICK f \in Landing(lib) : Keep(PutIn(Without(lib, Trash, back), f, back))
  BY <1>1 DEF RestoreTracksFromTrash, Without
<1>4. PICK K : K = PutIn(Without(lib, Trash, back), f, back)
  OBVIOUS
<1>5. /\ K \in Lib /\ K.parent = lib.parent /\ lib.folders \subseteq K.folders
      /\ Shows(lib, K) /\ Brings(lib, K, {})
  BY <1>2, <1>4, FoldersThere, LandingIs, DropKeeps DEF LibraryOK
<1>6. LibraryOK' /\ LibraryStep
  BY <1>3, <1>4, <1>5, KeepOK DEF RestoreTracksFromTrash
<1>7. TreeKept
  BY <1>3, <1>4, <1>5 DEF TreeKept, Keep
<1>8. ServerOK'
  <2>1. \A id \in back : Tell("restore", id, FALSE) \in Call
    BY <1>2, TellIs
  <2>2. calls' = calls \cup {Tell("restore", id, FALSE) : id \in back}
    BY <1>1 DEF RestoreTracksFromTrash
  <2> QED BY <2>1, <2>2 DEF RestoreTracksFromTrash, ServerOK
<1> QED BY <1>6, <1>7, <1>8

LEMMA FavoriteStep ==
    ASSUME LibraryOK, ServerOK, NEW id \in Ids, ToggleFavorite(id)
    PROVE  LibraryOK' /\ ServerOK' /\ LibraryStep /\ TreeKept
<1>1. PICK K : K = [lib EXCEPT !.tracks[id].favorite = ~@]
  OBVIOUS
<1>2. Keep(K)
  BY <1>1 DEF ToggleFavorite
<1>3. lib.tracks[id] \in Track
  BY DEF LibraryOK, ToggleFavorite, Lib
<1>4. K \in Lib /\ SameTree(lib, K) /\ K.items = lib.items
  BY <1>1, <1>3 DEF LibraryOK, Lib, Track, SameTree
<1>5. \A i \in Ids \ {id} : K.tracks[i] = lib.tracks[i]
  BY <1>1 DEF LibraryOK, Lib
<1>6. Known(K) \subseteq Known(lib)
  BY <1>5 DEF Known, ToggleFavorite
<1>7. Shows(lib, K) /\ Brings(lib, K, {})
  BY <1>4, <1>6, EntriesOnly DEF LibraryOK
<1>8. LibraryOK' /\ LibraryStep
  BY <1>2, <1>4, <1>7, KeepOK DEF ToggleFavorite
<1>9. TreeKept
  BY <1>2, <1>4 DEF TreeKept, Keep, SameTree
<1>10. PICK on \in BOOLEAN : on = ~lib.tracks[id].favorite
  OBVIOUS
<1>11. ServerOK'
  <2>1. Tell("heart", id, on) \in Call
    BY TellIs
  <2>2. calls' = calls \cup {Tell("heart", id, on)}
    BY <1>10, Zenon DEF ToggleFavorite
  <2> QED BY <2>1, <2>2 DEF ToggleFavorite, ServerOK
<1> QED BY <1>8, <1>9, <1>11

LEMMA DropStep ==
    ASSUME LibraryOK, ServerOK, NEW f \in FolderIds, NEW id \in Ids, DropOnFolder(f, id)
    PROVE  LibraryOK' /\ ServerOK' /\ LibraryStep /\ TreeKept
<1>1. PICK g \in IF Holding(lib, id) = {} THEN {f} ELSE Holding(lib, id) :
         Keep(PutIn([lib EXCEPT !.items[g] = @ \ {id}], f, {id}))
  BY DEF DropOnFolder
<1>2. g \in FolderIds
  BY <1>1 DEF Holding
<1>3. PICK K : K = PutIn(Without(lib, g, {id}), f, {id})
  OBVIOUS
<1>4. Keep(K)
  BY <1>1, <1>3 DEF Without
<1>5. /\ K \in Lib /\ K.parent = lib.parent /\ lib.folders \subseteq K.folders
      /\ Shows(lib, K) /\ Brings(lib, K, {})
  BY <1>2, <1>3, DropKeeps DEF LibraryOK
<1>6. LibraryOK' /\ LibraryStep
  BY <1>4, <1>5, KeepOK DEF DropOnFolder
<1>7. TreeKept
  BY <1>4, <1>5 DEF TreeKept, Keep
<1>8. ServerOK'
  BY DEF DropOnFolder, ServerOK
<1> QED BY <1>6, <1>7, <1>8

LEMMA PurgeStep ==
    ASSUME LibraryOK, ServerOK, PurgeMarked
    PROVE  LibraryOK' /\ ServerOK' /\ LibraryStep /\ TreeKept
<1>1. PICK K : K = PurgeTrash(lib)
  OBVIOUS
<1>2. Keep(K)
  BY <1>1 DEF PurgeMarked
<1>3. K \in Lib /\ SameTree(lib, K) /\ Shows(lib, K) /\ Brings(lib, K, {})
  BY <1>1, PurgeKeeps DEF LibraryOK
<1>4. LibraryStep /\ TreeKept
  BY <1>2, <1>3 DEF LibraryStep, TreeKept, Keep, SameTree, Shows, ShowsBut, Brings
<1>5. LibraryOK'
  BY <1>2, <1>3 DEF LibraryOK, ServerOK, PurgeMarked, Keep
<1>6. ServerOK'
  BY DEF PurgeMarked, ServerOK
<1> QED BY <1>4, <1>5, <1>6

LEMMA MarkStep ==
    ASSUME LibraryOK, ServerOK, MarkJobsDeleted
    PROVE  LibraryOK' /\ ServerOK' /\ LibraryStep /\ TreeKept
<1>1. InTrash(lib) \subseteq Ids
  BY LibIs DEF LibraryOK
<1>2. LibraryStep /\ TreeKept
  BY DEF MarkJobsDeleted, LibraryStep, TreeKept, ShowsBut, Brings, OutOfSight, Holding, Known
<1>3. LibraryOK'
  BY <1>1 DEF LibraryOK, MarkJobsDeleted
<1>4. ServerOK'
  BY <1>1 DEF MarkJobsDeleted, ServerOK
<1> QED BY <1>2, <1>3, <1>4

(* The gestures on folders; what they do to the tree is proved below.      *)
LEMMA CreateStep ==
    ASSUME LibraryOK, ServerOK, NEW f \in UserFolders, NEW under \in UserFolders \cup {None},
           CreateFolder(f, under)
    PROVE  /\ LibraryOK' /\ ServerOK' /\ LibraryStep
           /\ lib'.folders = lib.folders \cup {f} /\ lib'.parent = [lib.parent EXCEPT ![f] = under]
<1>1. PICK M : M = PutIn(lib, f, {})
  OBVIOUS
<1>2. f \in FolderIds /\ under \in FolderIds \cup {None} /\ {} \in SUBSET Ids
  BY DEF FolderIds
<1>3. /\ M \in Lib /\ M.folders = lib.folders \cup {f} /\ M.parent = lib.parent
      /\ M.tracks = lib.tracks
      /\ \A g \in FolderIds : M.items[g] = IF g = f THEN lib.items[g] \cup {} ELSE lib.items[g]
  BY SMTT(40), <1>1, <1>2, PutInKeeps DEF LibraryOK
<1>4. \A i \in Ids : Holding(M, i) = Holding(lib, i)
  BY <1>3 DEF Holding
<1>5. Shows(lib, M) /\ Brings(lib, M, {})
  BY <1>3, <1>4 DEF Shows, Brings, OutOfSight, Known
<1>6. PICK K : K = [M EXCEPT !.parent[f] = under]
  OBVIOUS
<1>7. /\ K \in Lib /\ K.items = M.items /\ K.tracks = M.tracks /\ K.folders = M.folders
      /\ K.parent = [M.parent EXCEPT ![f] = under]
  BY <1>2, <1>3, <1>6 DEF Lib
<1>8. Known(K) = Known(M)
  BY <1>7 DEF Known
<1>9. Shows(M, K) /\ Brings(M, K, {})
  BY <1>3, <1>7, <1>8, EntriesOnly
<1>10. Shows(lib, K) /\ Brings(lib, K, {})
  BY <1>5, <1>9, Transitive
<1>11. Keep(K)
  BY <1>1, <1>6 DEF CreateFolder
<1>12. LibraryOK' /\ LibraryStep
  BY <1>7, <1>10, <1>11, KeepOK DEF CreateFolder
<1>13. ServerOK'
  BY DEF CreateFolder, ServerOK
<1> QED BY <1>3, <1>7, <1>11, <1>12, <1>13 DEF Keep

LEMMA ReparentStep ==
    ASSUME LibraryOK, ServerOK, NEW f \in UserFolders, NEW under \in UserFolders,
           ReparentFolder(f, under)
    PROVE  /\ LibraryOK' /\ ServerOK' /\ LibraryStep
           /\ lib'.folders = lib.folders /\ lib'.parent = [lib.parent EXCEPT ![f] = under]
<1>1. PICK K : K = [lib EXCEPT !.parent[f] = under]
  OBVIOUS
<1>2. f \in FolderIds /\ under \in FolderIds
  BY DEF FolderIds
<1>3. /\ K \in Lib /\ K.items = lib.items /\ K.tracks = lib.tracks /\ K.folders = lib.folders
      /\ K.parent = [lib.parent EXCEPT ![f] = under]
  BY <1>1, <1>2 DEF Lib, LibraryOK
<1>4. Known(K) = Known(lib)
  BY <1>3 DEF Known
<1>5. Shows(lib, K) /\ Brings(lib, K, {})
  BY <1>3, <1>4, EntriesOnly DEF LibraryOK
<1>6. Keep(K)
  BY <1>1 DEF ReparentFolder
<1>7. LibraryOK' /\ LibraryStep
  BY <1>3, <1>5, <1>6, KeepOK DEF ReparentFolder
<1>8. ServerOK'
  BY DEF ReparentFolder, ServerOK
<1> QED BY <1>3, <1>6, <1>7, <1>8 DEF Keep

LEMMA DeleteStep ==
    ASSUME LibraryOK, ServerOK, NEW f \in UserFolders, DeleteFolder(f)
    PROVE  /\ LibraryOK' /\ ServerOK' /\ LibraryStep
           /\ lib'.folders = lib.folders \ Under(lib, f)
           /\ lib'.parent = [g \in FolderIds |-> IF g \in Under(lib, f) THEN None ELSE lib.parent[g]]
<1>1. PICK under : under = Under(lib, f)
  OBVIOUS
<1>2. under \in SUBSET FolderIds
  BY <1>1, LibIs DEF Under, LibraryOK
<1>3. PICK K : K = WithoutFolders(lib, under)
  OBVIOUS
<1>4. Keep(K)
  BY <1>1, <1>3 DEF DeleteFolder, Under
<1>5. /\ K \in Lib /\ Shows(lib, K) /\ Brings(lib, K, {})
      /\ K.folders = lib.folders \ under
      /\ K.parent = [g \in FolderIds |-> IF g \in under THEN None ELSE lib.parent[g]]
  BY <1>2, <1>3, DeleteKeeps DEF LibraryOK
<1>6. LibraryOK' /\ LibraryStep
  BY <1>4, <1>5, KeepOK DEF DeleteFolder
<1>7. ServerOK'
  BY DEF DeleteFolder, ServerOK
<1> QED BY <1>1, <1>4, <1>5, <1>6, <1>7 DEF Keep

-----------------------------------------------------------------------------
(* The server's own steps leave the library alone.                         *)

LEMMA GoneIsAJob == NoJob \in Job /\ [NoJob EXCEPT !.status = "gone"] \in Job
  BY DEF NoJob, Job

LEMMA ClearedStep ==
    ASSUME ServerOK, NEW id \in Ids, DeleteCleared(id)
    PROVE  ServerOK' /\ UNCHANGED libVars
<1>1. clearing' \in [at : {"idle", "marking", "deleting"}, ids : SUBSET Ids]
  BY DEF DeleteCleared, ServerOK, NotClearing
<1>2. server' \in [Ids -> Job]
  BY GoneIsAJob DEF DeleteCleared, ServerOK
<1> QED BY <1>1, <1>2 DEF DeleteCleared, ServerOK

LEMMA CallStep ==
    ASSUME ServerOK, NEW call \in calls, HandleCall(call)
    PROVE  ServerOK' /\ UNCHANGED libVars
<1>1. call \in Call
  BY DEF ServerOK
<1>2. server' \in [Ids -> Job]
  <2>1. ASSUME NEW job \in Job PROVE AsTold(job, call) \in Job
    <3>1. CASE call.op = "heart"
      BY <1>1, <3>1 DEF AsTold, Call, Job
    <3>2. CASE call.op = "restore"
      BY <1>1, <3>2 DEF AsTold, Call, Job
    <3>3. CASE call.op = "trash"
      BY <1>1, <3>3 DEF AsTold, Call, Job, Settled
    <3> QED BY <1>1, <3>1, <3>2, <3>3 DEF Call
  <2> QED BY <1>1, <2>1 DEF HandleCall, ServerOK, Call
<1> QED BY <1>2 DEF HandleCall, ServerOK

LEMMA JobStep ==
    ASSUME ServerOK, NEW id \in Ids,
           \/ JobStarts(id) \/ FilesVanish(id)
           \/ \E how \in Settled : JobEnds(id, how)
           \/ \E on \in BOOLEAN : PhoneHeart(id, on)
    PROVE  ServerOK' /\ UNCHANGED libVars
<1>1. \A job \in Job, s \in Settled \cup {"running", "lost"} : [job EXCEPT !.status = s] \in Job
  BY DEF Job, Active
<1>2. \A job \in Job, on \in BOOLEAN : [job EXCEPT !.favorite = on] \in Job
  BY DEF Job
<1>3. CASE JobStarts(id)
  BY <1>1, <1>3 DEF JobStarts, ServerOK
<1>4. CASE FilesVanish(id)
  BY <1>1, <1>4 DEF FilesVanish, ServerOK
<1>5. ASSUME NEW how \in Settled, JobEnds(id, how)
      PROVE  ServerOK' /\ UNCHANGED libVars
  BY <1>1, <1>5 DEF JobEnds, ServerOK
<1>6. ASSUME NEW on \in BOOLEAN, PhoneHeart(id, on)
      PROVE  ServerOK' /\ UNCHANGED libVars
  BY <1>2, <1>6 DEF PhoneHeart, ServerOK
<1> QED BY <1>3, <1>4, <1>5, <1>6

LEMMA AskStep ==
    ASSUME ServerOK, AskSync \/ AnswerSync
    PROVE  ServerOK' /\ UNCHANGED libVars
  BY DEF AskSync, AnswerSync, ServerOK

-----------------------------------------------------------------------------
(* A sync, and a reload.                                                   *)

LEMMA SyncStep ==
    ASSUME LibraryOK, ServerOK, ApplySync
    PROVE  LibraryOK' /\ ServerOK' /\ LibraryStep /\ TreeKept
<1>1. sync \in [Ids -> Job]
  BY DEF ApplySync, ServerOK
<1>2. PICK K \in SyncedLibs(sync) : Keep(K)
  BY DEF ApplySync
<1>3. /\ K \in Lib /\ K.parent = lib.parent /\ lib.folders \subseteq K.folders
      /\ Shows(lib, K) /\ Brings(lib, K, Ids \ deleted)
  BY <1>1, SyncKeeps DEF LibraryOK
<1>4. LibraryOK' /\ LibraryStep
  <2>1. (Ids \ deleted) \in SUBSET Allowed
    BY DEF Allowed
  <2> QED BY <1>2, <1>3, <2>1, KeepOK DEF ApplySync
<1>5. TreeKept
  BY <1>2, <1>3 DEF TreeKept, Keep
<1>6. ReconcileTrash(lib, sync) \subseteq Call
  <2>1. \A i \in Ids : (i \in InTrash(lib)) \in BOOLEAN
    OBVIOUS
  <2>2. \A i \in Ids : Tell(IF i \in InTrash(lib) THEN "trash" ELSE "restore", i, i \in InTrash(lib))
                        \in Call
    BY <2>1, TellIs
  <2> QED BY <2>2 DEF ReconcileTrash
<1>7. HandUpHearts(lib, sync) \subseteq Call
  <2>1. \A i \in Ids : Tell("heart", i, TRUE) \in Call
    BY TellIs
  <2> QED BY <2>1 DEF HandUpHearts, Known
<1>8. ServerOK'
  BY <1>6, <1>7 DEF ApplySync, ServerOK
<1> QED BY <1>4, <1>5, <1>8

LEMMA ReloadStep ==
    ASSUME LibraryOK, ServerOK, Reload
    PROVE  LibraryOK' /\ ServerOK' /\ LibraryStep /\ TreeKept
<1>1. PICK K : K = Loaded(saved)
  OBVIOUS
<1>2. K \in Lib /\ SameTree(lib, K) /\ Shows(lib, K) /\ K.tracks = lib.tracks
  BY <1>1, LoadedKeeps DEF LibraryOK
<1>3. lib' = K /\ saved' = K
  BY <1>1 DEF Reload
<1>4. LibraryOK'
  BY <1>2, <1>3 DEF Reload, LibraryOK
<1>5. LibraryStep
  BY <1>2, <1>3 DEF LibraryStep, Shows, ShowsBut, Brings, Known
<1>6. TreeKept
  BY <1>2, <1>3 DEF TreeKept, SameTree
<1>7. ServerOK'
  BY DEF Reload, ServerOK, NotClearing
<1> QED BY <1>4, <1>5, <1>6, <1>7

-----------------------------------------------------------------------------
(* The studio's handlers.                                                  *)

(* A library made in two moves, of which the first may hide and bring.     *)
LEMMA KeepThrough ==
    ASSUME LibraryOK, NEW J \in Lib, NEW hid \in SUBSET Excused, ShowsBut(lib, J, hid),
           NEW ids \in SUBSET Allowed, Brings(lib, J, ids),
           J.parent = lib.parent, lib.folders \subseteq J.folders,
           NEW K \in Lib, Keep(K), SameTree(J, K), Shows(J, K), Brings(J, K, {}),
           deleted' = deleted, savedDeleted' = savedDeleted
    PROVE  LibraryOK' /\ LibraryStep /\ TreeKept
  BY DEF LibraryOK, Keep, LibraryStep, TreeKept, SameTree, Shows, ShowsBut, Brings

(* What the server makes of an import: a job that waits.                   *)
LEMMA WaitingIsAJob ==
    ASSUME NEW job \in Job, NEW s \in {"waiting", "cancelled"}
    PROVE  [job EXCEPT !.status = s] \in Job
  BY DEF Job, Active, Settled

LEMMA ImportKeeps ==
    ASSUME server \in [Ids -> Job], StudioOK, PostsOK, NEW source, ImportFromUrl(source)
    PROVE  StudioOK' /\ studio'.token = studio.token /\ PostsOK' /\ server' \in [Ids -> Job]
<1>1. StudioOK' /\ studio'.token = studio.token
  BY DEF ImportFromUrl, StudioOK
<1>2. CASE UNCHANGED <<posts, server>>
  BY <1>1, <1>2 DEF PostsOK
<1>3. ASSUME NEW id \in Ids,
             server' = [server EXCEPT ![id].status = "waiting"],
             posts' = posts \cup {[kind |-> "restore", id |-> id, folder |-> None]}
      PROVE  PostsOK' /\ server' \in [Ids -> Job]
  <2>1. PostsOK'
    BY <1>3 DEF PostsOK, Post
  <2>2. server' \in [Ids -> Job]
    BY <1>3, WaitingIsAJob
  <2> QED BY <2>1, <2>2
<1> QED BY <1>1, <1>2, <1>3 DEF ImportFromUrl

LEMMA ReimportKeeps ==
    ASSUME server \in [Ids -> Job], StudioOK, PostsOK, NEW L \in Lib, NEW id \in Ids,
           ReimportUnavailableTrack(L, id)
    PROVE  /\ StudioOK' /\ studio'.token = studio.token /\ PostsOK' /\ server' \in [Ids -> Job]
           /\ \E K \in Lib : Keep(K) /\ SameTree(L, K) /\ Shows(L, K) /\ Brings(L, K, {})
<1>1. PICK K : K = UpdateTrackStatus(L, id, "unavailable")
  OBVIOUS
<1>2. K \in Lib /\ SameTree(L, K) /\ Shows(L, K) /\ Brings(L, K, {})
  BY <1>1, UpdateKeeps DEF TrackStatus
<1>3. Keep(K)
  BY <1>1 DEF ReimportUnavailableTrack
<1>4. StudioOK' /\ studio'.token = studio.token /\ PostsOK' /\ server' \in [Ids -> Job]
  <2>1. CASE UNCHANGED <<studio, posts, server>>
    BY <2>1 DEF StudioOK, PostsOK
  <2>2. CASE ImportFromUrl(SourceOf[id])
    BY <2>2, ImportKeeps
  <2> QED BY <2>1, <2>2 DEF ReimportUnavailableTrack
<1> QED BY <1>2, <1>3, <1>4

LEMMA StartKeeps ==
    ASSUME server \in [Ids -> Job], OpenedOK, PostsOK, NEW L \in Lib, NEW id \in Ids,
           L.tracks[id] \in Track, StartLoad(L, id)
    PROVE  /\ StudioOK' /\ studio'.token >= studio.token /\ LoadsOK' /\ PostsOK'
           /\ server' \in [Ids -> Job]
           /\ \E K \in Lib : Keep(K) /\ SameTree(L, K) /\ Shows(L, K) /\ Brings(L, K, {})
<1>1. CASE L.tracks[id].status = "unavailable"
  <2>1. ReimportUnavailableTrack(L, id) /\ UNCHANGED loads
    BY <1>1 DEF StartLoad
  <2>2. /\ StudioOK' /\ studio'.token = studio.token /\ PostsOK' /\ server' \in [Ids -> Job]
        /\ \E K \in Lib : Keep(K) /\ SameTree(L, K) /\ Shows(L, K) /\ Brings(L, K, {})
    BY <2>1, ReimportKeeps DEF OpenedOK
  <2>3. LoadsOK'
    BY <2>1, <2>2 DEF OpenedOK, LoadsOK
  <2> QED BY <2>2, <2>3 DEF OpenedOK, StudioOK
<1>2. CASE L.tracks[id].status # "unavailable"
  <2>1. PICK l : l = [id |-> id, token |-> studio.token + 1, before |-> L.tracks[id], answer |-> Asked]
    OBVIOUS
  <2>2. /\ Keep(L) /\ loads' = loads \cup {l} /\ UNCHANGED <<posts, server>>
        /\ studio' = [studio EXCEPT !.token = @ + 1,
                                    !.foreground = IF @ = id THEN @ ELSE None]
    BY <1>2, <2>1 DEF StartLoad
  <2>3. StudioOK' /\ studio'.token = studio.token + 1 /\ studio.token \in Nat
    <3>1. PICK f : f = IF studio.foreground = id THEN studio.foreground ELSE None
      OBVIOUS
    <3>2. f \in Ids \cup {None} /\ studio.token \in Nat
      BY <3>1 DEF OpenedOK, StudioOK
    <3>3. studio' = [studio EXCEPT !.token = studio.token + 1, !.foreground = f]
      BY <2>2, <3>1
    <3>4. PICK n : n = studio.token + 1
      OBVIOUS
    <3>5. n \in Nat /\ studio' = [studio EXCEPT !.token = n, !.foreground = f]
      BY <3>2, <3>3, <3>4
    <3>6. studio'.token = n /\ StudioOK'
      BY <3>2, <3>5 DEF OpenedOK, StudioOK
    <3> QED BY <3>2, <3>4, <3>6
  <2>4. l \in Load /\ l.token = studio.token + 1
    BY <2>1, <2>3 DEF Load
  <2>5. LoadsOK'
    <3>1. \A k \in loads : k.token \in 1..studio'.token
      BY <2>3 DEF OpenedOK, LoadsOK
    <3> QED BY <2>2, <2>3, <2>4, <3>1 DEF OpenedOK, LoadsOK
  <2>6. SameTree(L, L) /\ Shows(L, L) /\ Brings(L, L, {})
    BY DEF SameTree, Shows, Brings
  <2> QED BY <2>2, <2>3, <2>5, <2>6 DEF PostsOK
<1> QED BY <1>1, <1>2

LEMMA ArmedKeeps ==
    ASSUME StudioOK, ArmedOK, StudioOK', studio'.token >= studio.token, NEW id \in Ids,
           armed' = armed \/ armed' = [armed EXCEPT ![id] = None]
    PROVE  ArmedOK'
  BY DEF StudioOK, ArmedOK

LEMMA ClickStep ==
    ASSUME PageInv, NEW id \in Ids, ClickTrack(id)
    PROVE  PageInv' /\ LibraryStep /\ TreeKept
<1>1. lib.tracks[id] \in Track
  BY DEF ClickTrack, Known, PageInv, LibraryOK, Lib
<1>2. /\ StudioOK' /\ studio'.token >= studio.token /\ LoadsOK' /\ PostsOK'
      /\ server' \in [Ids -> Job]
      /\ \E K \in Lib : Keep(K) /\ SameTree(lib, K) /\ Shows(lib, K) /\ Brings(lib, K, {})
  BY <1>1, StartKeeps DEF ClickTrack, PageInv, LibraryOK, ServerOK
<1>3. LibraryOK' /\ LibraryStep /\ TreeKept
  <2>1. PICK K \in Lib : Keep(K) /\ SameTree(lib, K) /\ Shows(lib, K) /\ Brings(lib, K, {})
    BY <1>2
  <2>2. LibraryOK' /\ LibraryStep
    BY <2>1, KeepOK DEF ClickTrack, PageInv
  <2> QED BY <2>1, <2>2 DEF TreeKept, Keep, SameTree
<1>4. ArmedOK'
  BY <1>2, ArmedKeeps DEF ClickTrack, PageInv, OpenedOK
<1>5. ServerOK'
  BY <1>2 DEF ClickTrack, PageInv, ServerOK
<1>6. AnswersOK'
  BY DEF ClickTrack, PageInv, AnswersOK, SettlesOK, QueueOK, FramesOK, queueVars, jobVars
<1> QED BY <1>2, <1>3, <1>4, <1>5, <1>6 DEF PageInv, OpenedOK

LEMMA AnswerLoadStep ==
    ASSUME PageInv, NEW l \in loads, AnswerLoad(l)
    PROVE  PageInv' /\ LibraryStep /\ TreeKept
<1>1. PICK answer \in Job \cup {Down} :
         loads' = (loads \ {l}) \cup {[l EXCEPT !.answer = answer]}
  BY DEF AnswerLoad, PageInv, ServerOK, OpenedOK, LoadsOK, Load
<1>2. PICK k : k = [l EXCEPT !.answer = answer]
  OBVIOUS
<1>3. k \in Load /\ k.token \in 1..studio.token
  BY <1>2 DEF PageInv, OpenedOK, LoadsOK, Load
<1>4. OpenedOK'
  BY <1>1, <1>2, <1>3 DEF AnswerLoad, PageInv, OpenedOK, StudioOK, LoadsOK, ArmedOK
<1>5. ServerOK' /\ PostsOK' /\ AnswersOK'
  BY DEF AnswerLoad, PageInv, ServerOK, PostsOK, AnswersOK, SettlesOK, QueueOK, FramesOK,
         queueVars, jobVars
<1>6. LibraryOK' /\ LibraryStep /\ TreeKept
  BY Apart DEF AnswerLoad, PageInv
<1> QED BY <1>4, <1>5, <1>6 DEF PageInv

LEMMA OpenKeeps ==
    ASSUME StudioOK, NEW L \in Lib, NEW l \in Load, NEW track, Open(L, l, track)
    PROVE  /\ StudioOK' /\ studio'.token = studio.token
           /\ \E K \in Lib : Keep(K) /\ SameTree(L, K) /\ Shows(L, K) /\ Brings(L, K, {})
<1>1. CASE Keep(L) /\ UNCHANGED studio
  BY <1>1 DEF StudioOK, SameTree, Shows, Brings
<1>2. CASE Keep([L EXCEPT !.current = l.id]) /\ studio' = [studio EXCEPT !.engine = l.id]
  <2>1. l.id \in Ids
    BY DEF Load
  <2>2. StudioOK' /\ studio'.token = studio.token
    BY <1>2, <2>1 DEF StudioOK
  <2>3. PICK K : K = [L EXCEPT !.current = l.id]
    OBVIOUS
  <2>4. K \in Lib /\ SameTree(L, K) /\ Shows(L, K) /\ Brings(L, K, {})
    BY <2>1, <2>3, CurrentKeeps
  <2> QED BY <1>2, <2>2, <2>3, <2>4
<1> QED BY <1>1, <1>2 DEF Open

(* A load's answer may write back a track that was dropped meanwhile: the  *)
(* one exception both to the places and to the tombstones.                 *)
LEMMA FinishLoadStep ==
    ASSUME PageInv, NEW l \in loads, FinishLoad(l)
    PROVE  PageInv' /\ LibraryStep /\ TreeKept
<1> DEFINE hand == InHand(l)
           track == [hand EXCEPT !.status = StatusOf(l.answer), !.audio = HasAudio(l.answer)]
           with(t) == [lib EXCEPT !.tracks[l.id] = t]
           Done(J) == \E K \in Lib : Keep(K) /\ SameTree(J, K) /\ Shows(J, K) /\ Brings(J, K, {})
           Typed == StudioOK' /\ studio'.token = studio.token /\ PostsOK' /\ server' \in [Ids -> Job]
<1>1. l \in Load /\ l.id \in Ids /\ lib \in Lib /\ server \in [Ids -> Job] /\ StudioOK /\ PostsOK
  BY DEF PageInv, LibraryOK, ServerOK, OpenedOK, LoadsOK, Load
<1>2. hand \in Track
  BY <1>1 DEF InHand, Load, Lib
<1>3. l.id \in Excused /\ l.id \in Allowed
  BY <1>1 DEF Excused, Allowed, Awaited
<1>4. ASSUME NEW J \in Lib, J = lib \/ (\E t \in Track : J = with(t)), Done(J)
      PROVE  LibraryOK' /\ LibraryStep /\ TreeKept
  <2>1. SameTree(lib, J) /\ ShowsBut(lib, J, {l.id}) /\ Brings(lib, J, {l.id})
    <3>1. CASE J = lib
      BY <3>1 DEF SameTree, ShowsBut, Brings
    <3>2. ASSUME NEW t \in Track, J = with(t)
          PROVE  SameTree(lib, J) /\ ShowsBut(lib, J, {l.id}) /\ Brings(lib, J, {l.id})
      BY <1>1, <3>2, WriteKeeps
    <3> QED BY <1>4, <3>1, <3>2
  <2>2. PICK K \in Lib : Keep(K) /\ SameTree(J, K) /\ Shows(J, K) /\ Brings(J, K, {})
    BY <1>4
  <2>3. {l.id} \in SUBSET Excused /\ {l.id} \in SUBSET Allowed
    BY <1>3
  <2>4. deleted' = deleted /\ savedDeleted' = savedDeleted /\ LibraryOK
    BY DEF FinishLoad, PageInv
  <2>5. J.parent = lib.parent /\ lib.folders \subseteq J.folders
    BY <2>1 DEF SameTree
  <2> QED BY <2>1, <2>2, <2>3, <2>4, <2>5, KeepThrough
<1>5. ASSUME NEW t \in Track PROVE with(t) \in Lib
  BY <1>1, WriteKeeps
<1>6. Done(lib) \/ (\E t \in Track : Done(with(t)))
      \/ UNCHANGED <<lib, saved>>
  <2>1. CASE l.token # studio.token
    BY <2>1 DEF FinishLoad
  <2>2. CASE l.token = studio.token /\ l.answer = Down
    <3>1. Open(lib, l, hand)
      BY <2>2 DEF FinishLoad
    <3> HIDE DEF hand
    <3> QED BY <1>1, <3>1, OpenKeeps
  <2>3. CASE l.token = studio.token /\ l.answer # Down
    <3> HIDE DEF hand
    <3>1. CASE l.answer.status \in {"absent", "gone"}
      <4>1. PICK t : t = [hand EXCEPT !.status = "unavailable"]
        OBVIOUS
      <4>2. t \in Track
        BY <1>2, <4>1 DEF Track, TrackStatus
      <4>3. Keep(with(t))
        BY <2>3, <3>1, <4>1 DEF FinishLoad, hand
      <4>4. with(t) \in Lib
        BY <1>5, <4>2
      <4> HIDE DEF with
      <4>5. Done(with(t))
        BY <4>3, <4>4 DEF SameTree, Shows, Brings
      <4> QED BY <4>2, <4>5
    <3>2. CASE l.answer.status \notin {"absent", "gone"}
      <4>1. l.answer \in Job
        BY <2>3, <1>1 DEF FinishLoad, Load
      <4>2. StatusOf(l.answer) \in TrackStatus /\ HasAudio(l.answer) \in BOOLEAN
        BY <3>2, <4>1, StatusIs
      <4>3. track \in Track
        BY <1>2, <4>2 DEF Track
      <4>4. ReimportUnavailableTrack(with(track), l.id) \/ Open(with(track), l, track)
        BY <2>3, <3>2 DEF FinishLoad, hand
      <4>5. with(track) \in Lib
        BY <1>5, <4>3
      <4> HIDE DEF with, track
      <4>6. Done(with(track))
        BY <1>1, <4>4, <4>5, ReimportKeeps, OpenKeeps
      <4> QED BY <4>3, <4>6
    <3> QED BY <3>1, <3>2
  <2> QED BY <2>1, <2>2, <2>3
<1>7. Typed
  <2> HIDE DEF hand
  <2>1. CASE UNCHANGED <<studio, posts, server>>
    BY <1>1, <2>1 DEF StudioOK, PostsOK
  <2>2. ASSUME NEW L \in Lib, NEW t, Open(L, l, t), UNCHANGED <<posts, server>> PROVE Typed
    BY <1>1, <2>2, OpenKeeps DEF PostsOK
  <2>3. ASSUME NEW L \in Lib, ReimportUnavailableTrack(L, l.id) PROVE Typed
    BY <1>1, <2>3, ReimportKeeps
  <2>4. CASE Open(lib, l, hand) /\ UNCHANGED <<posts, server>>
    BY <1>1, <2>2, <2>4
  <2>5. CASE l.answer \in Job /\ l.answer.status \notin {"absent", "gone"}
    <3>1. StatusOf(l.answer) \in TrackStatus /\ HasAudio(l.answer) \in BOOLEAN
      BY <2>5, StatusIs
    <3>2. track \in Track
      BY <1>2, <3>1 DEF Track
    <3>3. with(track) \in Lib
      BY <1>5, <3>2
    <3>4. \/ UNCHANGED <<studio, posts, server>>
          \/ Open(lib, l, hand) /\ UNCHANGED <<posts, server>>
          \/ ReimportUnavailableTrack(with(track), l.id)
          \/ Open(with(track), l, track) /\ UNCHANGED <<posts, server>>
      BY <2>5 DEF FinishLoad, hand
    <3> HIDE DEF with, track
    <3> QED BY <2>1, <2>2, <2>3, <2>4, <3>3, <3>4
  <2>6. CASE ~(l.answer \in Job /\ l.answer.status \notin {"absent", "gone"})
    <3>1. UNCHANGED <<studio, posts, server>> \/ (Open(lib, l, hand) /\ UNCHANGED <<posts, server>>)
      BY <1>1, <2>6 DEF FinishLoad, hand, Load
    <3> QED BY <2>1, <2>4, <3>1
  <2> QED BY <2>5, <2>6
<1>8. LibraryOK' /\ LibraryStep /\ TreeKept
  <2> HIDE DEF Done, with
  <2>1. CASE Done(lib)
    BY <1>1, <1>4, <2>1
  <2>2. ASSUME NEW t \in Track, Done(with(t)) PROVE LibraryOK' /\ LibraryStep /\ TreeKept
    BY <1>4, <1>5, <2>2
  <2>3. CASE UNCHANGED <<lib, saved>>
    BY <2>3, Apart DEF FinishLoad, PageInv, libVars
  <2> QED BY <1>6, <2>1, <2>2, <2>3
<1>9. OpenedOK'
  BY <1>7 DEF FinishLoad, PageInv, OpenedOK, LoadsOK, ArmedOK
<1>10. ServerOK'
  BY <1>7 DEF FinishLoad, PageInv, ServerOK
<1>11. AnswersOK'
  BY DEF FinishLoad, PageInv, AnswersOK, SettlesOK, QueueOK, FramesOK, queueVars, jobVars
<1> QED BY <1>7, <1>8, <1>9, <1>10, <1>11 DEF PageInv

LEMMA QueuedPost ==
    ASSUME PageInv, NEW id \in Ids, server' = [server EXCEPT ![id].status = "waiting"],
           NEW kind \in {"form", "playlist", "extract"}, NEW folder \in UserFolders \cup {None},
           kind = "playlist" => folder \in UserFolders,
           posts' = posts \cup {[kind |-> kind, id |-> id, folder |-> folder]}
    PROVE  server' \in [Ids -> Job] /\ PostsOK'
<1>1. server' \in [Ids -> Job]
  BY WaitingIsAJob DEF PageInv, ServerOK
<1>2. PostsOK'
  BY DEF PageInv, PostsOK, Post
<1> QED BY <1>1, <1>2

LEMMA SubmitStep ==
    ASSUME PageInv, NEW id \in Ids,
           \/ SubmitForm(id) \/ ExtractStoppedTrack(id)
           \/ \E f \in UserFolders : ImportPlaylist(id, f)
    PROVE  PageInv' /\ LibraryStep /\ TreeKept
<1>1. server' \in [Ids -> Job] /\ PostsOK'
  <2>1. CASE SubmitForm(id)
    BY <2>1, QueuedPost DEF SubmitForm
  <2>2. CASE ExtractStoppedTrack(id)
    BY <2>2, QueuedPost DEF ExtractStoppedTrack
  <2>3. ASSUME NEW f \in UserFolders, ImportPlaylist(id, f)
        PROVE  server' \in [Ids -> Job] /\ PostsOK'
    BY <2>3, QueuedPost DEF ImportPlaylist
  <2> QED BY <2>1, <2>2, <2>3
<1>2. UNCHANGED <<libVars, calls, sync, clearing, studio, loads, armed, settles,
                  queueVars, jobVars, scene>>
  BY DEF SubmitForm, ExtractStoppedTrack, ImportPlaylist
<1>3. LibraryOK' /\ LibraryStep /\ TreeKept
  BY <1>2, Apart DEF PageInv
<1>4. ServerOK' /\ OpenedOK' /\ AnswersOK'
  BY <1>1, <1>2 DEF PageInv, ServerOK, OpenedOK, StudioOK, LoadsOK, ArmedOK,
                    AnswersOK, SettlesOK, QueueOK, FramesOK, queueVars, jobVars
<1> QED BY <1>1, <1>3, <1>4 DEF PageInv

LEMMA SyncAgainStep ==
    ASSUME PageInv, NEW id \in Ids, SyncAgain(id)
    PROVE  PageInv' /\ LibraryStep /\ TreeKept
<1>1. StudioOK' /\ studio'.token = studio.token /\ PostsOK' /\ server' \in [Ids -> Job]
  BY ImportKeeps DEF SyncAgain, PageInv, ServerOK, OpenedOK
<1>2. UNCHANGED <<libVars, calls, sync, clearing, loads, armed, settles, queueVars, jobVars>>
  BY DEF SyncAgain
<1>3. LibraryOK' /\ LibraryStep /\ TreeKept
  BY <1>2, Apart DEF PageInv
<1>4. ServerOK' /\ OpenedOK' /\ AnswersOK'
  BY <1>1, <1>2 DEF PageInv, ServerOK, OpenedOK, LoadsOK, ArmedOK,
                    AnswersOK, SettlesOK, QueueOK, FramesOK, queueVars, jobVars
<1> QED BY <1>1, <1>3, <1>4 DEF PageInv

LEMMA CancelStep ==
    ASSUME PageInv, NEW id \in Ids, CancelQueued(id)
    PROVE  PageInv' /\ LibraryStep /\ TreeKept
<1>1. server' \in [Ids -> Job]
  BY WaitingIsAJob DEF CancelQueued, PageInv, ServerOK
<1>2. UNCHANGED <<libVars, calls, sync, clearing, studioVars>>
  BY DEF CancelQueued
<1>3. LibraryOK' /\ LibraryStep /\ TreeKept
  BY <1>2, Apart DEF PageInv
<1>4. ServerOK' /\ OpenedOK' /\ PostsOK' /\ AnswersOK'
  BY <1>1, <1>2 DEF PageInv, ServerOK, OpenedOK, StudioOK, LoadsOK, ArmedOK, PostsOK,
                    AnswersOK, SettlesOK, QueueOK, FramesOK, studioVars, queueVars, jobVars
<1> QED BY <1>3, <1>4 DEF PageInv

(* A job's frame, and the queue's snapshots.                               *)
LEMMA FrameStep ==
    ASSUME PageInv, NEW id \in Ids, SendFrame(id)
    PROVE  PageInv' /\ LibraryStep /\ TreeKept
<1>1. \A how \in Settled : /\ [NoJob EXCEPT !.status = how] \in Job
                           /\ [NoJob EXCEPT !.status = how].status \notin {"absent", "gone"}
  BY DEF NoJob, Job, Settled
<1>2. FramesOK'
  BY <1>1 DEF SendFrame, PageInv, AnswersOK, FramesOK, ServerOK
<1>3. LibraryOK' /\ LibraryStep /\ TreeKept
  BY Apart DEF SendFrame, PageInv, vars
<1>4. ServerOK' /\ OpenedOK' /\ PostsOK' /\ SettlesOK' /\ QueueOK'
  BY DEF SendFrame, PageInv, ServerOK, OpenedOK, StudioOK, LoadsOK, ArmedOK, PostsOK,
         AnswersOK, SettlesOK, QueueOK, queueVars, vars
<1> QED BY <1>2, <1>3, <1>4 DEF PageInv, AnswersOK

LEMMA SettlesKeep ==
    ASSUME SettlesOK, NEW L \in Lib, NEW ids
    PROVE  CompleteSettled(L, ids) \in [Ids -> Question \cup {None}]
<1>1. \A id \in Ids : L.tracks[id] # None => [before |-> L.tracks[id], answer |-> Asked] \in Question
  BY DEF Lib, Question
<1> QED BY <1>1 DEF CompleteSettled, SettlesOK

LEMMA QueueStep ==
    ASSUME PageInv, StreamFrame \/ AskQueue \/ PublishStream \/ PublishRefresh
    PROVE  PageInv' /\ LibraryStep /\ TreeKept
<1>1. Queued \subseteq Ids
  BY DEF Queued
<1>2. QueueOK'
  BY <1>1 DEF StreamFrame, AskQueue, PublishStream, PublishRefresh, Publish,
              PageInv, AnswersOK, QueueOK
<1>3. SettlesOK'
  <2>1. CASE UNCHANGED settles
    BY <2>1 DEF PageInv, AnswersOK, SettlesOK
  <2>2. ASSUME NEW ids, settles' = CompleteSettled(lib, ids) PROVE SettlesOK'
    BY <2>2, SettlesKeep DEF PageInv, LibraryOK, AnswersOK, SettlesOK
  <2> QED BY <2>1, <2>2 DEF StreamFrame, AskQueue, PublishStream, PublishRefresh, Publish
<1>4. UNCHANGED <<vars, studio, loads, posts, armed, jobVars>>
  BY DEF StreamFrame, AskQueue, PublishStream, PublishRefresh, Publish
<1>5. LibraryOK' /\ LibraryStep /\ TreeKept
  BY <1>4, Apart DEF PageInv, vars
<1>6. ServerOK' /\ OpenedOK' /\ PostsOK' /\ FramesOK'
  BY <1>4 DEF PageInv, ServerOK, OpenedOK, StudioOK, LoadsOK, ArmedOK, PostsOK,
              AnswersOK, FramesOK, jobVars, vars
<1> QED BY <1>2, <1>3, <1>5, <1>6 DEF PageInv, AnswersOK

LEMMA AnswerSettleStep ==
    ASSUME PageInv, NEW id \in Ids, AnswerSettle(id)
    PROVE  PageInv' /\ LibraryStep /\ TreeKept
<1>1. SettlesOK'
  <2>1. settles[id] \in Question /\ server[id] \in Job
    BY DEF AnswerSettle, PageInv, AnswersOK, SettlesOK, ServerOK
  <2>2. [settles[id] EXCEPT !.answer = server[id]] \in Question
    BY <2>1 DEF Question
  <2> QED BY <2>2 DEF AnswerSettle, PageInv, AnswersOK, SettlesOK
<1>2. LibraryOK' /\ LibraryStep /\ TreeKept
  BY Apart DEF AnswerSettle, PageInv
<1>3. ServerOK' /\ OpenedOK' /\ PostsOK' /\ QueueOK' /\ FramesOK'
  BY DEF AnswerSettle, PageInv, ServerOK, OpenedOK, StudioOK, LoadsOK, ArmedOK, PostsOK,
         AnswersOK, QueueOK, FramesOK, queueVars, jobVars
<1> QED BY <1>1, <1>2, <1>3 DEF PageInv, AnswersOK

LEMMA PageSyncStep ==
    ASSUME PageInv, Sync
    PROVE  PageInv' /\ LibraryStep /\ TreeKept
<1>1. LibraryOK' /\ ServerOK' /\ LibraryStep /\ TreeKept
  BY SyncStep DEF Sync, PageInv
<1>2. SettlesOK'
  <2>1. lib' \in Lib
    BY <1>1 DEF LibraryOK
  <2> QED BY <2>1, SettlesKeep DEF Sync, PageInv, AnswersOK, SettlesOK
<1>3. OpenedOK' /\ PostsOK' /\ QueueOK' /\ FramesOK'
  BY DEF Sync, PageInv, OpenedOK, StudioOK, LoadsOK, ArmedOK, PostsOK,
         AnswersOK, QueueOK, FramesOK, queueVars, jobVars
<1> QED BY <1>1, <1>2, <1>3 DEF PageInv, AnswersOK

LEMMA ReloadPageStep ==
    ASSUME PageInv, ReloadPage
    PROVE  PageInv' /\ LibraryStep /\ TreeKept
<1>1. LibraryOK' /\ ServerOK' /\ LibraryStep /\ TreeKept
  BY ReloadStep DEF ReloadPage, PageInv
<1>2. OpenedOK' /\ PostsOK' /\ AnswersOK'
  BY DEF ReloadPage, OpenedOK, StudioOK, LoadsOK, ArmedOK, PostsOK,
         AnswersOK, SettlesOK, QueueOK, FramesOK
<1> QED BY <1>1, <1>2 DEF PageInv

-----------------------------------------------------------------------------
(* The handlers that write the track of a job.                             *)

(* addTrackToLibrary() of a job the page awaits an answer about, after a   *)
(* change that showed all there was.                                       *)
LEMMA AddFollows ==
    ASSUME LibraryOK, NEW J \in Lib, J.parent = lib.parent, lib.folders \subseteq J.folders,
           Shows(lib, J), Brings(lib, J, {}),
           NEW id \in Ids, Awaited(id), NEW status \in TrackStatus, NEW audio \in BOOLEAN,
           NEW K \in AddTrackToLibrary(J, id, status, audio)
    PROVE  /\ K \in Lib /\ K.parent = lib.parent /\ lib.folders \subseteq K.folders
           /\ K.tracks[id] \in Track
           /\ ShowsBut(lib, K, {}) /\ {id} \in SUBSET Allowed /\ Brings(lib, K, {id})
<1>1. /\ K \in Lib /\ K.parent = J.parent /\ J.folders \subseteq K.folders
      /\ K.tracks[id] \in Track /\ Brings(J, K, {id}) /\ Shows(J, K)
  BY AddKeeps
<1>2. ShowsBut(lib, K, {}) /\ Brings(lib, K, {id})
  BY <1>1 DEF Shows, ShowsBut, Brings
<1> QED BY <1>1, <1>2 DEF Allowed

LEMMA PostStep ==
    ASSUME PageInv, NEW p \in posts, ApplyPost(p)
    PROVE  PageInv' /\ LibraryStep /\ TreeKept
<1>1. /\ p \in Post /\ p.id \in Ids /\ lib \in Lib /\ LibraryOK /\ Awaited(p.id)
      /\ p.kind = "playlist" => p.folder \in UserFolders
  BY DEF PageInv, LibraryOK, PostsOK, Post, Awaited
<1>2. "processing" \in TrackStatus /\ FALSE \in BOOLEAN
  BY DEF TrackStatus
<1> DEFINE Result == LibraryOK' /\ LibraryStep /\ TreeKept
           Same(L) == SameTree(L, L) /\ Shows(L, L) /\ Brings(L, L, {})
<1>3. \A L : Same(L)
  BY DEF SameTree, Shows, Brings
<1>4. deleted' = deleted /\ savedDeleted' = savedDeleted
  BY DEF ApplyPost
<1>5. ASSUME NEW J \in Lib, J.parent = lib.parent, lib.folders \subseteq J.folders,
             Shows(lib, J), Brings(lib, J, {}),
             NEW M \in AddTrackToLibrary(J, p.id, "processing", FALSE),
             NEW K \in Lib, Keep(K), SameTree(M, K), Shows(M, K), Brings(M, K, {})
      PROVE  Result
  <2>1. /\ M \in Lib /\ M.parent = lib.parent /\ lib.folders \subseteq M.folders
        /\ ShowsBut(lib, M, {}) /\ {p.id} \in SUBSET Allowed /\ Brings(lib, M, {p.id})
    BY <1>1, <1>2, <1>5, AddFollows
  <2> QED BY <1>1, <1>4, <1>5, <2>1, KeepThrough
<1>6. ASSUME p.kind = "form" PROVE Result
  <2>1. PICK M \in AddTrackToLibrary(lib, p.id, "processing", FALSE) : Keep(M)
    BY <1>6 DEF ApplyPost
  <2>2. M \in Lib
    BY <1>1, <1>2, <2>1, AddKeeps
  <2> QED BY <1>1, <1>3, <1>5, <2>1, <2>2
<1>7. ASSUME p.kind = "playlist" PROVE Result
  <2>1. PICK J : J = PutIn(lib, p.folder, {p.id})
    OBVIOUS
  <2>2. p.folder \in FolderIds /\ {p.id} \in SUBSET Ids
    BY <1>1, <1>7 DEF FolderIds
  <2>3. /\ J \in Lib /\ J.folders = lib.folders \cup {p.folder} /\ J.parent = lib.parent
        /\ J.tracks = lib.tracks
    BY <1>1, <2>1, <2>2, PutInKeeps
  <2>4. \A i \in Ids : Holding(lib, i) \subseteq Holding(J, i)
    BY <1>1, <2>1, <2>2, PutInHolds
  <2>5. Shows(lib, J) /\ Brings(lib, J, {})
    BY <2>3, <2>4 DEF Shows, Brings, OutOfSight, Known
  <2>6. PICK M \in AddTrackToLibrary(J, p.id, "processing", FALSE) : Keep(M)
    BY <1>7, <2>1 DEF ApplyPost
  <2>7. M \in Lib
    BY <1>1, <1>2, <2>3, <2>6, AddKeeps
  <2> QED BY <1>3, <1>5, <2>3, <2>5, <2>6, <2>7
<1>8. ASSUME p.kind = "extract" PROVE Result
  <2>1. PICK K : K = UpdateTrackStatus(lib, p.id, "processing")
    OBVIOUS
  <2>2. K \in Lib /\ SameTree(lib, K) /\ Shows(lib, K) /\ Brings(lib, K, {})
    BY <1>1, <1>2, <2>1, UpdateKeeps
  <2>3. Keep(K)
    BY <1>8, <2>1 DEF ApplyPost
  <2>4. LibraryOK' /\ LibraryStep
    BY <1>1, <1>4, <2>2, <2>3, KeepOK
  <2> QED BY <2>2, <2>3, <2>4 DEF TreeKept, Keep, SameTree
<1>9. ASSUME p.kind = "restore" PROVE Result
  <2>1. PICK M \in AddTrackToLibrary(lib, p.id, "processing", FALSE) :
           Keep([M EXCEPT !.current = p.id])
    BY <1>9 DEF ApplyPost
  <2>2. M \in Lib
    BY <1>1, <1>2, <2>1, AddKeeps
  <2>3. PICK K : K = [M EXCEPT !.current = p.id]
    OBVIOUS
  <2>4. K \in Lib /\ SameTree(M, K) /\ Shows(M, K) /\ Brings(M, K, {})
    BY <1>1, <2>2, <2>3, CurrentKeeps
  <2> QED BY <1>1, <1>3, <1>5, <2>1, <2>3, <2>4
<1>10. Result
  BY <1>1, <1>6, <1>7, <1>8, <1>9 DEF Post
<1>11. ServerOK' /\ PostsOK' /\ SettlesOK' /\ QueueOK'
  BY DEF ApplyPost, PageInv, ServerOK, PostsOK, AnswersOK, SettlesOK, QueueOK, queueVars
<1>12. OpenedOK'
  <2>1. StudioOK' /\ studio'.token = studio.token /\ studio.token \in Nat /\ loads' = loads
    BY <1>1 DEF ApplyPost, PageInv, OpenedOK, StudioOK
  <2>2. LoadsOK'
    BY <2>1 DEF PageInv, OpenedOK, LoadsOK
  <2>3. armed' = armed \/ armed' = [armed EXCEPT ![p.id] = studio.token]
    BY DEF ApplyPost
  <2>4. ArmedOK'
    BY <2>1, <2>3 DEF PageInv, OpenedOK, ArmedOK
  <2> QED BY <2>1, <2>2, <2>4 DEF OpenedOK
<1>13. FramesOK'
  BY <1>1 DEF ApplyPost, PageInv, AnswersOK, FramesOK
<1> QED BY <1>10, <1>11, <1>12, <1>13 DEF PageInv, AnswersOK

(* applyState(): a frame is of a job that was watched, and is awaited.     *)
LEMMA ApplyStateStep ==
    ASSUME PageInv, NEW id \in Ids, ApplyState(id)
    PROVE  PageInv' /\ LibraryStep /\ TreeKept
<1> DEFINE job == frame[id]
           status == StatusOf(job)
           own == studio.foreground = id
           over == job.status \in Settled
           audio == own /\ job.status = "done" /\ id \notin rendered
           Result == LibraryOK' /\ LibraryStep /\ TreeKept
<1>1. job \in Job /\ job.status \notin {"absent", "gone"} /\ job # None
  BY DEF ApplyState, PageInv, AnswersOK, FramesOK
<1>2. status \in TrackStatus /\ HasAudio(job) \in BOOLEAN
  BY <1>1, StatusIs
<1>3. LibraryOK /\ lib \in Lib /\ Awaited(id) /\ deleted' = deleted /\ savedDeleted' = savedDeleted
  BY <1>1 DEF ApplyState, PageInv, LibraryOK, Awaited
<1>4. PICK L \in IF rowKey[id] = status THEN {lib}
                 ELSE AddTrackToLibrary(lib, id, status, HasAudio(job)) :
         Keep(IF own THEN [UpdateTrackStatus(L, id, status) EXCEPT !.current = id] ELSE L)
  BY DEF ApplyState
<1>5. /\ L \in Lib /\ L.parent = lib.parent /\ lib.folders \subseteq L.folders
      /\ ShowsBut(lib, L, {}) /\ {id} \in SUBSET Allowed /\ Brings(lib, L, {id})
  <2> HIDE DEF job, status
  <2>1. CASE L = lib
    BY <1>3, <2>1 DEF ShowsBut, Brings, Allowed
  <2>2. CASE L \in AddTrackToLibrary(lib, id, status, HasAudio(job))
    <3>1. Shows(lib, lib) /\ Brings(lib, lib, {})
      BY DEF Shows, Brings
    <3> QED BY <1>2, <1>3, <2>2, <3>1, AddFollows
  <2> QED BY <1>4, <2>1, <2>2
<1>6. PICK K : K = IF own THEN [UpdateTrackStatus(L, id, status) EXCEPT !.current = id] ELSE L
  OBVIOUS
<1>7. Keep(K)
  BY <1>4, <1>6
<1>8. K \in Lib /\ SameTree(L, K) /\ Shows(L, K) /\ Brings(L, K, {})
  <2> HIDE DEF job, status, own
  <2>1. ASSUME own PROVE K \in Lib /\ SameTree(L, K) /\ Shows(L, K) /\ Brings(L, K, {})
    <3>1. PICK J : J = UpdateTrackStatus(L, id, status)
      OBVIOUS
    <3>2. J \in Lib /\ SameTree(L, J) /\ Shows(L, J) /\ Brings(L, J, {})
      BY <1>2, <1>5, <3>1, UpdateKeeps
    <3>3. K = [J EXCEPT !.current = id]
      BY <1>6, <2>1, <3>1
    <3>4. K \in Lib /\ SameTree(J, K) /\ Shows(J, K) /\ Brings(J, K, {})
      BY <3>2, <3>3, CurrentKeeps
    <3> QED BY <3>2, <3>4, Transitive DEF SameTree
  <2>2. ASSUME ~own PROVE K \in Lib /\ SameTree(L, K) /\ Shows(L, K) /\ Brings(L, K, {})
    BY <1>5, <1>6, <2>2 DEF SameTree, Shows, Brings
  <2> QED BY <2>1, <2>2
<1>9. Result
  BY <1>3, <1>5, <1>7, <1>8, KeepThrough
<1>10. ServerOK' /\ PostsOK' /\ SettlesOK' /\ QueueOK'
  BY DEF ApplyState, PageInv, ServerOK, PostsOK, AnswersOK, SettlesOK, QueueOK, queueVars
<1>11. OpenedOK'
  <2>1. studio' = [studio EXCEPT !.foreground = IF own /\ over THEN None ELSE @,
                                !.engine = IF audio THEN id ELSE @]
        /\ loads' = loads /\ armed' = armed
    BY DEF ApplyState
  <2> HIDE DEF own, over, audio
  <2>2. StudioOK' /\ studio'.token = studio.token
    BY <2>1 DEF PageInv, OpenedOK, StudioOK
  <2> QED BY <2>1, <2>2 DEF PageInv, OpenedOK, LoadsOK, ArmedOK
<1>12. FramesOK'
  BY DEF ApplyState, PageInv, AnswersOK, FramesOK
<1> QED BY <1>9, <1>10, <1>11, <1>12 DEF PageInv, AnswersOK

(* completeSettledJob() with its answer: the row, and perhaps the studio.  *)
LEMMA SettleStep ==
    ASSUME PageInv, NEW id \in Ids, FinishSettle(id)
    PROVE  PageInv' /\ LibraryStep /\ TreeKept
<1> DEFINE job == settles[id].answer
           Done(J) == \E K \in Lib : Keep(K) /\ SameTree(J, K) /\ Shows(J, K) /\ Brings(J, K, {})
           Result == LibraryOK' /\ LibraryStep /\ TreeKept
           Typed == /\ StudioOK' /\ studio'.token >= studio.token /\ LoadsOK' /\ PostsOK'
                    /\ server' \in [Ids -> Job]
<1>1. job \in Job /\ settles[id] # None
  BY DEF FinishSettle, PageInv, AnswersOK, SettlesOK, Question
<1>2. LibraryOK /\ lib \in Lib /\ Awaited(id) /\ deleted' = deleted /\ savedDeleted' = savedDeleted
  BY <1>1 DEF FinishSettle, PageInv, LibraryOK, Awaited
<1>3. ASSUME UNCHANGED <<posts, studio, loads, server>> PROVE Typed
  BY <1>3 DEF PageInv, OpenedOK, StudioOK, LoadsOK, PostsOK, ServerOK
<1> HIDE DEF job, Typed
<1>4. ASSUME job.status \in {"absent", "gone"} PROVE Result /\ Typed
  <2>1. PICK K : K = UpdateTrackStatus(lib, id, "unavailable")
    OBVIOUS
  <2>2. K \in Lib /\ SameTree(lib, K) /\ Shows(lib, K) /\ Brings(lib, K, {})
    BY <1>2, <2>1, UpdateKeeps DEF TrackStatus
  <2>3. Keep(K) /\ UNCHANGED <<posts, studio, loads, server>>
    BY <1>4, <2>1 DEF FinishSettle, job
  <2>4. LibraryOK' /\ LibraryStep
    BY <1>2, <2>2, <2>3, KeepOK
  <2> QED BY <1>3, <2>2, <2>3, <2>4 DEF TreeKept, Keep, SameTree
<1>5. ASSUME job.status = "cancelled" PROVE Result /\ Typed
  <2>1. PICK J : J = [lib EXCEPT !.tracks[id] = None]
    OBVIOUS
  <2>2. /\ J \in Lib /\ SameTree(lib, J) /\ J.tracks[id] = None /\ J.items = lib.items
        /\ \A i \in Ids \ {id} : J.tracks[i] = lib.tracks[i]
    <3>1. J \in Lib /\ SameTree(lib, J) /\ J.items = lib.items
      BY <1>2, <2>1 DEF Lib, SameTree
    <3>2. J.tracks[id] = None /\ \A i \in Ids \ {id} : J.tracks[i] = lib.tracks[i]
      BY <1>2, <2>1 DEF Lib
    <3> QED BY <3>1, <3>2
  <2>3. PICK K : K = RemoveTrackFromFolders(J, id)
    OBVIOUS
  <2>4. /\ K \in Lib /\ SameTree(J, K) /\ K.tracks = J.tracks
        /\ \A i \in Ids \ {id} : Holding(K, i) = Holding(J, i)
    BY <2>2, <2>3, RemoveKeeps
  <2>5. \A i \in Ids : Holding(J, i) = Holding(lib, i)
    BY <2>2 DEF Holding
  <2>6. Shows(lib, K) /\ Brings(lib, K, {})
    BY <2>2, <2>4, <2>5 DEF Shows, Brings, OutOfSight, Known
  <2>7. Keep(K) /\ UNCHANGED <<posts, studio, loads, server>>
    BY <1>5, <2>1, <2>3 DEF FinishSettle, job
  <2>8. LibraryOK' /\ LibraryStep
    BY <1>2, <2>4, <2>6, <2>7, KeepOK
  <2> QED BY <1>3, <2>2, <2>4, <2>7, <2>8 DEF TreeKept, Keep, SameTree
<1>6. ASSUME job.status \notin {"absent", "gone", "cancelled"} PROVE Result /\ Typed
  <2>1. StatusOf(job) \in TrackStatus /\ HasAudio(job) \in BOOLEAN
    BY <1>1, <1>6, StatusIs
  <2>2. PICK L \in AddTrackToLibrary(lib, id, StatusOf(job), HasAudio(job)) :
           StartLoad(L, id) \/ (Keep(L) /\ UNCHANGED <<posts, studio, loads, server>>)
    BY <1>6 DEF FinishSettle, job
  <2>3. Shows(lib, lib) /\ Brings(lib, lib, {})
    BY DEF Shows, Brings
  <2>4. /\ L \in Lib /\ L.parent = lib.parent /\ lib.folders \subseteq L.folders
        /\ L.tracks[id] \in Track
        /\ ShowsBut(lib, L, {}) /\ {id} \in SUBSET Allowed /\ Brings(lib, L, {id})
    BY <1>2, <2>1, <2>2, <2>3, AddFollows
  <2>5. Typed /\ Done(L)
    <3>1. CASE StartLoad(L, id)
      BY <2>4, <3>1, StartKeeps DEF PageInv, ServerOK, Typed
    <3>2. CASE Keep(L) /\ UNCHANGED <<posts, studio, loads, server>>
      BY <1>3, <2>4, <3>2 DEF SameTree, Shows, Brings
    <3> QED BY <2>2, <3>1, <3>2
  <2>6. Result
    BY <1>2, <2>4, <2>5, KeepThrough
  <2> QED BY <2>5, <2>6
<1>7. Result /\ Typed
  BY <1>4, <1>5, <1>6
<1>8. SettlesOK' /\ QueueOK' /\ FramesOK'
  BY DEF FinishSettle, PageInv, AnswersOK, SettlesOK, QueueOK, FramesOK, queueVars, jobVars
<1>9. ArmedOK'
  <2>1. armed' = armed \/ armed' = [armed EXCEPT ![id] = None]
    BY DEF FinishSettle
  <2> QED BY <1>7, <2>1, ArmedKeeps DEF PageInv, OpenedOK, Typed
<1>10. ServerOK'
  BY <1>7 DEF FinishSettle, PageInv, ServerOK, Typed
<1> QED BY <1>7, <1>8, <1>9, <1>10 DEF PageInv, OpenedOK, AnswersOK, Typed

-----------------------------------------------------------------------------
(* Every step.                                                             *)

FolderGesture ==
    \E f \in UserFolders :
       \/ \E g \in UserFolders \cup {None} : CreateFolder(f, g)
       \/ DeleteFolder(f)
       \/ \E g \in UserFolders : ReparentFolder(f, g)

LEMMA RowsStep ==
    ASSUME PageInv, Rows
    PROVE  PageInv' /\ LibraryStep /\ (TreeKept \/ FolderGesture)
<1> DEFINE Result == LibraryOK' /\ ServerOK' /\ LibraryStep /\ (TreeKept \/ FolderGesture)
<1>1. LibraryOK /\ ServerOK
  BY DEF PageInv
<1>2. ASSUME NEW id \in Ids, MoveTrackToTrash(id) PROVE Result
  BY <1>1, <1>2, TrashStep
<1>3. ASSUME NEW ids \in SUBSET Ids, RestoreTracksFromTrash(ids) PROVE Result
  BY <1>1, <1>3, RestoreStep
<1>4. ASSUME MarkJobsDeleted PROVE Result
  BY <1>1, <1>4, MarkStep
<1>5. ASSUME PurgeMarked PROVE Result
  BY <1>1, <1>5, PurgeStep
<1>6. ASSUME NEW id \in Ids, DeleteCleared(id) PROVE Result
  BY <1>1, <1>6, ClearedStep, Apart
<1>7. ASSUME NEW id \in Ids, ToggleFavorite(id) PROVE Result
  BY <1>1, <1>7, FavoriteStep
<1>8. ASSUME NEW id \in Ids, NEW on \in BOOLEAN, PhoneHeart(id, on) PROVE Result
  BY <1>1, <1>8, JobStep, Apart
<1>9. ASSUME NEW f \in UserFolders, NEW g \in UserFolders \cup {None}, CreateFolder(f, g)
      PROVE  Result
  BY <1>1, <1>9, CreateStep DEF FolderGesture
<1>10. ASSUME NEW f \in UserFolders, DeleteFolder(f) PROVE Result
  BY <1>1, <1>10, DeleteStep DEF FolderGesture
<1>11. ASSUME NEW f \in UserFolders, NEW g \in UserFolders, ReparentFolder(f, g) PROVE Result
  BY <1>1, <1>11, ReparentStep DEF FolderGesture
<1>12. ASSUME NEW f \in FolderIds, NEW id \in Ids, DropOnFolder(f, id) PROVE Result
  BY <1>1, <1>12, DropStep
<1>13. Result
  <2> HIDE DEF Result
  <2> QED BY <1>2, <1>3, <1>4, <1>5, <1>6, <1>7, <1>8, <1>9, <1>10, <1>11, <1>12 DEF Rows
<1>14. UNCHANGED studioVars
  BY DEF Rows
<1>15. OpenedOK' /\ PostsOK' /\ AnswersOK'
  BY <1>14 DEF PageInv, OpenedOK, StudioOK, LoadsOK, ArmedOK, PostsOK, AnswersOK,
               SettlesOK, QueueOK, FramesOK, studioVars, queueVars, jobVars
<1> QED BY <1>13, <1>15 DEF PageInv

LEMMA ServerStep ==
    ASSUME PageInv, Server
    PROVE  PageInv' /\ LibraryStep /\ TreeKept
<1>1. ServerOK' /\ UNCHANGED libVars
  <2>1. ASSUME NEW call \in calls, HandleCall(call) PROVE ServerOK' /\ UNCHANGED libVars
    BY <2>1, CallStep DEF PageInv
  <2>2. ASSUME NEW id \in Ids,
               JobStarts(id) \/ (\E how \in Settled : JobEnds(id, how)) \/ FilesVanish(id)
        PROVE  ServerOK' /\ UNCHANGED libVars
    BY <2>2, JobStep DEF PageInv
  <2>3. ASSUME LookAgain \/ AnswerSync PROVE ServerOK' /\ UNCHANGED libVars
    BY <2>3, AskStep DEF PageInv, LookAgain
  <2> QED BY <2>1, <2>2, <2>3 DEF Server
<1>2. LibraryOK' /\ LibraryStep /\ TreeKept
  BY <1>1, Apart DEF PageInv
<1>3. UNCHANGED studioVars
  BY DEF Server
<1>4. OpenedOK' /\ PostsOK' /\ AnswersOK'
  BY <1>3 DEF PageInv, OpenedOK, StudioOK, LoadsOK, ArmedOK, PostsOK, AnswersOK,
               SettlesOK, QueueOK, FramesOK, studioVars, queueVars, jobVars
<1> QED BY <1>1, <1>2, <1>4 DEF PageInv

LEMMA StudioStep ==
    ASSUME PageInv, Studio
    PROVE  PageInv' /\ LibraryStep /\ TreeKept
<1> DEFINE Result == PageInv' /\ LibraryStep /\ TreeKept
<1>1. ASSUME NEW id \in Ids,
             \/ ClickTrack(id) \/ SubmitForm(id) \/ ExtractStoppedTrack(id)
             \/ \E f \in UserFolders : ImportPlaylist(id, f)
             \/ SyncAgain(id) \/ CancelQueued(id) \/ SendFrame(id) \/ ApplyState(id)
             \/ AnswerSettle(id) \/ FinishSettle(id)
      PROVE  Result
  BY <1>1, ClickStep, SubmitStep, SyncAgainStep, CancelStep, FrameStep, ApplyStateStep,
     AnswerSettleStep, SettleStep
<1>2. ASSUME NEW l \in loads, AnswerLoad(l) \/ FinishLoad(l) PROVE Result
  BY <1>2, AnswerLoadStep, FinishLoadStep
<1>3. ASSUME NEW p \in posts, ApplyPost(p) PROVE Result
  BY <1>3, PostStep
<1>4. ASSUME StreamFrame \/ AskQueue \/ PublishStream \/ PublishRefresh PROVE Result
  BY <1>4, QueueStep
<1> HIDE DEF Result
<1>5. Result
  BY <1>1, <1>2, <1>3, <1>4 DEF Studio
<1> QED BY <1>5 DEF Result

LEMMA NextStep ==
    ASSUME PageInv, PageNext
    PROVE  PageInv' /\ LibraryStep /\ (TreeKept \/ FolderGesture)
  BY RowsStep, ServerStep, StudioStep, PageSyncStep, ReloadPageStep DEF PageNext

LEMMA StutterStep ==
    ASSUME PageInv, UNCHANGED pageVars
    PROVE  PageInv' /\ LibraryStep /\ TreeKept
<1>1. LibraryOK' /\ LibraryStep /\ TreeKept
  BY Apart DEF PageInv, pageVars, vars
<1>2. ServerOK' /\ OpenedOK' /\ PostsOK' /\ AnswersOK'
  BY DEF PageInv, ServerOK, OpenedOK, StudioOK, LoadsOK, ArmedOK, PostsOK, AnswersOK,
         SettlesOK, QueueOK, FramesOK, pageVars, vars, studioVars, queueVars, jobVars
<1> QED BY <1>1, <1>2 DEF PageInv

LEMMA InitOK == StudioInit => PageInv
<1> SUFFICES ASSUME StudioInit PROVE PageInv
  OBVIOUS
<1>1. scene.kept \subseteq Ids
  BY SceneAssumption DEF StudioInit
<1>2. LibraryOf(scene.kept) \in Lib
  <2>1. [status |-> "done", audio |-> TRUE, favorite |-> FALSE] \in Track
    BY DEF Track, TrackStatus
  <2>2. {Trash, Unsorted} \subseteq FolderIds
    BY FoldersThere
  <2> QED BY <1>1, <2>1, <2>2 DEF LibraryOf, Lib
<1>3. LibraryOK
  BY <1>2 DEF StudioInit, LibraryInit, LibraryOK
<1>4. ServerOK
  <2>1. \A s \in {"lost", "done", NoJob.status} : [NoJob EXCEPT !.status = s] \in Job
    BY DEF NoJob, Job, Settled
  <2>2. server \in [Ids -> Job]
    BY <2>1 DEF StudioInit, LibraryInit
  <2> QED BY <2>2 DEF StudioInit, LibraryInit, ServerOK, NotClearing
<1>5. OpenedOK /\ PostsOK /\ AnswersOK
  BY DEF StudioInit, OpenedOK, StudioOK, LoadsOK, ArmedOK, PostsOK, AnswersOK,
         SettlesOK, QueueOK, FramesOK
<1> QED BY <1>3, <1>4, <1>5 DEF PageInv

(* A step that leaves the tree alone, and the gestures that do not.        *)
LEMMA ForestStep ==
    ASSUME PageInv, Forest(lib), LibraryOK', ServerOK', TreeKept \/ FolderGesture
    PROVE  Forest(lib)'
<1>1. lib \in Lib /\ lib' \in Lib /\ LibraryOK /\ ServerOK
  BY DEF LibraryOK, PageInv
<1>2. \A f \in UserFolders : f \in FolderIds
  BY DEF FolderIds
<1>3. ASSUME TreeKept PROVE Forest(lib')
  BY <1>1, <1>3 DEF TreeKept, Forest, Rooted
<1>4. ASSUME NEW f \in UserFolders, NEW g \in UserFolders \cup {None}, CreateFolder(f, g)
      PROVE  Forest(lib')
  <2>1. f \in FolderIds \ lib.folders /\ g \in lib.folders \cup {None}
    BY <1>2, <1>4 DEF CreateFolder
  <2>2. lib'.folders = lib.folders \cup {f} /\ lib'.parent = [lib.parent EXCEPT ![f] = g]
    BY <1>1, <1>4, CreateStep
  <2> QED BY <1>1, <2>1, <2>2, CreateKeepsForest
<1>5. ASSUME NEW f \in UserFolders, DeleteFolder(f) PROVE Forest(lib')
  <2>1. /\ lib'.folders = lib.folders \ Under(lib, f)
        /\ lib'.parent = [g \in FolderIds |->
                             IF g \in Under(lib, f) THEN None ELSE lib.parent[g]]
    BY <1>1, <1>5, DeleteStep
  <2> QED BY <1>1, <1>2, <2>1, DeleteKeepsForest
<1>6. ASSUME NEW f \in UserFolders, NEW g \in UserFolders, ReparentFolder(f, g)
      PROVE  Forest(lib')
  <2>1. f \in lib.folders /\ g \in lib.folders \ {f} /\ ~IsFolderDescendant(lib, f, g)
    BY <1>6 DEF ReparentFolder
  <2>2. lib'.folders = lib.folders /\ lib'.parent = [lib.parent EXCEPT ![f] = g]
    BY <1>1, <1>6, ReparentStep
  <2> QED BY <1>1, <2>1, <2>2, ReparentKeepsForest
<1>7. Forest(lib')
  BY <1>3, <1>4, <1>5, <1>6 DEF FolderGesture
<1> QED BY <1>7

(* A library just kept has the two folders of its own, at the top.         *)
LEMMA InitForest == StudioInit => Forest(lib)
<1> SUFFICES ASSUME StudioInit PROVE Forest(lib)
  OBVIOUS
<1>1. \A g \in FolderIds : lib.parent[g] = None
  BY DEF StudioInit, LibraryInit, LibraryOf
<1>2. None \notin FolderIds
  BY LibraryAssumption
<1> QED BY <1>1, <1>2 DEF Forest, Rooted

-----------------------------------------------------------------------------
(* The theorems.                                                           *)

(* What holds in every state of the page, whatever the user, the server    *)
(* and the network do (loadState to applyState, app/static/js): the        *)
(* library, the answers under way and the tree of folders are sound, and   *)
(* what is saved is what is shown.                                         *)
THEOREM PageIsSound == PageSpec => [](PageInv /\ Forest(lib))
<1>1. StudioInit => PageInv /\ Forest(lib)
  BY InitOK, InitForest
<1>2. PageInv /\ Forest(lib) /\ [PageNext]_pageVars => PageInv' /\ Forest(lib)'
  <2> SUFFICES ASSUME PageInv, Forest(lib), [PageNext]_pageVars
               PROVE  PageInv' /\ Forest(lib)'
    OBVIOUS
  <2>1. PageInv' /\ (TreeKept \/ FolderGesture)
    BY NextStep, StutterStep
  <2> QED BY <2>1, ForestStep DEF PageInv
<1> QED BY <1>1, <1>2, PTL DEF PageSpec

(* The page's invariant gives the types the run checks.                    *)
LEMMA SoundHasTypes == PageInv => PageTypeOK
<1> SUFFICES ASSUME PageInv PROVE PageTypeOK
  OBVIOUS
<1>1. lib \in Lib /\ saved \in Lib /\ deleted \subseteq Ids /\ savedDeleted \subseteq Ids
  BY DEF PageInv, LibraryOK
<1>2. /\ server \in [Ids -> Job]
      /\ \A call \in calls : call.op \in {"trash", "restore", "heart"} /\ call.id \in Ids
      /\ clearing.ids \subseteq Ids /\ clearing.at \in {"idle", "marking", "deleting"}
  BY DEF PageInv, ServerOK, Call
<1>3. studio.engine \in Ids \cup {None} /\ studio.foreground \in Ids \cup {None}
  BY DEF PageInv, OpenedOK, StudioOK
<1>4. \A l \in loads : l.id \in Ids /\ l.token \in 1..studio.token /\ l.answer \in Answer
  BY DEF PageInv, OpenedOK, LoadsOK, Load, Answer
<1>5. \A id \in Ids : armed[id] # None => armed[id] \in 0..studio.token
  BY DEF PageInv, OpenedOK, ArmedOK, StudioOK
<1>6. \A id \in Ids : settles[id] # None => settles[id].answer \in Answer
  BY DEF PageInv, AnswersOK, SettlesOK, Question, Answer
<1>7. /\ seen \subseteq Ids /\ watched \subseteq Ids /\ rendered \subseteq Ids
      /\ frame \in [Ids -> Answer]
  BY DEF PageInv, AnswersOK, QueueOK, FramesOK, Answer
<1> QED BY <1>1, <1>2, <1>3, <1>4, <1>5, <1>6, <1>7 DEF PageTypeOK

(* The library can always be walked and drawn: its types hold, and its     *)
(* folders are a forest, whichever folders were made, dropped on each      *)
(* other and deleted (isFolderDescendant, renderFolder in catalog.js).     *)
THEOREM LibraryStaysWellFormed == PageSpec => []LibraryIsWellFormed
<1>1. PageInv /\ Forest(lib) => LibraryIsWellFormed
  <2> SUFFICES ASSUME PageInv, Forest(lib) PROVE LibraryIsWellFormed
    OBVIOUS
  <2>1. lib \in Lib /\ lib.folders \subseteq FolderIds
    BY LibIs DEF PageInv, LibraryOK
  <2>2. NoFolderCycle
    BY <2>1, ForestHasNoCycle DEF Forest, NoFolderCycle
  <2> QED BY <2>2, SoundHasTypes DEF LibraryIsWellFormed
<1> QED BY <1>1, PageIsSound, PTL

(* No handler hides a track: only the answer of a load under way when its  *)
(* track was dropped may (loadTrackIntoStudio in catalog.js).              *)
THEOREM TracksAlwaysKeepAPlace == PageSpec => TracksKeepAPlace
<1>1. PageInv /\ [PageNext]_pageVars =>
         [\A id \in Ids : OutOfSight(lib', id)
             => OutOfSight(lib, id) \/ \E l \in loads : l.id = id]_pageVars
  <2> SUFFICES ASSUME PageInv, [PageNext]_pageVars, NEW id \in Ids, OutOfSight(lib', id)
               PROVE  OutOfSight(lib, id) \/ \E l \in loads : l.id = id
    OBVIOUS
  <2>1. LibraryStep
    BY NextStep, StutterStep
  <2> QED BY <2>1 DEF LibraryStep, ShowsBut, Excused
<1> QED BY <1>1, PageIsSound, PTL DEF PageSpec, TracksKeepAPlace

(* A track deleted for good stays deleted through syncs, reloads and       *)
(* imports of other tracks (applyServerLibrary, addTrackToLibrary and      *)
(* loadState in catalog.js): only an answer about that very job, asked for *)
(* before the bin was emptied, can bring it back.                          *)
THEOREM TombstonesAlwaysHold == PageSpec => TombstonesHold
<1>1. PageInv /\ [PageNext]_pageVars =>
         [\A id \in deleted \cap deleted' :
             lib.tracks[id] = None /\ lib'.tracks[id] # None => Awaited(id)]_pageVars
  <2> SUFFICES ASSUME PageInv, [PageNext]_pageVars, NEW id \in deleted,
                      lib.tracks[id] = None, lib'.tracks[id] # None
               PROVE  Awaited(id)
    OBVIOUS
  <2>1. LibraryStep /\ id \in Ids
    BY NextStep, StutterStep DEF PageInv, LibraryOK
  <2>2. id \in Known(lib') /\ id \notin Known(lib)
    BY <2>1 DEF Known
  <2> QED BY <2>1, <2>2 DEF LibraryStep, Brings, Allowed
<1> QED BY <1>1, PageIsSound, PTL DEF PageSpec, TombstonesHold
=============================================================================

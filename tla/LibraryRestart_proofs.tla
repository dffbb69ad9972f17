------------------------ MODULE LibraryRestart_proofs ------------------------
(***************************************************************************)
(* What LibraryRestart.tla checks of two uploads, for every set of jobs    *)
(* and stems and any number of deaths: the types, and the six properties   *)
(* of what survives a restart.  RestartInv is inductive.  But for the      *)
(* types and the pipeline it speaks of one job at a time, so one lemma,    *)
(* JobStep, with a step for each action shows all of them.                 *)
(***************************************************************************)
EXTENDS LibraryRestart, TLAPS

USE DEF vars, memory, disk, history, Up, AtRest, Resumable, Persisted, Finished

-----------------------------------------------------------------------------
(* Duties.  What matters of them is whether something of the job will be   *)
(* removed, whether it will be saved, and that a job that is taken out of  *)
(* the registry is saved after that.                                       *)
Removes(d) == \E i \in DOMAIN d : d[i] \in {"erase", "forget", "drop"}

Drops(d) == \E i \in DOMAIN d : d[i] = "drop"

Saves(d) == \E i \in DOMAIN d : d[i] \in {"save", "enqueue"}

SavesLast(d) == \A i \in DOMAIN d : d[i] \in {"forget", "drop"} => d[Len(d)] = "save"

(* The duties the actions owe, and what they do.                           *)
LEMMA OwedDuties ==
    /\ <<>> \in Seq(Duties) /\ ~Removes(<<>>) /\ ~Drops(<<>>) /\ ~Saves(<<>>) /\ SavesLast(<<>>)
    /\ \A x \in {"save", "enqueue"} :
          /\ <<x>> \in Seq(Duties) /\ ~Removes(<<x>>) /\ ~Drops(<<x>>)
          /\ Saves(<<x>>) /\ SavesLast(<<x>>)
    /\ <<"erase", "save">> \in Seq(Duties)
    /\ Saves(<<"erase", "save">>) /\ SavesLast(<<"erase", "save">>) /\ ~Drops(<<"erase", "save">>)
    /\ <<"save", "erase">> \in Seq(Duties)
    /\ Saves(<<"save", "erase">>) /\ SavesLast(<<"save", "erase">>) /\ ~Drops(<<"save", "erase">>)
    /\ \A x \in {"forget", "drop"} :
          /\ <<"erase", x, "save">> \in Seq(Duties)
          /\ Saves(<<"erase", x, "save">>) /\ SavesLast(<<"erase", x, "save">>)
          /\ x # "drop" => ~Drops(<<"erase", x, "save">>)
<1>1. <<>> \in Seq(Duties) /\ ~Removes(<<>>) /\ ~Drops(<<>>) /\ ~Saves(<<>>) /\ SavesLast(<<>>)
  BY DEF Removes, Drops, Saves, SavesLast
<1>2. ASSUME NEW x \in {"save", "enqueue"}
      PROVE  /\ <<x>> \in Seq(Duties) /\ ~Removes(<<x>>) /\ ~Drops(<<x>>)
             /\ Saves(<<x>>) /\ SavesLast(<<x>>)
  BY DEF Removes, Drops, Saves, SavesLast, Duties
<1>3. /\ <<"erase", "save">> \in Seq(Duties)
      /\ Saves(<<"erase", "save">>) /\ SavesLast(<<"erase", "save">>) /\ ~Drops(<<"erase", "save">>)
  BY DEF Drops, Saves, SavesLast, Duties
<1>4. /\ <<"save", "erase">> \in Seq(Duties)
      /\ Saves(<<"save", "erase">>) /\ SavesLast(<<"save", "erase">>) /\ ~Drops(<<"save", "erase">>)
  BY DEF Drops, Saves, SavesLast, Duties
<1>5. ASSUME NEW x \in {"forget", "drop"}
      PROVE  /\ <<"erase", x, "save">> \in Seq(Duties)
             /\ Saves(<<"erase", x, "save">>) /\ SavesLast(<<"erase", x, "save">>)
             /\ x # "drop" => ~Drops(<<"erase", x, "save">>)
  BY DEF Drops, Saves, SavesLast, Duties
<1> QED  BY <1>1, <1>2, <1>3, <1>4, <1>5

(* Duties are owed on top of those there are.                              *)
LEMMA Appended ==
    ASSUME NEW d \in Seq(Duties), NEW s \in Seq(Duties)
    PROVE  /\ d \o s \in Seq(Duties)
           /\ d = <<>> => d \o s = s
           /\ Removes(d \o s) => Removes(d) \/ Removes(s)
           /\ Drops(d \o s) => Removes(d) \/ Drops(s)
           /\ Saves(s) => Saves(d \o s)
           /\ ~Removes(d) /\ SavesLast(s) => SavesLast(d \o s)
<1>1. /\ d \o s \in Seq(Duties)
      /\ Len(d \o s) = Len(d) + Len(s)
      /\ \A i \in 1 .. Len(d) + Len(s) :
            (d \o s)[i] = IF i <= Len(d) THEN d[i] ELSE s[i - Len(d)]
  OBVIOUS
<1>2. Len(d) \in Nat /\ Len(s) \in Nat /\ DOMAIN d = 1 .. Len(d) /\ DOMAIN s = 1 .. Len(s)
  OBVIOUS
<1>3. DOMAIN (d \o s) = 1 .. Len(d) + Len(s)
  BY <1>1, <1>2
<1>4. ASSUME NEW i \in 1 .. Len(d) + Len(s)
      PROVE  \/ i \in DOMAIN d /\ (d \o s)[i] = d[i]
             \/ i - Len(d) \in DOMAIN s /\ (d \o s)[i] = s[i - Len(d)]
  <2>1. CASE i <= Len(d)
    BY <1>2, <1>1, <2>1
  <2>2. CASE i > Len(d)
    BY <1>2, <1>1, <2>2
  <2> QED  BY <1>2, <2>1, <2>2
<1>5. ASSUME NEW i \in DOMAIN s
      PROVE  Len(d) + i \in 1 .. Len(d) + Len(s) /\ (d \o s)[Len(d) + i] = s[i]
  <2>1. i \in 1 .. Len(s) /\ Len(d) + i \in 1 .. Len(d) + Len(s) /\ ~(Len(d) + i <= Len(d))
    BY <1>2
  <2> QED  BY <1>2, <1>1, <2>1
<1>6. Removes(d \o s) => Removes(d) \/ Removes(s)
  BY <1>3, <1>4 DEF Removes
<1>7. Drops(d \o s) => Removes(d) \/ Drops(s)
  BY <1>3, <1>4 DEF Removes, Drops
<1>8. Saves(s) => Saves(d \o s)
  BY <1>3, <1>5 DEF Saves
<1>9. ASSUME ~Removes(d), SavesLast(s) PROVE SavesLast(d \o s)
  <2>1. SUFFICES ASSUME NEW i \in 1 .. Len(d) + Len(s), (d \o s)[i] \in {"forget", "drop"}
                 PROVE  (d \o s)[Len(d) + Len(s)] = "save"
    BY <1>2, <1>1, <1>3 DEF SavesLast
  <2>2. i - Len(d) \in DOMAIN s /\ (d \o s)[i] = s[i - Len(d)]
    BY <1>4, <1>9, <2>1 DEF Removes
  <2>3. s[Len(s)] = "save" /\ Len(s) \in DOMAIN s
    BY <1>2, <1>9, <2>1, <2>2 DEF SavesLast
  <2> QED  BY <1>5, <2>3
<1>10. d = <<>> => d \o s = s
  OBVIOUS
<1> QED  BY <1>1, <1>6, <1>8, <1>9, <1>10, <1>7

(* A duty that is done leaves the others.                                  *)
LEMMA DutyDone ==
    ASSUME NEW d \in Seq(Duties), d # <<>>
    PROVE  /\ Tail(d) \in Seq(Duties)
           /\ Removes(Tail(d)) => Removes(d)
           /\ Head(d) \in {"erase", "forget", "drop"} => Removes(d)
           /\ Drops(Tail(d)) \/ Head(d) = "drop" => Drops(d)
           /\ Saves(d) /\ Head(d) \notin {"save", "enqueue"} => Saves(Tail(d))
           /\ SavesLast(d) => SavesLast(Tail(d))
           /\ SavesLast(d) /\ Head(d) \in {"forget", "drop"} => Saves(Tail(d))
<1>1. /\ Tail(d) \in Seq(Duties)
      /\ Len(d) \in Nat \ {0} /\ DOMAIN d = 1 .. Len(d)
      /\ Len(Tail(d)) = Len(d) - 1
      /\ \A i \in 1 .. Len(d) - 1 : Tail(d)[i] = d[i + 1]
      /\ Head(d) = d[1]
  OBVIOUS
<1>2. DOMAIN Tail(d) = 1 .. Len(d) - 1
  BY <1>1
<1>3. \A i \in 1 .. Len(d) - 1 : i + 1 \in DOMAIN d /\ Tail(d)[i] = d[i + 1]
  BY <1>1
<1>4. \A i \in DOMAIN d \ {1} : i - 1 \in 1 .. Len(d) - 1 /\ Tail(d)[i - 1] = d[i]
  BY <1>1
<1>5. Removes(Tail(d)) => Removes(d)
  BY <1>2, <1>3 DEF Removes
<1>6. Head(d) \in {"erase", "forget", "drop"} => Removes(d)
  BY <1>1 DEF Removes
<1>7. Drops(Tail(d)) \/ Head(d) = "drop" => Drops(d)
  BY <1>1, <1>2, <1>3 DEF Drops
<1>8. Saves(d) /\ Head(d) \notin {"save", "enqueue"} => Saves(Tail(d))
  BY <1>1, <1>2, <1>4 DEF Saves
<1>9. ASSUME SavesLast(d) PROVE SavesLast(Tail(d))
  <2>1. SUFFICES ASSUME NEW i \in 1 .. Len(d) - 1, Tail(d)[i] \in {"forget", "drop"}
                 PROVE  Tail(d)[Len(d) - 1] = "save"
    BY <1>1, <1>2 DEF SavesLast
  <2>2. d[Len(d)] = "save"
    BY <1>3, <1>9, <2>1 DEF SavesLast
  <2> QED  BY <1>1, <2>1, <2>2
<1>10. ASSUME SavesLast(d), Head(d) \in {"forget", "drop"} PROVE Saves(Tail(d))
  <2>1. d[Len(d)] = "save" /\ Len(d) \in DOMAIN d /\ Len(d) # 1
    BY <1>1, <1>10 DEF SavesLast
  <2>2. Len(d) - 1 \in DOMAIN Tail(d) /\ Tail(d)[Len(d) - 1] = "save"
    BY <1>2, <1>4, <2>1
  <2> QED  BY <2>2 DEF Saves
<1> QED  BY <1>1, <1>5, <1>6, <1>8, <1>9, <1>10, <1>7

-----------------------------------------------------------------------------
(* The types, but for the bound of the attempts.                           *)
Types ==
    /\ process \in {"down", "restored", "up"}
    /\ status \in [Jobs -> Status]
    /\ trashed \in SUBSET Jobs
    /\ attempts \in [Jobs -> Nat]
    /\ deleted \in SUBSET Jobs
    /\ asked \in {"nothing", "cancel", "stop"}
    /\ running \in Jobs \cup {None}
    /\ stage \in Stages
    /\ duty \in [Jobs -> Seq(Duties)]
    /\ saved \in [Jobs -> Record \cup {None}]
    /\ savedDel \in SUBSET Jobs
    /\ files \in [Jobs -> SUBSET ({"source"} \cup Stems)]
    /\ kills \in [Jobs -> Nat]
    /\ fate \in [Jobs -> Fates]
    /\ unsaved \in SUBSET Jobs
    /\ refusals \in 0 .. MaxRefusals

(* Where the process and the pipeline stand.                               *)
PhaseInv ==
    /\ process # "up" => running = None /\ unsaved = {} /\ \A j \in Jobs : duty[j] = <<>>
    /\ process = "down" => \A j \in Jobs : status[j] \in {"new", "absent"}
    /\ running # None => status[running] = "processing"
    /\ stage = "none" <=> running = None

(* Nothing is removed of a job that may run or has finished.               *)
DutyOf(j) ==
    /\ Removes(duty[j]) =>
          status[j] \notin {"new", "queued", "processing"} /\ fate[j] \notin {"open", "done"}
    /\ Drops(duty[j]) => fate[j] # "unwanted" \/ status[j] = "absent"
    /\ SavesLast(duty[j])

(* Nothing is known of a job before its import.                            *)
NewOf(j) == status[j] = "new" =>
    /\ saved[j] = None /\ files[j] = {} /\ kills[j] = 0 /\ attempts[j] = 0
    /\ fate[j] = "open" /\ j \notin deleted \cup savedDel

(* A job that may run has resumed as often as it has killed the process,   *)
(* and its record knows as much once restore() has come to its end, unless *)
(* it could not be saved.                                                  *)
CapOf(j) ==
    /\ kills[j] <= 2 /\ attempts[j] <= 2
    /\ status[j] \in Persisted => attempts[j] <= 1
    /\ status[j] \in Resumable => kills[j] <= attempts[j]
    /\ saved[j] # None => saved[j].attempts <= 1
    /\ saved[j] # None /\ saved[j].status \in Resumable =>
          /\ kills[j] <= saved[j].attempts + 1
          /\ process = "up" /\ j \notin unsaved => kills[j] <= saved[j].attempts

(* The source of an upload that has come to no end is where it was put.    *)
SourceOf(j) ==
    j \in Uploads /\ fate[j] = "open" /\ status[j] # "new" => "source" \in files[j]

(* The records of deletions, and what they keep restore() from adopting.   *)
DeletedOf(j) ==
    /\ j \in deleted => status[j] = "absent"
    /\ j \in savedDel => status[j] = "absent" /\ saved[j] = None
    /\ j \in deleted \cup savedDel => fate[j] \notin {"open", "done"}
    /\ fate[j] = "unwanted" => process = "up"
    /\ fate[j] = "unwanted" /\ status[j] = "absent" => files[j] = {} \/ j \in deleted
    /\ fate[j] = "deleted" =>
          /\ status[j] = "absent"
          /\ saved[j] = None
          /\ files[j] = {} \/ (j \in savedDel /\ (process = "down" \/ j \in deleted))

(* A job that runs is in flight in the file, if it is there at all and its *)
(* way into the queue could be saved.                                      *)
SavedOf(j) ==
    /\ status[j] \in Resumable \cup {"stopped"} =>
          saved[j] = None \/ saved[j].status \in Resumable \cup {"stopped"}
    /\ status[j] \in Resumable =>
          \/ saved[j] = None \/ saved[j].status \in Resumable \/ j \in unsaved
          \/ status[j] = "queued" /\ duty[j] = <<"enqueue">>

(* A job that has finished is recognised whatever the file says of it.     *)
FinishedOf(j) ==
    /\ running = j /\ stage = "post" => Stems \subseteq files[j]
    /\ fate[j] = "done" =>
          /\ Recoverable(j)
          /\ \/ saved[j] = None \/ saved[j].status \in Resumable \cup {"done"}
             \/ saved[j].status = "stopped" /\ j \in unsaved
          /\ process # "down" => status[j] = "done"

InSync(j) ==
    IF status[j] \notin Persisted THEN saved[j] = None
    ELSE /\ saved[j] # None
         /\ saved[j].trashed = (j \in trashed)
         /\ saved[j].attempts = attempts[j]
         /\ saved[j].status = status[j] \/ {saved[j].status, status[j]} \subseteq Resumable

(* The file says what the registry says, or a save is still to come or     *)
(* was refused.                                                            *)
SyncOf(j) ==
    /\ process = "up" => InSync(j) \/ Saves(duty[j]) \/ j \in unsaved
    /\ process = "restored" /\ saved[j] = None => status[j] \in {"new", "absent", "done"}
    /\ process = "restored" /\ saved[j] # None =>
          saved[j].status \in Resumable \/ InSync(j)

(* restore() leaves in the Trash what was there.                           *)
TrashOf(j) ==
    process = "restored" /\ saved[j] # None /\ saved[j].trashed =>
        j \in trashed /\ status[j] \in {"done", "stopped"}

DutyInv == \A j \in Jobs : DutyOf(j)

JobOf(j) ==
    /\ DutyOf(j) /\ NewOf(j) /\ CapOf(j) /\ SourceOf(j) /\ DeletedOf(j)
    /\ SavedOf(j) /\ FinishedOf(j) /\ SyncOf(j) /\ TrashOf(j)

JobInv == \A j \in Jobs : JobOf(j)

RestartInv == Types /\ PhaseInv /\ JobInv

-----------------------------------------------------------------------------
(* What the actions make of the duties of one job.                         *)

(* Code that owes something owes it last.                                  *)
LEMMA Owing ==
    ASSUME Types, NEW j \in Jobs, NEW s \in Seq(Duties), Owe(j, s)
    PROVE  /\ duty' \in [Jobs -> Seq(Duties)]
           /\ \A k \in Jobs \ {j} : duty'[k] = duty[k]
           /\ duty[j] = <<>> => duty'[j] = s
           /\ Removes(duty'[j]) => Removes(duty[j]) \/ Removes(s)
           /\ Drops(duty'[j]) => Removes(duty[j]) \/ Drops(s)
           /\ Saves(s) => Saves(duty'[j])
           /\ ~Removes(duty[j]) /\ SavesLast(s) => SavesLast(duty'[j])
<1>1. duty \in [Jobs -> Seq(Duties)] /\ duty[j] \in Seq(Duties)
  BY DEF Types
<1>2. duty' = [duty EXCEPT ![j] = duty[j] \o s]
  BY DEF Owe
<1>3. duty[j] \o s \in Seq(Duties) /\ duty'[j] = duty[j] \o s
  BY <1>1, <1>2, Appended
<1> QED  BY <1>1, <1>2, <1>3, Appended

(* A duty that is done leaves the others.                                  *)
LEMMA Doing ==
    ASSUME Types, NEW j \in Jobs, Duty(j)
    PROVE  /\ duty[j] # <<>>
           /\ duty' \in [Jobs -> Seq(Duties)]
           /\ \A k \in Jobs \ {j} : duty'[k] = duty[k]
           /\ Removes(duty'[j]) => Removes(duty[j])
           /\ Drops(duty'[j]) \/ Head(duty[j]) = "drop" => Drops(duty[j])
           /\ SavesLast(duty[j]) => SavesLast(duty'[j])
           /\ Saves(duty[j]) /\ Head(duty[j]) \notin {"save", "enqueue"} => Saves(duty'[j])
           /\ SavesLast(duty[j]) /\ Head(duty[j]) \in {"forget", "drop"} => Saves(duty'[j])
           /\ Head(duty[j]) \in {"erase", "forget", "drop"} => Removes(duty[j])
<1>1. duty \in [Jobs -> Seq(Duties)] /\ duty[j] \in Seq(Duties)
  BY DEF Types
<1>2. duty[j] # <<>> /\ duty' = [duty EXCEPT ![j] = Tail(duty[j])]
  BY DEF Duty, Save, Erase, Forget, Drop
<1>3. Tail(duty[j]) \in Seq(Duties) /\ duty'[j] = Tail(duty[j])
  BY <1>1, <1>2, DutyDone
<1> QED  BY <1>1, <1>2, <1>3, DutyDone

(* Whoever removes something of a job is about a job at its end.           *)
LEMMA Removing ==
    ASSUME Types, PhaseInv, DutyInv, NEW j \in Jobs, Erase(j) \/ Forget(j) \/ Drop(j)
    PROVE  /\ status[j] \notin {"new", "queued", "processing"}
           /\ fate[j] \notin {"open", "done"}
           /\ running # j
<1>1. Duty(j) /\ Head(duty[j]) \in {"erase", "forget", "drop"}
  BY DEF Duty, Erase, Forget, Drop
<1>2. status[j] \notin {"new", "queued", "processing"} /\ fate[j] \notin {"open", "done"}
  BY <1>1, Doing DEF DutyInv, DutyOf
<1> QED  BY <1>2, RestartAssumption DEF PhaseInv

(* ... and adds nothing to its directory.                                  *)
LEMMA Erasing ==
    ASSUME Types, NEW j \in Jobs, Erase(j)
    PROVE  /\ files'[j] \subseteq files[j]
           /\ \A k \in Jobs \ {j} : files'[k] = files[k]
<1>1. PICK left \in SUBSET files[j] : files' = [files EXCEPT ![j] = left]
  BY DEF Erase
<1> QED  BY <1>1 DEF Types

(* The requests that keep the job.                                         *)
LEMMA Keeping ==
    ASSUME Types, DutyInv, NEW j \in Jobs, Import(j) \/ Trash(j) \/ RestoreJob(j) \/ Extract(j)
    PROVE  /\ duty' \in [Jobs -> Seq(Duties)]
           /\ \A k \in Jobs \ {j} : duty'[k] = duty[k]
           /\ ~Removes(duty'[j]) /\ ~Drops(duty'[j])
           /\ Saves(duty'[j])
           /\ SavesLast(duty'[j])
           /\ Extract(j) => duty'[j] = <<"enqueue">>
<1>1. ~Removes(duty[j])
  <2>1. Import(j) => status[j] = "new"
    BY DEF Import
  <2>2. Trash(j) \/ RestoreJob(j) \/ Extract(j) => duty[j] = <<>>
    BY DEF Trash, RestoreJob, Extract
  <2> QED  BY <2>1, <2>2, OwedDuties DEF DutyInv, DutyOf
<1>2. CASE Owe(j, <<"save">>) /\ ~Extract(j)
  BY <1>1, <1>2, Owing, OwedDuties
<1>3. CASE Owe(j, <<"enqueue">>) /\ duty[j] = <<>>
  BY <1>1, <1>3, Owing, OwedDuties
<1>4. Extract(j) => Owe(j, <<"enqueue">>) /\ duty[j] = <<>>
  BY DEF Extract
<1>5. Import(j) \/ Trash(j) \/ RestoreJob(j) => Owe(j, <<"save">>)
  BY DEF Import, Trash, RestoreJob
<1> QED  BY <1>2, <1>3, <1>4, <1>5

(* The requests that put an end to it, and the cancel of a waiting job.    *)
LEMMA Ending ==
    ASSUME Types, PhaseInv, NEW j \in Jobs,
           Delete(j) \/ Expire(j) \/ (Cancel(j) /\ status[j] = "queued")
    PROVE  /\ duty' \in [Jobs -> Seq(Duties)]
           /\ \A k \in Jobs \ {j} : duty'[k] = duty[k]
           /\ Saves(duty'[j])
           /\ SavesLast(duty'[j])
           /\ Delete(j) \/ Cancel(j) => ~Drops(duty'[j])
<1>1. duty[j] = <<>> /\ ~Removes(duty[j])
  BY OwedDuties DEF Delete, Expire, Cancel
<1>2. CASE Delete(j)
  <2>1. Owe(j, <<"erase", "forget", "save">>)
    BY <1>2 DEF Delete
  <2> QED  BY <1>1, <2>1, Owing, OwedDuties
<1>3. CASE Expire(j) /\ ~Delete(j) /\ ~Cancel(j)
  <2>1. Owe(j, <<"erase", "drop", "save">>)
    BY <1>3 DEF Expire
  <2> QED  BY <1>1, <1>3, <2>1, Owing, OwedDuties
<1>4. CASE Cancel(j) /\ status[j] = "queued"
  <2>1. running # j
    BY <1>4, RestartAssumption DEF PhaseInv
  <2>2. Owe(j, <<"erase", "save">>)
    BY <1>4, <2>1 DEF Cancel
  <2> QED  BY <1>1, <2>2, Owing, OwedDuties
<1>5. Cancel(j) => status[j] \in {"queued", "processing"}
  BY RestartAssumption DEF Cancel, PhaseInv
<1>6. Expire(j) => status[j] \notin {"queued", "processing"}
  BY DEF Expire
<1> QED  BY <1>2, <1>3, <1>4, <1>5, <1>6

(* How the pipeline leaves a job.                                          *)
LEMMA Leaving ==
    ASSUME Types, PhaseInv, DutyInv, Finish \/ Fail \/ Halt
    PROVE  /\ running \in Jobs /\ status[running] = "processing"
           /\ duty' \in [Jobs -> Seq(Duties)]
           /\ \A k \in Jobs \ {running} : duty'[k] = duty[k]
           /\ Finish \/ (Halt /\ asked = "stop") => ~Removes(duty'[running])
           /\ Saves(duty'[running])
           /\ SavesLast(duty'[running])
           /\ ~Drops(duty'[running])
<1>1. running \in Jobs /\ status[running] = "processing"
  BY DEF Finish, Fail, Halt, Types, PhaseInv
<1>2. ~Removes(duty[running])
  BY <1>1 DEF DutyInv, DutyOf
<1>3. Finish => Owe(running, <<"save">>)
  BY DEF Finish, Leave
<1>4. Fail => Owe(running, <<"erase", "save">>)
  BY DEF Fail, Leave
<1>5. Halt /\ asked = "stop" => Owe(running, <<"save">>)
  BY DEF Halt, Leave
<1>6. Halt /\ asked # "stop" => Owe(running, <<"save", "erase">>)
  BY DEF Halt, Leave
<1>7. CASE Owe(running, <<"save">>)
  BY <1>1, <1>2, <1>7, Owing, OwedDuties
<1>8. CASE Owe(running, <<"erase", "save">>) /\ ~Finish /\ ~Halt
  BY <1>1, <1>2, <1>8, Owing, OwedDuties
<1>9. CASE Owe(running, <<"save", "erase">>) /\ ~Finish /\ asked # "stop"
  BY <1>1, <1>2, <1>9, Owing, OwedDuties
<1> QED  BY <1>3, <1>4, <1>5, <1>6, <1>7, <1>8, <1>9

(* persist() writes records and ids.                                       *)
LEMMA PersistTypes ==
    ASSUME Types, Persist
    PROVE  /\ deleted' \in SUBSET Jobs
           /\ saved' \in [Jobs -> Record \cup {None}]
           /\ savedDel' \in SUBSET Jobs
           /\ unsaved' = {} /\ refusals' = refusals
           /\ savedDel' = deleted'
           /\ \A j \in Jobs : j \in deleted' <=> j \in deleted /\ files[j] # {}
           /\ \A j \in Jobs : saved'[j] = IF status[j] \in Persisted THEN RecordOf(j) ELSE None
           /\ \A j \in Jobs : status[j] \in Persisted => saved'[j] # None
<1>1. \A j \in Jobs : status[j] \in Persisted => RecordOf(j) \in Record
  BY DEF Types, Record, RecordOf
<1>2. None \notin Record
  BY NoneAssumption
<1> QED  BY <1>1, <1>2 DEF Types, Persist, Pruned, Directories

(* ... or leaves them as they were.                                        *)
LEMMA RefusalTypes ==
    ASSUME Types, NEW js \in SUBSET Jobs, PersistFails(js)
    PROVE  /\ deleted' \in SUBSET Jobs
           /\ saved' = saved /\ savedDel' = savedDel
           /\ unsaved' \in SUBSET Jobs
           /\ refusals' \in 0 .. MaxRefusals
<1>1. deleted' \in {deleted, Pruned} /\ saved' = saved /\ savedDel' = savedDel
      /\ unsaved' = unsaved \cup js
  BY DEF PersistFails
<1>2. refusals' \in 0 .. MaxRefusals
  BY RestartAssumption DEF PersistFails, Types
<1> QED  BY <1>1, <1>2 DEF Types, Pruned, Directories

(* What restore() makes of a job that was not recorded, that was at an end *)
(* when it was saved, and that was in flight.                              *)
LEMMA Restoring ==
    ASSUME Types, NEW j \in Jobs
    PROVE  /\ RestoredStatus(j) \in Status
           /\ RestoredAttempts(j) \in Nat
           /\ saved[j] = None =>
                /\ RestoredStatus(j) = IF Recoverable(j) /\ j \notin savedDel
                                       THEN "done" ELSE status[j]
                /\ RestoredAttempts(j) = 0
           /\ saved[j] # None /\ saved[j].status \in {"done", "stopped"} =>
                /\ RestoredStatus(j) = saved[j].status
                /\ RestoredAttempts(j) = saved[j].attempts
           /\ saved[j] # None /\ saved[j].status \in Resumable /\ Recoverable(j) =>
                /\ RestoredStatus(j) = "done"
                /\ RestoredAttempts(j) = 0
           /\ saved[j] # None /\ saved[j].status \in Resumable /\ ~Recoverable(j) =>
                IF saved[j].trashed
                THEN /\ RestoredStatus(j) = "stopped"
                     /\ RestoredAttempts(j) = saved[j].attempts
                ELSE /\ RestoredStatus(j) = IF saved[j].attempts >= 1
                                            THEN "interrupted" ELSE "queued"
                     /\ RestoredAttempts(j) = saved[j].attempts + 1
<1>1. CASE saved[j] = None
  BY <1>1 DEF Types, Status, RestoredStatus, RestoredAttempts, Resumed
<1>2. CASE saved[j] # None
  <2>1. saved[j] \in Record
    BY <1>2 DEF Types
  <2>2. saved[j].status \in Persisted /\ saved[j].attempts \in Nat
    BY <2>1 DEF Record
  <2>3. CASE saved[j].status \in {"done", "stopped"}
    BY <1>2, <2>2, <2>3 DEF Status, RestoredStatus, RestoredAttempts, Resumed
  <2>4. CASE saved[j].status \in Resumable /\ Recoverable(j)
    BY <1>2, <2>2, <2>4 DEF Status, RestoredStatus, RestoredAttempts, Resumed
  <2>5. CASE saved[j].status \in Resumable /\ ~Recoverable(j) /\ saved[j].trashed
    BY <1>2, <2>2, <2>5 DEF Status, RestoredStatus, RestoredAttempts, Resumed
  <2>6. CASE saved[j].status \in Resumable /\ ~Recoverable(j) /\ ~saved[j].trashed
    <3>1. Resumed(j)
      BY <1>2, <2>6 DEF Resumed
    <3>2. RestoredAttempts(j) = saved[j].attempts + 1
      BY <1>2, <2>6, <3>1 DEF RestoredAttempts
    <3>3. CASE saved[j].attempts >= 1
      BY <1>2, <2>2, <2>6, <3>1, <3>2, <3>3 DEF Status, RestoredStatus, MaxResumeAttempts
    <3>4. CASE saved[j].attempts < 1
      BY <1>2, <2>2, <2>6, <3>1, <3>2, <3>4 DEF Status, RestoredStatus, MaxResumeAttempts
    <3> QED  BY <2>2, <3>3, <3>4
  <2> QED  BY <2>2, <2>3, <2>4, <2>5, <2>6
<1> QED  BY <1>1, <1>2

(* No step leaves the types.                                               *)
LEMMA TypeStep == Types /\ PhaseInv /\ DutyInv /\ [Next]_vars => Types'
<1> SUFFICES ASSUME Types, PhaseInv, DutyInv, [Next]_vars
             PROVE  Types'
  OBVIOUS
<1> USE DEF Types, Status, Stages, Fates
<1>1. ASSUME NEW j \in Jobs, Save(j) PROVE Types'
  <2>1. duty' \in [Jobs -> Seq(Duties)]
    BY <1>1, Doing DEF Duty
  <2>2. CASE Persist /\ fate' = [k \in Jobs |-> IF fate[k] = "unwanted" /\ status[k] = "absent"
                                                THEN "deleted" ELSE fate[k]]
    <3>1. fate' \in [Jobs -> Fates]
      BY <2>2 DEF Fates
    <3> QED  BY <1>1, <2>1, <2>2, <3>1, PersistTypes DEF Save
  <2>3. CASE PersistFails({j}) /\ UNCHANGED fate
    <3>1. {j} \in SUBSET Jobs
      OBVIOUS
    <3> QED  BY <1>1, <2>1, <2>3, <3>1, RefusalTypes DEF Save
  <2> QED  BY <1>1, <2>2, <2>3 DEF Save
<1>2. ASSUME NEW j \in Jobs, Erase(j) PROVE Types'
  <2>1. duty' \in [Jobs -> Seq(Duties)]
    BY <1>2, Doing DEF Duty
  <2> QED  BY <1>2, <2>1 DEF Erase
<1>3. ASSUME NEW j \in Jobs, Forget(j) PROVE Types'
  <2>1. duty' \in [Jobs -> Seq(Duties)]
    BY <1>3, Doing DEF Duty
  <2> QED  BY <1>3, <2>1 DEF Forget
<1>4. ASSUME NEW j \in Jobs, Drop(j) PROVE Types'
  <2>1. duty' \in [Jobs -> Seq(Duties)]
    BY <1>4, Doing DEF Duty
  <2> QED  BY <1>4, <2>1 DEF Drop
<1>5. ASSUME NEW j \in Jobs, Import(j) PROVE Types'
  <2>1. duty' \in [Jobs -> Seq(Duties)]
    BY <1>5, Keeping
  <2> QED  BY <1>5, <2>1 DEF Import
<1>6. ASSUME NEW j \in Jobs, Cancel(j) PROVE Types'
  <2>1. status[j] = "queued" => duty' \in [Jobs -> Seq(Duties)]
    BY <1>6, Ending
  <2> QED  BY <1>6, <2>1 DEF Cancel
<1>7. ASSUME NEW j \in Jobs, Trash(j) PROVE Types'
  <2>1. duty' \in [Jobs -> Seq(Duties)]
    BY <1>7, Keeping
  <2> QED  BY <1>7, <2>1 DEF Trash, Registered
<1>8. ASSUME NEW j \in Jobs, RestoreJob(j) PROVE Types'
  <2>1. duty' \in [Jobs -> Seq(Duties)]
    BY <1>8, Keeping
  <2> QED  BY <1>8, <2>1 DEF RestoreJob, Registered
<1>9. ASSUME NEW j \in Jobs, Extract(j) PROVE Types'
  <2>1. duty' \in [Jobs -> Seq(Duties)]
    BY <1>9, Keeping
  <2> QED  BY <1>9, <2>1 DEF Extract
<1>10. ASSUME NEW j \in Jobs, Delete(j) PROVE Types'
  <2>1. duty' \in [Jobs -> Seq(Duties)]
    BY <1>10, Ending
  <2> QED  BY <1>10, <2>1 DEF Delete
<1>11. ASSUME NEW j \in Jobs, Expire(j) PROVE Types'
  <2>1. duty' \in [Jobs -> Seq(Duties)]
    BY <1>11, Ending
  <2> QED  BY <1>11, <2>1 DEF Expire
<1>12. ASSUME NEW j \in Jobs, Start(j) PROVE Types'
  <2>1. stage' \in Stages /\ "processing" \in Status
    BY <1>12 DEF Start
  <2> QED  BY <1>12, <2>1 DEF Start
<1>13. ASSUME Separate PROVE Types'
  <2>1. running \in Jobs
    BY <1>13 DEF Separate, PhaseInv
  <2> QED  BY <1>13, <2>1 DEF Separate, Write
<1>14. ASSUME CollectStem PROVE Types'
  <2>1. running \in Jobs
    BY <1>14 DEF CollectStem, PhaseInv
  <2>2. PICK s \in Stems \ files[running] : Write("collect", files[running] \cup {s})
    BY <1>14 DEF CollectStem
  <2> QED  BY <1>14, <2>1, <2>2 DEF CollectStem, Write
<1>15. ASSUME CollectEnds PROVE Types'
  <2>1. running \in Jobs
    BY <1>15 DEF CollectEnds, PhaseInv
  <2> QED  BY <1>15, <2>1 DEF CollectEnds, Write
<1>16. ASSUME Finish PROVE Types'
  <2>1. duty' \in [Jobs -> Seq(Duties)]
    BY <1>16, Leaving
  <2> QED  BY <1>16, <2>1 DEF Finish, Leave
<1>17. ASSUME Fail PROVE Types'
  <2>1. duty' \in [Jobs -> Seq(Duties)]
    BY <1>17, Leaving
  <2> QED  BY <1>17, <2>1 DEF Fail, Leave
<1>18. ASSUME Halt PROVE Types'
  <2>1. duty' \in [Jobs -> Seq(Duties)]
    BY <1>18, Leaving
  <2>2. running \in Jobs
    BY <1>18, Leaving
  <2>3. CASE asked = "cancel"
    <3>1. Leave("cancelled", <<"save", "erase">>) /\ fate' = [fate EXCEPT ![running] = "over"]
      BY <1>18, <2>3 DEF Halt
    <3> QED  BY <2>1, <2>2, <3>1 DEF Leave
  <2>4. CASE asked = "stop"
    <3>1. Leave("stopped", <<"save">>) /\ fate' = fate
      BY <1>18, <2>4 DEF Halt
    <3> QED  BY <2>1, <2>2, <3>1 DEF Leave
  <2> QED  BY <1>18, <2>3, <2>4 DEF Halt
<1>19. ASSUME Crash PROVE Types'
  <2>1. duty' \in [Jobs -> Seq(Duties)]
    BY <1>19, OwedDuties DEF Crash
  <2> QED  BY <1>19, <2>1 DEF Crash
<1>20. ASSUME Restore PROVE Types'
  <2>1. status' \in [Jobs -> Status] /\ attempts' \in [Jobs -> Nat] /\ trashed' \in SUBSET Jobs
    BY <1>20, Restoring DEF Restore, RestoredTrash
  <2> QED  BY <1>20, <2>1 DEF Restore
<1>21. ASSUME RestoreEnds PROVE Types'
  <2>1. CASE Persist
    BY <1>21, <2>1, PersistTypes DEF RestoreEnds
  <2>2. CASE PersistFails(Changed)
    <3>1. Changed \in SUBSET Jobs
      BY DEF Changed
    <3> QED  BY <1>21, <2>2, <3>1, RefusalTypes DEF RestoreEnds
  <2>3. CASE UNCHANGED <<deleted, saved, savedDel, unsaved, refusals>>
    BY <1>21, <2>3 DEF RestoreEnds
  <2> QED  BY <1>21, <2>1, <2>2, <2>3 DEF RestoreEnds
<1>22. CASE UNCHANGED vars
  BY <1>22
<1> QED  BY <1>1, <1>2, <1>3, <1>4, <1>5, <1>6, <1>7, <1>8, <1>9, <1>10, <1>11, <1>12,
            <1>13, <1>14, <1>15, <1>16, <1>17, <1>18, <1>19, <1>20, <1>21, <1>22
            DEF Next, Duty, Request, Pipeline

(* No step lets the pipeline run a job that is not processing.             *)
LEMMA PhaseStep == Types /\ PhaseInv /\ DutyInv /\ [Next]_vars => PhaseInv'
<1> SUFFICES ASSUME Types, PhaseInv, DutyInv, [Next]_vars
             PROVE  PhaseInv'
  OBVIOUS
<1> USE DEF Types, PhaseInv, Stages
<1>1. ASSUME NEW j \in Jobs, Save(j) PROVE PhaseInv'
  <2>1. process = "up" /\ process' = "up"
    BY <1>1 DEF Save
  <2> QED  BY <1>1, <2>1 DEF Save
<1>2. ASSUME NEW j \in Jobs, Erase(j) PROVE PhaseInv'
  <2>1. running # j
    BY <1>2, Removing
  <2>2. process = "up" /\ process' = "up"
    BY <1>2 DEF Erase
  <2> QED  BY <1>2, <2>1, <2>2 DEF Erase
<1>3. ASSUME NEW j \in Jobs, Forget(j) PROVE PhaseInv'
  <2>1. running # j
    BY <1>3, Removing
  <2>2. process = "up" /\ process' = "up"
    BY <1>3 DEF Forget
  <2> QED  BY <1>3, <2>1, <2>2 DEF Forget
<1>4. ASSUME NEW j \in Jobs, Drop(j) PROVE PhaseInv'
  <2>1. running # j
    BY <1>4, Removing
  <2>2. process = "up" /\ process' = "up"
    BY <1>4 DEF Drop
  <2> QED  BY <1>4, <2>1, <2>2 DEF Drop
<1>5. ASSUME NEW j \in Jobs, Import(j) PROVE PhaseInv'
  <2>1. process = "up" /\ process' = "up"
    BY <1>5 DEF Import
  <2>2. running = j => status[j] = "processing"
    BY RestartAssumption
  <2> QED  BY <1>5, <2>1, <2>2 DEF Import
<1>6. ASSUME NEW j \in Jobs, Cancel(j) PROVE PhaseInv'
  <2>1. process = "up" /\ process' = "up"
    BY <1>6 DEF Cancel
  <2>2. running = j => status[j] = "processing"
    BY RestartAssumption
  <2> QED  BY <1>6, <2>1, <2>2 DEF Cancel
<1>7. ASSUME NEW j \in Jobs, Trash(j) PROVE PhaseInv'
  <2>1. process = "up" /\ process' = "up"
    BY <1>7 DEF Trash
  <2>2. running = j => status[j] = "processing"
    BY RestartAssumption
  <2> QED  BY <1>7, <2>1, <2>2 DEF Trash, Registered
<1>8. ASSUME NEW j \in Jobs, RestoreJob(j) PROVE PhaseInv'
  <2>1. process = "up" /\ process' = "up"
    BY <1>8 DEF RestoreJob
  <2> QED  BY <1>8, <2>1 DEF RestoreJob, Registered
<1>9. ASSUME NEW j \in Jobs, Extract(j) PROVE PhaseInv'
  <2>1. process = "up" /\ process' = "up"
    BY <1>9 DEF Extract
  <2>2. running = j => status[j] = "processing"
    BY RestartAssumption
  <2> QED  BY <1>9, <2>1, <2>2 DEF Extract
<1>10. ASSUME NEW j \in Jobs, Delete(j) PROVE PhaseInv'
  <2>1. process = "up" /\ process' = "up"
    BY <1>10 DEF Delete
  <2> QED  BY <1>10, <2>1 DEF Delete
<1>11. ASSUME NEW j \in Jobs, Expire(j) PROVE PhaseInv'
  <2>1. process = "up" /\ process' = "up"
    BY <1>11 DEF Expire
  <2> QED  BY <1>11, <2>1 DEF Expire
<1>12. ASSUME NEW j \in Jobs, Start(j) PROVE PhaseInv'
  <2>1. process = "up" /\ process' = "up"
    BY <1>12 DEF Start
  <2> QED  BY <1>12, <2>1, RestartAssumption DEF Start
<1>13. ASSUME Separate PROVE PhaseInv'
  BY <1>13 DEF Separate, Write
<1>14. ASSUME CollectStem PROVE PhaseInv'
  BY <1>14 DEF CollectStem, Write
<1>15. ASSUME CollectEnds PROVE PhaseInv'
  BY <1>15 DEF CollectEnds, Write
<1>16. ASSUME Finish PROVE PhaseInv'
  <2>1. process = "up"
    BY <1>16 DEF Finish
  <2> QED  BY <1>16, <2>1, RestartAssumption DEF Finish, Leave
<1>17. ASSUME Fail PROVE PhaseInv'
  <2>1. process = "up"
    BY <1>17 DEF Fail
  <2> QED  BY <1>17, <2>1, RestartAssumption DEF Fail, Leave
<1>18. ASSUME Halt PROVE PhaseInv'
  <2>1. process = "up"
    BY <1>18 DEF Halt
  <2> QED  BY <1>18, <2>1, RestartAssumption DEF Halt, Leave
<1>19. ASSUME Crash PROVE PhaseInv'
  BY <1>19 DEF Crash
<1>20. ASSUME Restore PROVE PhaseInv'
  BY <1>20 DEF Restore
<1>21. ASSUME RestoreEnds PROVE PhaseInv'
  BY <1>21 DEF RestoreEnds
<1>22. CASE UNCHANGED vars
  BY <1>22
<1> QED  BY <1>1, <1>2, <1>3, <1>4, <1>5, <1>6, <1>7, <1>8, <1>9, <1>10, <1>11, <1>12,
            <1>13, <1>14, <1>15, <1>16, <1>17, <1>18, <1>19, <1>20, <1>21, <1>22
            DEF Next, Duty, Request, Pipeline

(* Whatever step is taken, about this job or another one, JobOf still      *)
(* holds of the job.                                                       *)
LEMMA JobStep == Types /\ PhaseInv /\ JobInv /\ [Next]_vars => JobInv'
<1> SUFFICES ASSUME Types, PhaseInv, JobInv, [Next]_vars, NEW k \in Jobs
             PROVE  JobOf(k)'
  BY DEF JobInv
<1>1. JobOf(k) /\ DutyInv
  BY DEF JobInv, JobOf, DutyInv
<1> USE DEF Types, JobOf, DutyOf, NewOf, CapOf, SourceOf, DeletedOf, SavedOf, FinishedOf,
            SyncOf, TrashOf, Recoverable, InSync, RecordOf, Record, Status
<1>2. ASSUME NEW j \in Jobs, Save(j) PROVE JobOf(k)'
  <2>1. /\ duty[j] # <<>> /\ (k # j => duty'[k] = duty[k])
        /\ Removes(duty'[j]) => Removes(duty[j])
        /\ SavesLast(duty[j]) => SavesLast(duty'[j])
        /\ Drops(duty'[j]) => Drops(duty[j])
    BY <1>2, <1>1, Doing DEF Duty
  <2>2. CASE Persist /\ fate' = [i \in Jobs |-> IF fate[i] = "unwanted" /\ status[i] = "absent"
                                                THEN "deleted" ELSE fate[i]]
    <3>1. /\ (k \in deleted' <=> k \in deleted /\ files[k] # {})
          /\ (k \in savedDel' <=> k \in deleted /\ files[k] # {})
          /\ saved'[k] = IF status[k] \in Persisted THEN RecordOf(k) ELSE None
          /\ status[k] \in Persisted => saved'[k] # None
          /\ unsaved' = {}
      BY <2>2, <1>1, PersistTypes
    <3>2. fate'[k] = IF fate[k] = "unwanted" /\ status[k] = "absent" THEN "deleted" ELSE fate[k]
      BY <2>2
    <3>3. CASE k # j
      BY SMTT(60), <1>1, <1>2, <2>1, <3>1, <3>2, <3>3 DEF Save
    <3>4. CASE k = j
      BY <1>1, <1>2, <2>1, <3>1, <3>2, <3>4 DEF Save
    <3> QED  BY <3>3, <3>4
  <2>3. CASE PersistFails({j}) /\ UNCHANGED fate
    <3>1. /\ (k \in deleted' => k \in deleted)
          /\ (k \in deleted /\ files[k] # {} => k \in deleted')
          /\ saved' = saved /\ savedDel' = savedDel
          /\ unsaved' = unsaved \cup {j}
      BY <2>3 DEF PersistFails, Pruned, Directories
    <3>2. CASE k # j
      BY <1>1, <1>2, <2>1, <2>3, <3>1, <3>2 DEF Save
    <3>3. CASE k = j
      BY <1>1, <1>2, <2>1, <2>3, <3>1, <3>3 DEF Save
    <3> QED  BY <3>2, <3>3
  <2> QED  BY <1>2, <2>2, <2>3 DEF Save
<1>3. ASSUME NEW j \in Jobs, Erase(j) PROVE JobOf(k)'
  <2>1. /\ status[j] \notin {"new", "queued", "processing"}
        /\ fate[j] \notin {"open", "done"}
        /\ running # j
    BY <1>3, <1>1, Removing
  <2>2. files'[j] \subseteq files[j] /\ (k # j => files'[k] = files[k])
    BY <1>3, <1>1, Erasing
  <2>3. /\ duty[j] # <<>> /\ (k # j => duty'[k] = duty[k])
        /\ Removes(duty'[j]) => Removes(duty[j])
        /\ SavesLast(duty[j]) => SavesLast(duty'[j])
        /\ Saves(duty[j]) /\ Head(duty[j]) \notin {"save", "enqueue"} => Saves(duty'[j])
        /\ SavesLast(duty[j]) /\ Head(duty[j]) \in {"forget", "drop"} => Saves(duty'[j])
        /\ Drops(duty'[j]) => Drops(duty[j])
        /\ Head(duty[j]) = "drop" => Drops(duty[j])
    BY <1>3, <1>1, Doing DEF Duty
  <2>4. CASE k # j
    BY <1>1, <1>3, <2>1, <2>2, <2>3, <2>4 DEF Erase
  <2>5. CASE k = j
    BY <1>1, <1>3, <2>1, <2>2, <2>3, <2>5 DEF Erase
  <2> QED  BY <2>4, <2>5
<1>4. ASSUME NEW j \in Jobs, Forget(j) PROVE JobOf(k)'
  <2>1. /\ status[j] \notin {"new", "queued", "processing"}
        /\ fate[j] \notin {"open", "done"}
        /\ running # j
    BY <1>4, <1>1, Removing
  <2>2. /\ duty[j] # <<>> /\ (k # j => duty'[k] = duty[k])
        /\ Removes(duty'[j]) => Removes(duty[j])
        /\ SavesLast(duty[j]) => SavesLast(duty'[j])
        /\ Saves(duty[j]) /\ Head(duty[j]) \notin {"save", "enqueue"} => Saves(duty'[j])
        /\ SavesLast(duty[j]) /\ Head(duty[j]) \in {"forget", "drop"} => Saves(duty'[j])
        /\ Drops(duty'[j]) => Drops(duty[j])
        /\ Head(duty[j]) = "drop" => Drops(duty[j])
    BY <1>4, <1>1, Doing DEF Duty
  <2>3. CASE k # j
    BY <1>1, <1>4, <2>1, <2>2, <2>3 DEF Forget
  <2>4. CASE k = j
    BY <1>1, <1>4, <2>1, <2>2, <2>4 DEF Forget
  <2> QED  BY <2>3, <2>4
<1>5. ASSUME NEW j \in Jobs, Drop(j) PROVE JobOf(k)'
  <2>1. /\ status[j] \notin {"new", "queued", "processing"}
        /\ fate[j] \notin {"open", "done"}
        /\ running # j
    BY <1>5, <1>1, Removing
  <2>2. /\ duty[j] # <<>> /\ (k # j => duty'[k] = duty[k])
        /\ Removes(duty'[j]) => Removes(duty[j])
        /\ SavesLast(duty[j]) => SavesLast(duty'[j])
        /\ Saves(duty[j]) /\ Head(duty[j]) \notin {"save", "enqueue"} => Saves(duty'[j])
        /\ SavesLast(duty[j]) /\ Head(duty[j]) \in {"forget", "drop"} => Saves(duty'[j])
        /\ Drops(duty'[j]) => Drops(duty[j])
        /\ Head(duty[j]) = "drop" => Drops(duty[j])
    BY <1>5, <1>1, Doing DEF Duty
  <2>3. CASE k # j
    BY <1>1, <1>5, <2>1, <2>2, <2>3 DEF Drop
  <2>4. CASE k = j
    BY <1>1, <1>5, <2>1, <2>2, <2>4 DEF Drop
  <2> QED  BY <2>3, <2>4
<1>6. ASSUME NEW j \in Jobs, Import(j) PROVE JobOf(k)'
  <2>1. running # j
    BY <1>6, <1>1, RestartAssumption DEF Import, PhaseInv
  <2>2. /\ k # j => duty'[k] = duty[k]
        /\ ~Removes(duty'[j]) /\ ~Drops(duty'[j])
        /\ Saves(duty'[j]) /\ SavesLast(duty'[j])
    BY <1>6, <1>1, Keeping
  <2>3. CASE k # j
    BY <1>1, <1>6, <2>1, <2>2, <2>3 DEF Import
  <2>4. CASE k = j
    BY <1>1, <1>6, <2>1, <2>2, <2>4 DEF Import
  <2> QED  BY <2>3, <2>4
<1>7. ASSUME NEW j \in Jobs, Cancel(j) PROVE JobOf(k)'
  <2>1. running = j => status[j] = "processing"
    BY RestartAssumption DEF PhaseInv
  <2>2. status[j] = "queued" => /\ k # j => duty'[k] = duty[k]
                                /\ Saves(duty'[j]) /\ SavesLast(duty'[j]) /\ ~Drops(duty'[j])
    BY <1>7, <1>1, Ending
  <2>3. CASE k # j
    BY <1>1, <1>7, <2>1, <2>2, <2>3 DEF Cancel
  <2>4. CASE k = j /\ status[j] = "queued"
    BY <1>1, <1>7, <2>1, <2>2, <2>4 DEF Cancel
  <2>5. CASE k = j /\ status[j] # "queued"
    BY <1>1, <1>7, <2>1, <2>2, <2>5 DEF Cancel
  <2> QED  BY <2>3, <2>4, <2>5
<1>8. ASSUME NEW j \in Jobs, Trash(j) PROVE JobOf(k)'
  <2>1. /\ k # j => duty'[k] = duty[k]
        /\ ~Removes(duty'[j]) /\ ~Drops(duty'[j])
        /\ Saves(duty'[j]) /\ SavesLast(duty'[j])
    BY <1>8, <1>1, Keeping
  <2>2. CASE k # j
    BY <1>1, <1>8, <2>1, <2>2 DEF Trash, Registered
  <2>3. CASE k = j
    BY <1>1, <1>8, <2>1, <2>3 DEF Trash, Registered
  <2> QED  BY <2>2, <2>3
<1>9. ASSUME NEW j \in Jobs, RestoreJob(j) PROVE JobOf(k)'
  <2>1. /\ k # j => duty'[k] = duty[k]
        /\ ~Removes(duty'[j]) /\ ~Drops(duty'[j])
        /\ Saves(duty'[j]) /\ SavesLast(duty'[j])
    BY <1>9, <1>1, Keeping
  <2>2. CASE k # j
    BY <1>1, <1>9, <2>1, <2>2 DEF RestoreJob, Registered
  <2>3. CASE k = j
    BY <1>1, <1>9, <2>1, <2>3 DEF RestoreJob, Registered
  <2> QED  BY <2>2, <2>3
<1>10. ASSUME NEW j \in Jobs, Extract(j) PROVE JobOf(k)'
  <2>1. /\ k # j => duty'[k] = duty[k]
        /\ ~Removes(duty'[j]) /\ ~Drops(duty'[j])
        /\ Saves(duty'[j]) /\ SavesLast(duty'[j])
        /\ duty'[j] = <<"enqueue">>
    BY <1>10, <1>1, Keeping
  <2>2. CASE k # j
    BY <1>1, <1>10, <2>1, <2>2 DEF Extract
  <2>3. CASE k = j
    <3>1. DutyOf(k)'
      BY <1>1, <1>10, <2>1, <2>3 DEF Extract
    <3>2. NewOf(k)'
      BY <1>1, <1>10, <2>1, <2>3 DEF Extract
    <3>3. CapOf(k)'
      BY <1>1, <1>10, <2>1, <2>3 DEF Extract
    <3>4. SourceOf(k)'
      BY <1>1, <1>10, <2>1, <2>3 DEF Extract
    <3>5. DeletedOf(k)'
      BY <1>1, <1>10, <2>1, <2>3 DEF Extract
    <3>6. SavedOf(k)'
      BY <1>1, <1>10, <2>1, <2>3 DEF Extract
    <3>7. FinishedOf(k)'
      BY <1>1, <1>10, <2>1, <2>3 DEF Extract
    <3>8. SyncOf(k)'
      BY <1>1, <1>10, <2>1, <2>3 DEF Extract
    <3>9. TrashOf(k)'
      BY <1>1, <1>10, <2>1, <2>3 DEF Extract
    <3> QED  BY <3>1, <3>2, <3>3, <3>4, <3>5, <3>6, <3>7, <3>8, <3>9 DEF JobOf
  <2> QED  BY <2>2, <2>3
<1>11. ASSUME NEW j \in Jobs, Delete(j) PROVE JobOf(k)'
  <2>1. /\ k # j => duty'[k] = duty[k]
        /\ Saves(duty'[j]) /\ SavesLast(duty'[j]) /\ ~Drops(duty'[j])
    BY <1>11, <1>1, Ending
  <2>2. CASE k # j
    BY <1>1, <1>11, <2>1, <2>2 DEF Delete
  <2>3. CASE k = j
    BY <1>1, <1>11, <2>1, <2>3 DEF Delete
  <2> QED  BY <2>2, <2>3
<1>12. ASSUME NEW j \in Jobs, Expire(j) PROVE JobOf(k)'
  <2>1. /\ k # j => duty'[k] = duty[k]
        /\ Saves(duty'[j]) /\ SavesLast(duty'[j])
    BY <1>12, <1>1, Ending
  <2>2. CASE k # j
    BY <1>1, <1>12, <2>1, <2>2 DEF Expire
  <2>3. CASE k = j
    BY <1>1, <1>12, <2>1, <2>3 DEF Expire
  <2> QED  BY <2>2, <2>3
<1>13. ASSUME NEW j \in Jobs, Start(j) PROVE JobOf(k)'
  <2>1. CASE k # j
    BY <1>1, <1>13, <2>1 DEF Start
  <2>2. CASE k = j
    BY <1>1, <1>13, <2>2 DEF Start
  <2> QED  BY <2>1, <2>2
<1>14. ASSUME Separate PROVE JobOf(k)'
  <2>1. running \in Jobs /\ status[running] = "processing"
    BY <1>14, <1>1 DEF Separate, PhaseInv, Types
  <2>2. CASE k # running
    BY <1>1, <1>14, <2>1, <2>2 DEF Separate, Write
  <2>3. CASE k = running
    BY <1>1, <1>14, <2>1, <2>3 DEF Separate, Write
  <2> QED  BY <2>2, <2>3
<1>15. ASSUME CollectStem PROVE JobOf(k)'
  <2>1. running \in Jobs /\ status[running] = "processing"
    BY <1>15, <1>1 DEF CollectStem, PhaseInv, Types
  <2>2. CASE k # running
    BY <1>1, <1>15, <2>1, <2>2 DEF CollectStem, Write
  <2>3. CASE k = running
    BY <1>1, <1>15, <2>1, <2>3 DEF CollectStem, Write
  <2> QED  BY <2>2, <2>3
<1>16. ASSUME CollectEnds PROVE JobOf(k)'
  <2>1. running \in Jobs /\ status[running] = "processing"
    BY <1>16, <1>1 DEF CollectEnds, PhaseInv, Types
  <2>2. CASE k # running
    BY <1>1, <1>16, <2>1, RestartAssumption, <2>2 DEF CollectEnds, Write
  <2>3. CASE k = running
    BY <1>1, <1>16, <2>1, RestartAssumption, <2>3 DEF CollectEnds, Write
  <2> QED  BY <2>2, <2>3
<1>17. ASSUME Finish PROVE JobOf(k)'
  <2>1. running \in Jobs /\ status[running] = "processing"
    BY <1>17, <1>1, Leaving
  <2>2. /\ k # running => duty'[k] = duty[k]
        /\ Saves(duty'[running]) /\ SavesLast(duty'[running]) /\ ~Drops(duty'[running])
        /\ ~Removes(duty'[running])
    BY <1>17, <1>1, Leaving
  <2>3. CASE k # running
    BY <1>1, <1>17, <2>1, <2>2, RestartAssumption, <2>3 DEF Finish, Leave
  <2>4. CASE k = running
    BY <1>1, <1>17, <2>1, <2>2, RestartAssumption, <2>4 DEF Finish, Leave
  <2> QED  BY <2>3, <2>4
<1>18. ASSUME Fail PROVE JobOf(k)'
  <2>1. running \in Jobs /\ status[running] = "processing"
    BY <1>18, <1>1, Leaving
  <2>2. /\ k # running => duty'[k] = duty[k]
        /\ Saves(duty'[running]) /\ SavesLast(duty'[running]) /\ ~Drops(duty'[running])
    BY <1>18, <1>1, Leaving
  <2>3. CASE k # running
    BY <1>1, <1>18, <2>1, <2>2, <2>3 DEF Fail, Leave
  <2>4. CASE k = running
    BY <1>1, <1>18, <2>1, <2>2, <2>4 DEF Fail, Leave
  <2> QED  BY <2>3, <2>4
<1>19. ASSUME Halt PROVE JobOf(k)'
  <2>1. running \in Jobs /\ status[running] = "processing"
    BY <1>19, <1>1, Leaving
  <2>2. /\ k # running => duty'[k] = duty[k]
        /\ Saves(duty'[running]) /\ SavesLast(duty'[running]) /\ ~Drops(duty'[running])
        /\ asked = "stop" => ~Removes(duty'[running])
    BY <1>19, <1>1, Leaving
  <2>3. CASE k # running
    BY <1>1, <1>19, <2>1, <2>2, <2>3 DEF Halt, Leave
  <2>4. CASE k = running /\ asked = "cancel"
    BY <1>1, <1>19, <2>1, <2>2, <2>4 DEF Halt, Leave
  <2>5. CASE k = running /\ asked = "stop"
    BY <1>1, <1>19, <2>1, <2>2, <2>5 DEF Halt, Leave
  <2> QED  BY <2>3, <2>4, <2>5, <1>19 DEF Halt
<1>20. ASSUME Crash PROVE JobOf(k)'
  <2>1. saved[k] # None => saved[k].attempts \in Nat /\ saved[k].status \in Persisted
    BY <1>20, <1>1 DEF Types, Record
  <2>2. /\ running = k => process = "up" /\ status[k] = "processing"
        /\ kills'[k] = IF k = running /\ k \notin unsaved THEN kills[k] + 1 ELSE kills[k]
        /\ fate'[k] = IF Lost(k) THEN "over" ELSE fate[k]
    BY <1>20, <1>1, RestartAssumption DEF Crash, PhaseInv, Types
  <2>3. /\ duty'[k] = <<>> /\ process' = "down"
        /\ ~Removes(duty'[k]) /\ ~Drops(duty'[k]) /\ SavesLast(duty'[k])
    BY <1>20, <1>1, OwedDuties DEF Crash
  <2>4. CASE k = running
    BY <1>1, <1>20, <2>1, <2>2, <2>3, <2>4 DEF Crash, Lost
  <2>5. CASE k # running
    BY <1>1, <1>20, <2>1, <2>2, <2>3, <2>5 DEF Crash, Lost
  <2> QED  BY <2>4, <2>5
<1>21. ASSUME Restore PROVE JobOf(k)'
  <2>1. /\ process = "down" /\ status'[k] = RestoredStatus(k) /\ attempts'[k] = RestoredAttempts(k)
        /\ k \in trashed' <=> saved[k] # None /\ saved[k].trashed
        /\ status[k] \in {"new", "absent"} /\ unsaved = {}
    BY <1>21, <1>1 DEF Restore, RestoredTrash, PhaseInv
  <2>2. duty[k] = <<>> /\ ~Removes(duty[k]) /\ ~Drops(duty[k]) /\ SavesLast(duty[k])
    BY <1>21, <1>1, OwedDuties DEF Restore, PhaseInv
  <2>3. saved[k] # None => /\ saved[k] \in Record /\ saved[k].status \in Persisted
                           /\ saved[k].attempts \in Nat
    BY <1>21, <1>1 DEF Types, Record
  <2>4. CASE saved[k] = None
    <3>1. /\ status'[k] = IF Recoverable(k) /\ k \notin savedDel THEN "done" ELSE status[k]
          /\ attempts'[k] = 0
      BY <2>1, <2>4, Restoring
    <3> QED  BY <1>1, <1>21, <2>1, <2>2, <2>3, <2>4, <3>1 DEF Restore
  <2>5. CASE saved[k] # None /\ saved[k].status \in {"done", "stopped"}
    <3>1. status'[k] = saved[k].status /\ attempts'[k] = saved[k].attempts
      BY <2>1, <2>5, Restoring
      <3>2. DutyOf(k)'
        BY <1>1, <1>21, <2>1, <2>2, <2>3, <2>5, <3>1 DEF Restore
      <3>3. NewOf(k)'
        BY <1>1, <1>21, <2>1, <2>2, <2>3, <2>5, <3>1 DEF Restore
      <3>4. CapOf(k)'
        BY <1>1, <1>21, <2>1, <2>2, <2>3, <2>5, <3>1 DEF Restore
      <3>5. SourceOf(k)'
        BY <1>1, <1>21, <2>1, <2>2, <2>3, <2>5, <3>1 DEF Restore
      <3>6. DeletedOf(k)'
        BY <1>1, <1>21, <2>1, <2>2, <2>3, <2>5, <3>1 DEF Restore
      <3>7. SavedOf(k)'
        BY <1>1, <1>21, <2>1, <2>2, <2>3, <2>5, <3>1 DEF Restore
      <3>8. FinishedOf(k)'
        BY <1>1, <1>21, <2>1, <2>2, <2>3, <2>5, <3>1 DEF Restore
      <3>9. SyncOf(k)'
        BY <1>1, <1>21, <2>1, <2>2, <2>3, <2>5, <3>1 DEF Restore
      <3>10. TrashOf(k)'
        BY <1>1, <1>21, <2>1, <2>2, <2>3, <2>5, <3>1 DEF Restore
      <3> QED  BY <3>2, <3>3, <3>4, <3>5, <3>6, <3>7, <3>8, <3>9, <3>10 DEF JobOf
  <2>6. CASE saved[k] # None /\ saved[k].status \in Resumable /\ Recoverable(k)
    <3>1. status'[k] = "done" /\ attempts'[k] = 0
      BY <2>1, <2>6, Restoring
    <3> QED  BY <1>1, <1>21, <2>1, <2>2, <2>3, <2>6, <3>1 DEF Restore
  <2>7. CASE saved[k] # None /\ saved[k].status \in Resumable /\ ~Recoverable(k)
    <3>1. IF saved[k].trashed
          THEN status'[k] = "stopped" /\ attempts'[k] = saved[k].attempts
          ELSE /\ status'[k] = IF saved[k].attempts >= 1 THEN "interrupted" ELSE "queued"
               /\ attempts'[k] = saved[k].attempts + 1
      BY <2>1, <2>7, Restoring
    <3> QED  BY <1>1, <1>21, <2>1, <2>2, <2>3, <2>7, <3>1 DEF Restore
  <2> QED  BY <2>4, <2>5, <2>6, <2>7, <2>1, <2>2, <2>3
<1>22. ASSUME RestoreEnds PROVE JobOf(k)'
  <2>1. process = "restored" /\ duty[k] = <<>> /\ attempts[k] \in Nat /\ kills[k] \in Nat
    BY <1>22, <1>1 DEF RestoreEnds, PhaseInv
  <2>2. k \notin Changed => IF saved[k] = None THEN status[k] # "done"
                                             ELSE saved[k].status \in {"done", "stopped"}
    BY <1>22, <1>1 DEF Changed
  <2>3. CASE Persist
    <3> DEFINE Kept ==
          /\ (k \in deleted' <=> k \in deleted /\ files[k] # {})
          /\ (k \in savedDel' <=> k \in deleted /\ files[k] # {})
          /\ saved'[k] = IF status[k] \in Persisted THEN RecordOf(k) ELSE None
          /\ status[k] \in Persisted => /\ saved'[k] # None
                                        /\ saved'[k].status = status[k]
                                        /\ saved'[k].attempts = attempts[k]
          /\ unsaved' = {}
    <3>1. Kept
      BY <2>3, <1>1, PersistTypes DEF RecordOf
    <3>2. DutyOf(k)'
      BY <1>1, <1>22, <2>1, <3>1 DEF RestoreEnds
    <3>3. NewOf(k)'
      BY <1>1, <1>22, <2>1, <3>1 DEF RestoreEnds
    <3>4. CapOf(k)'
      BY <1>1, <1>22, <2>1, <3>1 DEF RestoreEnds
    <3>5. SourceOf(k)'
      BY <1>1, <1>22, <2>1, <3>1 DEF RestoreEnds
    <3>6. DeletedOf(k)'
      BY <1>1, <1>22, <2>1, <3>1 DEF RestoreEnds
    <3>7. SavedOf(k)'
      BY <1>1, <1>22, <2>1, <3>1 DEF RestoreEnds
    <3>8. FinishedOf(k)'
      BY <1>1, <1>22, <2>1, <3>1 DEF RestoreEnds
    <3>9. SyncOf(k)'
      BY <1>1, <1>22, <2>1, <3>1 DEF RestoreEnds
    <3>10. TrashOf(k)'
      BY <1>1, <1>22, <2>1, <3>1 DEF RestoreEnds
    <3> QED  BY <3>2, <3>3, <3>4, <3>5, <3>6, <3>7, <3>8, <3>9, <3>10 DEF JobOf
  <2>4. CASE PersistFails(Changed)
    <3>1. /\ (k \in deleted' => k \in deleted)
          /\ (k \in deleted /\ files[k] # {} => k \in deleted')
          /\ saved' = saved /\ savedDel' = savedDel
          /\ unsaved' = unsaved \cup Changed
      BY <2>4 DEF PersistFails, Pruned, Directories
    <3>2. CASE k \in Changed
      BY <1>1, <1>22, <2>1, <3>1, <3>2 DEF RestoreEnds
    <3>3. CASE k \notin Changed
        <4>1. DutyOf(k)'
          BY <1>1, <1>22, <2>1, <2>2, <3>1, <3>3 DEF RestoreEnds
        <4>2. NewOf(k)'
          BY <1>1, <1>22, <2>1, <2>2, <3>1, <3>3 DEF RestoreEnds
        <4>3. CapOf(k)'
          BY <1>1, <1>22, <2>1, <2>2, <3>1, <3>3 DEF RestoreEnds
        <4>4. SourceOf(k)'
          BY <1>1, <1>22, <2>1, <2>2, <3>1, <3>3 DEF RestoreEnds
        <4>5. DeletedOf(k)'
          BY <1>1, <1>22, <2>1, <2>2, <3>1, <3>3 DEF RestoreEnds
        <4>6. SavedOf(k)'
          BY <1>1, <1>22, <2>1, <2>2, <3>1, <3>3 DEF RestoreEnds
        <4>7. FinishedOf(k)'
          BY <1>1, <1>22, <2>1, <2>2, <3>1, <3>3 DEF RestoreEnds
        <4>8. SyncOf(k)'
          BY <1>1, <1>22, <2>1, <2>2, <3>1, <3>3 DEF RestoreEnds
        <4>9. TrashOf(k)'
          BY <1>1, <1>22, <2>1, <2>2, <3>1, <3>3 DEF RestoreEnds
        <4> QED  BY <4>1, <4>2, <4>3, <4>4, <4>5, <4>6, <4>7, <4>8, <4>9 DEF JobOf
    <3> QED  BY <3>2, <3>3
  <2>5. CASE Changed = {} /\ UNCHANGED <<deleted, saved, savedDel, unsaved, refusals>>
    BY <1>1, <1>22, <2>1, <2>2, <2>5 DEF RestoreEnds
  <2> QED  BY <1>22, <2>3, <2>4, <2>5 DEF RestoreEnds
<1>23. CASE UNCHANGED vars
  BY <1>1, <1>23
<1> QED  BY <1>2, <1>3, <1>4, <1>5, <1>6, <1>7, <1>8, <1>9, <1>10, <1>11, <1>12, <1>13,
            <1>14, <1>15, <1>16, <1>17, <1>18, <1>19, <1>20, <1>21, <1>22, <1>23
            DEF Next, Duty, Request, Pipeline

-----------------------------------------------------------------------------
(* The theorems.                                                           *)

(* A first start with an empty library.                                    *)
LEMMA Initially == Init => RestartInv
<1> SUFFICES ASSUME Init PROVE RestartInv
  OBVIOUS
<1>1. \A j \in Jobs : duty[j] = <<>>
  BY DEF Init
<1>2. duty \in [Jobs -> Seq(Duties)]
  BY <1>1, OwedDuties DEF Init
<1>3. Types
  BY <1>2, RestartAssumption DEF Init, Types, Status, Stages, Fates
<1>4. PhaseInv
  BY DEF Init, PhaseInv
<1>5. ASSUME NEW j \in Jobs PROVE JobOf(j)
  <2>1. ~Removes(duty[j]) /\ ~Drops(duty[j]) /\ SavesLast(duty[j])
    BY <1>1, OwedDuties
  <2> QED
    BY <2>1 DEF Init, JobOf, DutyOf, NewOf, CapOf, SourceOf, DeletedOf, SavedOf,
       FinishedOf,
                SyncOf, InSync, TrashOf
<1> QED  BY <1>3, <1>4, <1>5 DEF RestartInv, JobInv

(* RestartInv is an invariant.                                             *)
LEMMA RestartInvariant == Spec => []RestartInv
<1>1. RestartInv /\ [Next]_vars => RestartInv'
  <2> SUFFICES ASSUME RestartInv, [Next]_vars PROVE RestartInv'
    OBVIOUS
  <2>1. Types /\ PhaseInv /\ JobInv
    BY DEF RestartInv
  <2>2. DutyInv
    BY <2>1 DEF JobInv, JobOf, DutyInv
  <2>3. Types'
    BY <2>1, <2>2, TypeStep
  <2>4. PhaseInv'
    BY <2>1, <2>2, PhaseStep
  <2>5. JobInv'
    BY <2>1, JobStep
  <2> QED  BY <2>3, <2>4, <2>5 DEF RestartInv
<1> QED  BY Initially, <1>1, PTL DEF Spec

(* Every variable keeps its type, and no job is resumed more than once     *)
(* more than the cap allows.                                               *)
THEOREM RestartTypeCorrect == Spec => []TypeOK
<1>1. RestartInv => TypeOK
  <2> SUFFICES ASSUME RestartInv PROVE TypeOK
    OBVIOUS
  <2>1. \A j \in Jobs : attempts[j] \in Nat /\ attempts[j] <= 2
    BY DEF RestartInv, JobInv, JobOf, CapOf, Types
  <2>2. attempts \in [Jobs -> 0 .. MaxResumeAttempts + 1]
    BY <2>1 DEF RestartInv, Types, MaxResumeAttempts
  <2> QED  BY <2>2 DEF RestartInv, Types, TypeOK
<1> QED  BY RestartInvariant, <1>1, PTL

(* A deletion that is on disk is final: whatever is left of the directory, *)
(* a record keeps every later restore() from adopting it, and no save that *)
(* is refused loses it.                                                    *)
THEOREM DeletedStays == Spec => []DeletedStaysDeleted
<1>1. RestartInv => DeletedStaysDeleted
  BY DEF RestartInv, JobInv, JobOf, DeletedOf, DeletedStaysDeleted
<1> QED  BY RestartInvariant, <1>1, PTL

(* What the pipeline finished is still there after any number of deaths    *)
(* and of refused saves.                                                   *)
THEOREM FinishedStays == Spec => []FinishedIsKept
<1>1. RestartInv => FinishedIsKept
  BY DEF RestartInv, JobInv, JobOf, FinishedOf, FinishedIsKept
<1> QED  BY RestartInvariant, <1>1, PTL

(* A job that kills the process is run no more often than the cap allows,  *)
(* the deaths that found the file behind about it left out.                *)
THEOREM CrashLoopsEnd == Spec => []CrashLoopEnds
<1>1. RestartInv => CrashLoopEnds
  BY DEF RestartInv, JobInv, JobOf, CapOf, CrashLoopEnds, MaxResumeAttempts
<1> QED  BY RestartInvariant, <1>1, PTL

(* An upload that has come to no end keeps its source.                     *)
THEOREM SourceStays == Spec => []SourceIsKept
<1>1. RestartInv => SourceIsKept
  <2> SUFFICES ASSUME RestartInv, NEW j \in Uploads,
                      status[j] \in {"queued", "processing", "stopped"}, fate[j] = "open"
               PROVE  "source" \in files[j]
    BY DEF SourceIsKept
  <2>1. j \in Jobs
    BY RestartAssumption
  <2> QED  BY <2>1 DEF RestartInv, JobInv, JobOf, SourceOf
<1> QED  BY RestartInvariant, <1>1, PTL

(* restore() takes over the Trash, and puts nothing of it in the queue.    *)
THEOREM TrashStays == Spec => []TrashSurvives
<1>1. RestartInv => TrashSurvives
  BY DEF RestartInv, JobInv, JobOf, TrashOf, TrashSurvives
<1> QED  BY RestartInvariant, <1>1, PTL

(* A job nobody works on any more is in the file as it is in the registry, *)
(* but for one whose save was refused and that no save has reached since.  *)
THEOREM AnsweredStays == Spec => []AnsweredIsSaved
<1>1. RestartInv => AnsweredIsSaved
  <2> SUFFICES ASSUME RestartInv, process = "up", NEW j \in Jobs \ unsaved, duty[j] = <<>>
               PROVE  InSync(j)
    BY DEF AnsweredIsSaved, InSync
  <2>1. ~Saves(duty[j])
    BY OwedDuties
  <2> QED  BY <2>1 DEF RestartInv, JobInv, JobOf, SyncOf
<1> QED  BY RestartInvariant, <1>1, PTL

=============================================================================

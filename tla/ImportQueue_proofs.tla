------------------------- MODULE ImportQueue_proofs -------------------------
(***************************************************************************)
(* Proofs about ImportQueue for any number of jobs, threads and stages:    *)
(* the type invariant, that no wake-up of the consumer is lost, and that   *)
(* the persisted positions follow the queue; and who owns a job: exactly   *)
(* one of the queue, the consumer and a handler has a waiting job, a       *)
(* settled job stays settled, a job stopped from the Trash keeps its       *)
(* files, and the jobs nobody extracts again live as JobLifecycle says.    *)
(***************************************************************************)
EXTENDS ImportQueue, DataLemmas

(* Fairness plays no part in any of these: they hold of SafeSpec.          *)
USE DEF vars, jobVars, queueVars, wakeVars, workerVars, pipeVars, callVars

-----------------------------------------------------------------------------
(* A handler under way is about a job it was asked about, and stands where  *)
(* its kind of request can take it; an idle thread is about none.          *)
CallInv ==
    \A c \in Callers :
        IF at[c] = "idle"
        THEN target[c] = None
        ELSE /\ <<request[c], target[c]>> \in Asks
             /\ at[c] \in {"flag", "discard", "settle", "terminate"} =>
                    request[c] \in {"cancel", "trash"}
             /\ at[c] = "remove" => request[c] = "delete"
             /\ at[c] \in {"requeue", "reset", "enqueue"} => request[c] = "extract"

TypeInv == TypeOK /\ CallInv

(* The renumbering keeps every position a number.                          *)
LEMMA RenumberedType ==
    ASSUME NEW q \in Seq(Jobs), NEW known, position \in [Jobs -> Nat]
    PROVE  Renumbered(q, known) \in [Jobs -> Nat]
<1>1. Len(q) \in Nat /\ DOMAIN q = 1 .. Len(q)
  BY LenProperties
<1> SUFFICES ASSUME NEW j \in Jobs, j \in ToSet(q)
             PROVE  (CHOOSE i \in DOMAIN q : q[i] = j) - 1 \in Nat
  BY DEF Renumbered
<1>2. \E i \in DOMAIN q : q[i] = j
  BY DEF ToSet
<1>3. (CHOOSE i \in DOMAIN q : q[i] = j) \in DOMAIN q
  BY <1>2
<1> QED  BY <1>1, <1>3

(* In a queue without repetitions, each registered job gets its place.     *)
LEMMA RenumberedPlace ==
    ASSUME NEW q \in Seq(Jobs), NoRepeats(q), NEW known, NEW i \in DOMAIN q,
           q[i] \in known
    PROVE  Renumbered(q, known)[q[i]] = i - 1
<1>1. q[i] \in Jobs /\ q[i] \in ToSet(q)
  BY LenProperties, ElementOfSeq DEF ToSet
<1>2. (CHOOSE k \in DOMAIN q : q[k] = q[i]) = i
  BY DEF NoRepeats
<1> QED  BY <1>1, <1>2 DEF Renumbered

(* What enqueue() does to the types, and to which elements the queue has.  *)
LEMMA EnqueueType ==
    ASSUME NEW j \in Jobs, NEW known, Enqueue(j, known),
           queue \in Seq(Jobs), position \in [Jobs -> Nat]
    PROVE  queue' \in Seq(Jobs) /\ position' \in [Jobs -> Nat]
<1>1. CASE UNCHANGED <<queue, position>>
  BY <1>1
<1>2. CASE queue' = Append(queue, j) /\ position' = Renumbered(queue', known)
  <2>1. queue' \in Seq(Jobs)
    BY <1>2, AppendProperties
  <2> QED  BY <1>2, <2>1, RenumberedType
<1> QED  BY <1>1, <1>2 DEF Enqueue

(* A job moved to another place leaves a sequence of jobs.                 *)
LEMMA ReorderType ==
    ASSUME NEW j \in Jobs, NEW after, Reorder(j, after), queue \in Seq(Jobs)
    PROVE  queue' \in Seq(Jobs)
<1>1. PICK i \in DOMAIN queue :
        \/ queue' = <<j>> \o RemoveAt(queue, i)
        \/ \E k \in DOMAIN RemoveAt(queue, i) :
              queue' = InsertAt(RemoveAt(queue, i), k + 1, j)
        \/ queue' = Append(RemoveAt(queue, i), j)
  BY DEF Reorder
<1> DEFINE rest == RemoveAt(queue, i)
<1>2. rest \in Seq(Jobs) /\ DOMAIN rest = 1 .. Len(rest) /\ Len(rest) \in Nat
  BY RemoveAtShape, LenProperties
<1> HIDE DEF rest
<1>3. CASE queue' = <<j>> \o rest
  <2>1. <<j>> \in Seq(Jobs)
    OBVIOUS
  <2> QED  BY <1>2, <1>3, <2>1, ConcatProperties
<1>4. ASSUME NEW k \in DOMAIN rest, queue' = InsertAt(rest, k + 1, j)
      PROVE  queue' \in Seq(Jobs)
  <2>1. k + 1 \in 1 .. (Len(rest) + 1)
    BY <1>2
  <2> QED  BY <1>2, <1>4, <2>1, InsertAtShape
<1>5. CASE queue' = Append(rest, j)
  BY <1>2, <1>5, AppendProperties
<1> QED  BY <1>1, <1>3, <1>4, <1>5 DEF rest

CallTypes ==
    /\ at \in [Callers -> CallPcs]
    /\ request \in [Callers -> Requests \cup {"none"}]
    /\ target \in [Callers -> Jobs \cup {None}]

(* The places in its code a request of kind r can be at.                   *)
Fits(pc, r) ==
    /\ pc \in {"flag", "discard", "settle", "terminate"} => r \in {"cancel", "trash"}
    /\ pc = "remove" => r = "delete"
    /\ pc \in {"requeue", "reset", "enqueue"} => r = "extract"

(* A busy caller was asked something allowed, about a known id.            *)
LEMMA BusyCaller ==
    ASSUME TypeInv, NEW c \in Callers, at[c] # "idle"
    PROVE  /\ <<request[c], target[c]>> \in Asks
           /\ target[c] \in Jobs
           /\ request[c] \in Requests
           /\ Fits(at[c], request[c])
<1>1. <<request[c], target[c]>> \in Asks
  BY DEF TypeInv, CallInv
<1>2. <<request[c], target[c]>> \in {"cancel", "trash", "delete", "extract"} \X Jobs
  BY <1>1, QueueAssumption
<1>3. target[c] \in Jobs /\ request[c] \in Requests
  BY <1>2 DEF Requests
<1>4. Fits(at[c], request[c])
  BY DEF TypeInv, CallInv, Fits
<1> QED  BY <1>1, <1>3, <1>4

(* A handler that returns, or goes on to where its request can take it,    *)
(* leaves every thread as CallInv says.                                    *)
LEMMA ReturnKeeps ==
    ASSUME TypeInv, NEW c \in Callers, Return(c)
    PROVE  CallTypes' /\ CallInv'
<1>1. CallTypes'
  BY DEF Return, CallTypes, TypeInv, TypeOK, CallPcs
<1>2. ASSUME NEW d \in Callers, d # c
      PROVE  at'[d] = at[d] /\ request'[d] = request[d] /\ target'[d] = target[d]
  BY <1>2 DEF Return, TypeInv, TypeOK
<1>3. at'[c] = "idle" /\ target'[c] = None
  BY DEF Return, TypeInv, TypeOK
<1> QED  BY <1>1, <1>2, <1>3 DEF CallInv, TypeInv

(* The next step of _cancel_pipeline() leaves the threads as CallInv says. *)
LEMMA GoOnKeeps ==
    ASSUME TypeInv, NEW c \in Callers, at[c] # "idle",
           NEW pc \in CallPcs, pc # "idle", Fits(pc, request[c]), GoOn(c, pc)
    PROVE  CallTypes' /\ CallInv'
<1>1. CallTypes'
  BY DEF GoOn, CallTypes, TypeInv, TypeOK
<1>2. ASSUME NEW d \in Callers, d # c
      PROVE  at'[d] = at[d] /\ request'[d] = request[d] /\ target'[d] = target[d]
  BY <1>2 DEF GoOn, TypeInv, TypeOK
<1>3. at'[c] = pc /\ request'[c] = request[c] /\ target'[c] = target[c]
  BY DEF GoOn, TypeInv, TypeOK
<1> QED  BY <1>1, <1>2, <1>3 DEF CallInv, TypeInv, Fits

-----------------------------------------------------------------------------
(* A fresh start has the types of TypeInv.                                 *)
LEMMA TypeInit == Init => TypeInv
<1> SUFFICES ASSUME Init PROVE TypeInv
  OBVIOUS
<1>1. PICK waiting \in SUBSET Jobs :
        /\ queue \in SetToSeqs(waiting)
        /\ registry = waiting
        /\ status = [j \in Jobs |-> IF j \in waiting THEN "queued" ELSE "new"]
        /\ files = waiting \cap Uploads
        /\ paused = (waiting # {})
        /\ wakeCall = (waiting # {})
        /\ position = [j \in Jobs |-> IF j \in waiting
                                      THEN (CHOOSE i \in DOMAIN queue : queue[i] = j) - 1
                                      ELSE 0]
  BY DEF Init
<1>2. queue \in Seq(Jobs)
  BY <1>1, QueueAssumption, FS_Subset, SetToSeqsQueue, SeqMonotonic
<1>3. position \in [Jobs -> Nat]
  <2> SUFFICES ASSUME NEW j \in waiting
               PROVE  (CHOOSE i \in DOMAIN queue : queue[i] = j) - 1 \in Nat
    BY <1>1
  <2>1. DOMAIN queue = 1 .. Len(queue) /\ Len(queue) \in Nat
    BY <1>2, LenProperties
  <2>2. \E i \in DOMAIN queue : queue[i] = j
    <3>1. ToSet(queue) = waiting
      BY <1>1, QueueAssumption, FS_Subset, SetToSeqsQueue
    <3> QED  BY <3>1 DEF ToSet
  <2>3. (CHOOSE i \in DOMAIN queue : queue[i] = j) \in DOMAIN queue
    BY <2>2
  <2> QED  BY <2>1, <2>3
<1>4. /\ cancelReq = {} /\ stopReq = {} /\ trashed = {}
      /\ runningId = None /\ wake = FALSE /\ worker = "wait" /\ held = None
      /\ pipe = "none" /\ stagesLeft = 0 /\ proc = "none"
      /\ at = [c \in Callers |-> "idle"]
      /\ request = [c \in Callers |-> "none"]
      /\ target = [c \in Callers |-> None]
  BY DEF Init
<1>5. CallInv
  BY <1>4 DEF CallInv
<1>6. /\ registry \in SUBSET Jobs /\ files \in SUBSET Uploads
      /\ status \in [Jobs -> Status]
      /\ paused \in BOOLEAN /\ wakeCall \in BOOLEAN
  BY <1>1 DEF Status
<1> QED  BY <1>2, <1>3, <1>4, <1>5, <1>6 DEF TypeInv, TypeOK, WorkerPcs, PipePcs, CallPcs

(* No step of the queue leaves TypeInv.                                    *)
LEMMA TypeStep == TypeInv /\ [Next]_vars => TypeInv'
<1> SUFFICES ASSUME TypeInv, [Next]_vars PROVE TypeInv'
  OBVIOUS
<1> USE QueueAssumption DEF TypeInv, TypeOK, CallInv, Status, Finished, Requests,
        WorkerPcs, PipePcs, CallPcs
<1>1. CASE GoIdle
  BY <1>1 DEF GoIdle
<1>2. CASE ClearWake
  BY <1>2 DEF ClearWake
<1>3. CASE WakeUp
  BY <1>3 DEF WakeUp
<1>4. CASE PopNext
  <2>1. /\ Head(queue) \in Jobs /\ Tail(queue) \in Seq(Jobs)
    BY <1>4, HeadTailProperties DEF PopNext
  <2> QED  BY <1>4, <2>1 DEF PopNext
<1>5. CASE ForgetDeleted
  BY <1>5 DEF ForgetDeleted
<1>6. CASE FinaliseDropped
  BY SMTT(30), <1>6 DEF FinaliseDropped, SettleCancelled
<1>7. CASE PassCheck
  BY <1>7 DEF PassCheck
<1>8. CASE SetRunning
  BY <1>8 DEF SetRunning
<1>9. CASE StartPipeline
  BY <1>9 DEF StartPipeline
<1>10. CASE DispatchFails
  BY ZenonT(60), <1>10 DEF DispatchFails
<1>11. CASE ReleaseRunning
  BY <1>11 DEF ReleaseRunning
<1>12. CASE RunnerSettles
  BY <1>12 DEF RunnerSettles, SettleCancelled
<1>13. CASE ClearFlags
  BY <1>13 DEF ClearFlags
<1>14. CASE MarkDone
  BY <1>14 DEF MarkDone
<1>15. CASE CheckCancel
  BY <1>15 DEF CheckCancel
<1>16. CASE ChildExits
  BY <1>16 DEF ChildExits
<1>17. CASE StageRaises
  BY <1>17 DEF StageRaises
<1>18. CASE TailEnds
  BY <1>18 DEF TailEnds
<1>19. CASE RunWakeCall
  BY ZenonT(60), <1>19 DEF RunWakeCall
<1>20. ASSUME NEW c \in Callers, Handler(c)
      PROVE  TypeInv'
  <2>1. CASE CheckStatus(c)
    <3>1. /\ target[c] \in Jobs
          /\ request[c] \in Requests
          /\ Fits(at[c], request[c])
          /\ at[c] # "idle"
      BY <2>1, BusyCaller DEF CheckStatus
    <3>2. /\ NextPc(request[c]) \in CallPcs
          /\ NextPc(request[c]) # "idle"
          /\ Fits(NextPc(request[c]), request[c])
      BY <3>1 DEF NextPc, Fits, Requests, CallPcs
    <3>3. CallTypes' /\ CallInv'
      BY <2>1, <3>1, <3>2, GoOnKeeps, ReturnKeeps DEF CheckStatus
    <3> QED
      BY <2>1, <3>1, <3>3
      DEF CheckStatus, TypeInv, TypeOK, CallTypes, Status, Finished
  <2>2. CASE SetFlags(c)
    <3>1. /\ target[c] \in Jobs
          /\ request[c] \in Requests
          /\ Fits(at[c], request[c])
          /\ at[c] # "idle"
      BY <2>2, BusyCaller DEF SetFlags
    <3>2. Fits("discard", request[c]) /\ "discard" \in CallPcs
      BY <2>2, <3>1 DEF SetFlags, Fits, CallPcs
    <3>3. CallTypes' /\ CallInv'
      BY <2>2, <3>1, <3>2, GoOnKeeps DEF SetFlags
    <3> QED
      BY <2>2, <3>1, <3>3
      DEF SetFlags, TypeInv, TypeOK, CallTypes, Status, Finished
  <2>3. CASE Discard(c)
    <3>1. /\ target[c] \in Jobs
          /\ request[c] \in Requests
          /\ Fits(at[c], request[c])
          /\ at[c] # "idle"
      BY <2>3, BusyCaller DEF Discard
    <3>2. Fits("settle", request[c]) /\ "settle" \in CallPcs /\ Fits("terminate", request[c]) /\ "terminate" \in CallPcs
      BY <2>3, <3>1 DEF Discard, Fits, CallPcs
    <3>3. CallTypes' /\ CallInv'
      BY <2>3, <3>1, <3>2, GoOnKeeps DEF Discard
    <3>4. queue' \in Seq(Jobs)
      <4>1. \A i \in DOMAIN queue : RemoveAt(queue, i) \in Seq(Jobs)
        BY RemoveAtShape DEF TypeInv, TypeOK
      <4> QED  BY <2>3, <4>1 DEF Discard, TypeInv, TypeOK
    <3> QED
      BY <2>3, <3>1, <3>3, <3>4
      DEF Discard, TypeInv, TypeOK, CallTypes, Status, Finished
  <2>4. CASE SettleDiscarded(c)
    <3>1. /\ target[c] \in Jobs
          /\ request[c] \in Requests
          /\ Fits(at[c], request[c])
          /\ at[c] # "idle"
      BY <2>4, BusyCaller DEF SettleDiscarded
    <3>3. CallTypes' /\ CallInv'
      BY <2>4, <3>1, ReturnKeeps DEF SettleDiscarded
    <3>4. status' \in [Jobs -> Status] /\ files' \in SUBSET Uploads
      BY <2>4, <3>1 DEF SettleDiscarded, SettleCancelled, TypeInv, TypeOK, Status, Finished
    <3> QED
      BY <2>4, <3>1, <3>3, <3>4
      DEF SettleDiscarded, TypeInv, TypeOK, CallTypes, Status, Finished
  <2>5. CASE Terminate(c)
    <3>1. /\ target[c] \in Jobs
          /\ request[c] \in Requests
          /\ Fits(at[c], request[c])
          /\ at[c] # "idle"
      BY <2>5, BusyCaller DEF Terminate
    <3>3. CallTypes' /\ CallInv'
      BY <2>5, <3>1, ReturnKeeps DEF Terminate
    <3> QED
      BY <2>5, <3>1, <3>3
      DEF Terminate, TypeInv, TypeOK, CallTypes, Status, Finished
  <2>6. CASE Requeue(c)
    <3>1. /\ target[c] \in Jobs
          /\ request[c] \in Requests
          /\ Fits(at[c], request[c])
          /\ at[c] # "idle"
      BY <2>6, BusyCaller DEF Requeue
    <3>2. Fits("reset", request[c]) /\ "reset" \in CallPcs
      BY <2>6, <3>1 DEF Requeue, Fits, CallPcs
    <3>3. CallTypes' /\ CallInv'
      BY <2>6, <3>1, <3>2, GoOnKeeps, ReturnKeeps DEF Requeue
    <3>4. status' \in [Jobs -> Status] /\ files' \in SUBSET Uploads
      BY <2>6, <3>1 DEF Requeue, TypeInv, TypeOK, Status, Finished
    <3> QED
      BY <2>6, <3>1, <3>3, <3>4
      DEF Requeue, TypeInv, TypeOK, CallTypes, Status, Finished
  <2>7. CASE ResetForRerun(c)
    <3>1. /\ target[c] \in Jobs
          /\ request[c] \in Requests
          /\ Fits(at[c], request[c])
          /\ at[c] # "idle"
      BY <2>7, BusyCaller DEF ResetForRerun
    <3>2. Fits("enqueue", request[c]) /\ "enqueue" \in CallPcs
      BY <2>7, <3>1 DEF ResetForRerun, Fits, CallPcs
    <3>3. CallTypes' /\ CallInv'
      BY <2>7, <3>1, <3>2, GoOnKeeps DEF ResetForRerun
    <3> QED
      BY <2>7, <3>1, <3>3
      DEF ResetForRerun, TypeInv, TypeOK, CallTypes, Status, Finished
  <2>8. CASE EnqueueExtracted(c)
    <3>1. /\ target[c] \in Jobs
          /\ request[c] \in Requests
          /\ Fits(at[c], request[c])
          /\ at[c] # "idle"
      BY <2>8, BusyCaller DEF EnqueueExtracted
    <3>3. CallTypes' /\ CallInv'
      BY <2>8, <3>1, ReturnKeeps DEF EnqueueExtracted
    <3>4. queue' \in Seq(Jobs) /\ position' \in [Jobs -> Nat]
      BY <2>8, <3>1, EnqueueType DEF EnqueueExtracted, TypeInv, TypeOK
    <3> QED
      BY ZenonT(60), <2>8, <3>1, <3>3, <3>4
      DEF EnqueueExtracted, Enqueue, TypeInv, TypeOK, CallTypes, Status, Finished
  <2>9. CASE RemoveJob(c)
    <3>1. /\ target[c] \in Jobs
          /\ request[c] \in Requests
          /\ Fits(at[c], request[c])
          /\ at[c] # "idle"
      BY <2>9, BusyCaller DEF RemoveJob
    <3>3. CallTypes' /\ CallInv'
      BY <2>9, <3>1, ReturnKeeps DEF RemoveJob
    <3> QED
      BY <2>9, <3>1, <3>3
      DEF RemoveJob, TypeInv, TypeOK, CallTypes, Status, Finished
  <2> QED  BY <1>20, <2>1, <2>2, <2>3, <2>4, <2>5, <2>6, <2>7, <2>8, <2>9 DEF Handler
<1>21. ASSUME NEW j \in Jobs, CreateJob(j)
      PROVE  TypeInv'
  <2>1. queue' \in Seq(Jobs) /\ position' \in [Jobs -> Nat]
    BY <1>21, EnqueueType DEF CreateJob
  <2> QED  BY ZenonT(60), <1>21, <2>1 DEF CreateJob, Enqueue
<1>22. ASSUME NEW j \in Jobs, RestoreJob(j)
      PROVE  TypeInv'
  BY <1>22 DEF RestoreJob
<1>23. ASSUME NEW c \in Callers, NEW ask \in Asks, Ask(c, ask[2], ask[1])
      PROVE  TypeInv'
  <2>1. ask \in {"cancel", "trash", "delete", "extract"} \X Jobs
    BY QueueAssumption
  <2>2. /\ ask[1] \in Requests
        /\ ask[2] \in Jobs
        /\ <<ask[1], ask[2]>> = ask
    BY <2>1 DEF Requests
  <2>3. CallTypes'
    BY <1>23, <2>2 DEF Ask, CallTypes, TypeInv, TypeOK, CallPcs
  <2>4. CallInv'
    <3>1. ASSUME NEW d \in Callers, d # c
          PROVE  at'[d] = at[d] /\ request'[d] = request[d] /\ target'[d] = target[d]
      BY <1>23, <3>1 DEF Ask, TypeInv, TypeOK
    <3>2. at'[c] = "check" /\ <<request'[c], target'[c]>> \in Asks
      BY <1>23, <2>2 DEF Ask, TypeInv, TypeOK
    <3> QED  BY <3>1, <3>2 DEF CallInv, TypeInv
  <2> QED  BY <1>23, <2>3, <2>4 DEF Ask, CallTypes, TypeInv, TypeOK
<1>24. ASSUME NEW j \in Jobs, NEW after \in Jobs \cup {None}, Reorder(j, after)
      PROVE  TypeInv'
  <2>1. queue' \in Seq(Jobs)
    BY <1>24, ReorderType DEF Reorder
  <2>2. position' = Renumbered(queue', registry)
    BY <1>24 DEF Reorder
  <2>3. position' \in [Jobs -> Nat]
    BY <2>1, <2>2, RenumberedType
  <2>4. UNCHANGED <<jobVars, runningId, paused, wakeVars, workerVars, pipeVars, callVars>>
    BY <1>24 DEF Reorder
  <2> QED  BY SMTT(40), <2>1, <2>3, <2>4
<1>25. CASE StartQueue
  BY ZenonT(60), <1>25 DEF StartQueue
<1>26. CASE UNCHANGED vars
  BY <1>26
<1> QED  BY <1>1, <1>2, <1>3, <1>4, <1>5, <1>6, <1>7, <1>8, <1>9, <1>10, <1>11, <1>12, <1>13, <1>14, <1>15, <1>16, <1>17, <1>18, <1>19, <1>20, <1>21, <1>22, <1>23, <1>24, <1>25, <1>26
         DEF Next, Worker, Pipeline, Client

(* Every variable stays in its type, whatever the interleaving: a handler  *)
(* never acts on no job, the queue never holds anything but job ids.       *)
THEOREM TypeCorrect == SafeSpec => []TypeOK
<1>1. TypeInv => TypeOK
  BY DEF TypeInv
<1> QED  BY <1>1, TypeInit, TypeStep, PTL DEF SafeSpec

-----------------------------------------------------------------------------
(* The consumer between its look at the queue and its sleep: what was       *)
(* enqueued since must still have its wake-up to come, as _wake.clear()     *)
(* will undo any that has been run.                                        *)
WakeInv ==
    /\ NoLostWakeup
    /\ worker = "clear" /\ ~paused /\ queue # <<>> => wakeCall

(* No step leaves the consumer asleep beside work it could take.           *)
LEMMA WakeStep == TypeInv /\ WakeInv /\ [Next]_vars => WakeInv'
<1> SUFFICES ASSUME TypeInv, WakeInv, [Next]_vars PROVE WakeInv'
  OBVIOUS
<1> USE DEF WakeInv, NoLostWakeup
<1>1. CASE GoIdle
  BY <1>1 DEF GoIdle
<1>2. CASE ClearWake
  BY <1>2 DEF ClearWake
<1>3. CASE WakeUp
  BY <1>3 DEF WakeUp
<1>4. CASE PopNext
  BY <1>4 DEF PopNext
<1>5. CASE ForgetDeleted
  BY <1>5 DEF ForgetDeleted
<1>6. CASE FinaliseDropped
  BY <1>6 DEF FinaliseDropped
<1>7. CASE PassCheck
  BY <1>7 DEF PassCheck
<1>8. CASE SetRunning
  BY <1>8 DEF SetRunning
<1>9. CASE StartPipeline
  BY <1>9 DEF StartPipeline
<1>10. CASE DispatchFails
  BY <1>10 DEF DispatchFails
<1>11. CASE ReleaseRunning
  BY <1>11 DEF ReleaseRunning
<1>12. CASE RunnerSettles
  BY <1>12 DEF RunnerSettles
<1>13. CASE ClearFlags
  BY <1>13 DEF ClearFlags
<1>14. CASE MarkDone
  BY <1>14 DEF MarkDone
<1>15. CASE CheckCancel
  BY <1>15 DEF CheckCancel
<1>16. CASE ChildExits
  BY <1>16 DEF ChildExits
<1>17. CASE StageRaises
  BY <1>17 DEF StageRaises
<1>18. CASE TailEnds
  BY <1>18 DEF TailEnds
<1>19. CASE RunWakeCall
  BY <1>19 DEF RunWakeCall, LoopFree
<1>20. ASSUME NEW c \in Callers, Handler(c)
      PROVE  WakeInv'
  <2>1. CASE CheckStatus(c)
    BY <2>1 DEF CheckStatus
  <2>2. CASE SetFlags(c)
    BY <2>2 DEF SetFlags
  <2>3. CASE Discard(c)
    <3>1. queue = <<>> => queue' = queue
      BY <2>3 DEF Discard
    <3> QED  BY <2>3, <3>1 DEF Discard
  <2>4. CASE SettleDiscarded(c)
    BY <2>4 DEF SettleDiscarded
  <2>5. CASE Terminate(c)
    BY <2>5 DEF Terminate
  <2>6. CASE Requeue(c)
    BY <2>6 DEF Requeue
  <2>7. CASE ResetForRerun(c)
    BY <2>7 DEF ResetForRerun
  <2>8. CASE EnqueueExtracted(c)
    BY <2>8 DEF EnqueueExtracted, Enqueue
  <2>9. CASE RemoveJob(c)
    BY <2>9 DEF RemoveJob
  <2> QED  BY <1>20, <2>1, <2>2, <2>3, <2>4, <2>5, <2>6, <2>7, <2>8, <2>9 DEF Handler
<1>21. ASSUME NEW j \in Jobs, CreateJob(j)
      PROVE  WakeInv'
  BY <1>21 DEF CreateJob, Enqueue
<1>22. ASSUME NEW j \in Jobs, RestoreJob(j)
      PROVE  WakeInv'
  BY <1>22 DEF RestoreJob
<1>23. ASSUME NEW c \in Callers, NEW ask \in Asks, Ask(c, ask[2], ask[1])
      PROVE  WakeInv'
  BY <1>23 DEF Ask
<1>24. ASSUME NEW j \in Jobs, NEW after \in Jobs \cup {None}, Reorder(j, after)
      PROVE  WakeInv'
  <2>1. queue # <<>> /\ UNCHANGED <<paused, wakeVars, workerVars>>
    BY <1>24 DEF Reorder
  <2> QED  BY <2>1
<1>25. CASE StartQueue
  BY <1>25 DEF StartQueue
<1>26. CASE UNCHANGED vars
  BY <1>26
<1> QED  BY <1>1, <1>2, <1>3, <1>4, <1>5, <1>6, <1>7, <1>8, <1>9, <1>10, <1>11, <1>12, <1>13, <1>14, <1>15, <1>16, <1>17, <1>18, <1>19, <1>20, <1>21, <1>22, <1>23, <1>24, <1>25, <1>26
         DEF Next, Worker, Pipeline, Client

(* The consumer never sleeps on work it could take: every enqueue(), and    *)
(* every resume(), leaves a wake-up that _wake.clear() cannot undo.         *)
THEOREM WakeupsKept == SafeSpec => []NoLostWakeup
<1>1. Init => WakeInv
  <2> SUFFICES ASSUME Init PROVE WakeInv
    OBVIOUS
  <2>1. PICK waiting \in SUBSET Jobs :
          queue \in SetToSeqs(waiting) /\ paused = (waiting # {})
    BY DEF Init
  <2>2. queue \in Seq(waiting) /\ NoRepeats(queue) /\ ToSet(queue) = waiting
    BY <2>1, QueueAssumption, FS_Subset, SetToSeqsQueue
  <2>3. queue # <<>> => waiting # {}
    BY <2>2, TailQueue
  <2>4. worker = "wait"
    BY DEF Init
  <2> QED  BY <2>1, <2>3, <2>4 DEF WakeInv, NoLostWakeup
<1>2. WakeInv => NoLostWakeup
  BY DEF WakeInv
<1> QED  BY <1>1, <1>2, TypeInit, TypeStep, WakeStep, PTL DEF SafeSpec

-----------------------------------------------------------------------------
(* A job that has not been created is nowhere: no request is about it, it   *)
(* is not queued, held or flagged.  (A uuid4 is not guessed.)              *)
NewInv ==
    \A j \in Jobs : status[j] = "new" =>
        /\ j \notin registry \cup ToSet(queue) \cup trashed \cup cancelReq
        /\ j # held /\ j # runningId
        /\ \A c \in Callers : target[c] # j

RisesOn(q, pos, known) ==
    \A i, k \in DOMAIN q :
        i < k /\ q[i] \in known /\ q[k] \in known => pos[q[i]] < pos[q[k]]

OrderInv == NoRepeats(queue) /\ NewInv /\ RisesOn(queue, position, registry)

(* After a renumbering the positions rise along the queue.                 *)
LEMMA RenumberedRises ==
    ASSUME NEW q \in Seq(Jobs), NoRepeats(q), NEW known
    PROVE  RisesOn(q, Renumbered(q, known), known)
<1> SUFFICES ASSUME NEW i \in DOMAIN q, NEW k \in DOMAIN q, i < k,
                    q[i] \in known, q[k] \in known
             PROVE  Renumbered(q, known)[q[i]] < Renumbered(q, known)[q[k]]
  BY DEF RisesOn
<1>1. Renumbered(q, known)[q[i]] = i - 1 /\ Renumbered(q, known)[q[k]] = k - 1
  BY RenumberedPlace
<1>2. DOMAIN q = 1 .. Len(q) /\ Len(q) \in Nat
  BY LenProperties
<1> QED  BY <1>1, <1>2

(* Positions rising along a queue rise along any part of it, in order.     *)
LEMMA PartRises ==
    ASSUME NEW r, NEW q, InOrderOf(r, q), NEW pos, NEW known, RisesOn(q, pos, known)
    PROVE  RisesOn(r, pos, known)
<1> SUFFICES ASSUME NEW a \in DOMAIN r, NEW b \in DOMAIN r, a < b,
                    r[a] \in known, r[b] \in known
             PROVE  pos[r[a]] < pos[r[b]]
  BY DEF RisesOn
<1>1. PICK i \in DOMAIN q, k \in DOMAIN q : i < k /\ q[i] = r[a] /\ q[k] = r[b]
  BY DEF InOrderOf
<1> QED  BY <1>1 DEF RisesOn

(* What enqueue() leaves in the queue.                                     *)
LEMMA EnqueueQueue ==
    ASSUME NEW j \in Jobs, NEW known, Enqueue(j, known),
           queue \in Seq(Jobs), NoRepeats(queue)
    PROVE  /\ NoRepeats(queue')
           /\ \/ UNCHANGED <<queue, position>> /\ (j \in ToSet(queue) \/ j = runningId)
              \/ /\ ToSet(queue') = ToSet(queue) \cup {j}
                 /\ j \notin ToSet(queue) /\ j # runningId
                 /\ RisesOn(queue', position', known)
<1>1. CASE j \in ToSet(queue) \/ j = runningId
  BY <1>1 DEF Enqueue
<1>2. CASE ~(j \in ToSet(queue) \/ j = runningId)
  <2>1. queue' = Append(queue, j) /\ position' = Renumbered(queue', known)
    BY <1>2 DEF Enqueue
  <2>2. /\ queue' \in Seq(Jobs)
        /\ NoRepeats(queue')
        /\ ToSet(queue') = ToSet(queue) \cup {j}
    BY <1>2, <2>1, AppendQueue
  <2>3. RisesOn(queue', position', known)
    BY <2>1, <2>2, RenumberedRises
  <2> QED  BY <1>2, <2>2, <2>3
<1> QED  BY <1>1, <1>2

(* What a discard leaves.                                                  *)
LEMMA DiscardQueue ==
    ASSUME NEW c \in Callers, Discard(c), queue \in Seq(Jobs), NoRepeats(queue)
    PROVE  /\ queue' \in Seq(Jobs)
           /\ NoRepeats(queue')
           /\ ToSet(queue') = ToSet(queue) \ {target[c]}
           /\ queue' = queue \/ InOrderOf(queue', queue)
           /\ \/ target[c] \in ToSet(queue) /\ GoOn(c, "settle")
              \/ target[c] \notin ToSet(queue) /\ GoOn(c, "terminate")
<1>1. CASE \E i \in DOMAIN queue :
             queue[i] = target[c] /\ queue' = RemoveAt(queue, i) /\ GoOn(c, "settle")
  <2>1. PICK i \in DOMAIN queue :
             queue[i] = target[c] /\ queue' = RemoveAt(queue, i) /\ GoOn(c, "settle")
    BY <1>1
  <2>2. target[c] \in ToSet(queue)
    BY <2>1 DEF ToSet
  <2> QED  BY <2>1, <2>2, RemoveAtQueue
<1>2. CASE target[c] \notin ToSet(queue) /\ GoOn(c, "terminate") /\ UNCHANGED queue
  BY <1>2
<1> QED  BY <1>1, <1>2 DEF Discard

(* A move leaves the same jobs in the queue.                               *)
LEMMA ReorderQueue ==
    ASSUME NEW j \in Jobs, NEW after, Reorder(j, after),
           queue \in Seq(Jobs), NoRepeats(queue)
    PROVE  NoRepeats(queue') /\ ToSet(queue') = ToSet(queue)
<1>1. PICK i \in DOMAIN queue :
        /\ queue[i] = j
        /\ \/ queue' = <<j>> \o RemoveAt(queue, i)
           \/ \E k \in DOMAIN RemoveAt(queue, i) :
                 queue' = InsertAt(RemoveAt(queue, i), k + 1, j)
           \/ queue' = Append(RemoveAt(queue, i), j)
  BY DEF Reorder
<1> DEFINE rest == RemoveAt(queue, i)
<1>2. /\ rest \in Seq(Jobs) /\ NoRepeats(rest)
      /\ ToSet(rest) = ToSet(queue) \ {j}
      /\ DOMAIN rest = 1 .. Len(rest) /\ Len(rest) \in Nat
  BY <1>1, RemoveAtQueue, LenProperties
<1>3. /\ j \in ToSet(queue) /\ j \notin ToSet(rest)
      /\ ToSet(rest) \cup {j} = ToSet(queue)
  <2>1. j \in ToSet(queue)
    BY <1>1 DEF ToSet
  <2> HIDE DEF rest
  <2> QED  BY <1>2, <2>1
<1> HIDE DEF rest
<1>4. CASE queue' = <<j>> \o rest
  <2>1. /\ NoRepeats(<<j>> \o rest)
        /\ ToSet(<<j>> \o rest) = ToSet(rest) \cup {j}
    BY <1>2, <1>3, FrontQueue
  <2> QED  BY <1>3, <1>4, <2>1
<1>5. ASSUME NEW k \in DOMAIN rest, queue' = InsertAt(rest, k + 1, j)
      PROVE  NoRepeats(queue') /\ ToSet(queue') = ToSet(queue)
  <2>1. k + 1 \in 1 .. (Len(rest) + 1)
    BY <1>2
  <2>2. /\ NoRepeats(InsertAt(rest, k + 1, j))
        /\ ToSet(InsertAt(rest, k + 1, j)) = ToSet(rest) \cup {j}
    BY <1>2, <1>3, <2>1, InsertAtQueue
  <2> QED  BY <1>3, <1>5, <2>2
<1>6. CASE queue' = Append(rest, j)
  <2>1. /\ NoRepeats(Append(rest, j))
        /\ ToSet(Append(rest, j)) = ToSet(rest) \cup {j}
    BY <1>2, <1>3, AppendQueue
  <2> QED  BY <1>3, <1>6, <2>1
<1> QED  BY <1>1, <1>4, <1>5, <1>6 DEF rest

(* No step leaves a queue whose positions do not rise along it.            *)
LEMMA OrderStep == TypeInv /\ OrderInv /\ [Next]_vars => OrderInv'
<1> SUFFICES ASSUME TypeInv, OrderInv, [Next]_vars PROVE OrderInv'
  OBVIOUS
<1> USE DEF OrderInv, NewInv, TypeInv, TypeOK
<1>1. CASE GoIdle
  BY <1>1 DEF GoIdle
<1>2. CASE ClearWake
  BY <1>2 DEF ClearWake
<1>3. CASE WakeUp
  BY <1>3 DEF WakeUp
<1>4. CASE PopNext
  <2>1. /\ Head(queue) \in ToSet(queue)
        /\ NoRepeats(queue')
        /\ ToSet(queue') \subseteq ToSet(queue)
        /\ InOrderOf(queue', queue)
    BY <1>4, TailQueue DEF PopNext
  <2>2. RisesOn(queue', position', registry')
    BY <1>4, <2>1, PartRises DEF PopNext
  <2> QED  BY <1>4, <2>1, <2>2 DEF PopNext
<1>5. CASE ForgetDeleted
  BY <1>5, QueueAssumption DEF ForgetDeleted
<1>6. CASE FinaliseDropped
  BY SMTT(30), <1>6, QueueAssumption DEF FinaliseDropped, SettleCancelled
<1>7. CASE PassCheck
  BY <1>7 DEF PassCheck
<1>8. CASE SetRunning
  BY <1>8 DEF SetRunning
<1>9. CASE StartPipeline
  BY <1>9 DEF StartPipeline
<1>10. CASE DispatchFails
  BY <1>10 DEF DispatchFails
<1>11. CASE ReleaseRunning
  BY <1>11, QueueAssumption DEF ReleaseRunning
<1>12. CASE RunnerSettles
  BY <1>12 DEF RunnerSettles, SettleCancelled
<1>13. CASE ClearFlags
  BY <1>13 DEF ClearFlags
<1>14. CASE MarkDone
  BY <1>14 DEF MarkDone
<1>15. CASE CheckCancel
  BY <1>15 DEF CheckCancel
<1>16. CASE ChildExits
  BY <1>16 DEF ChildExits
<1>17. CASE StageRaises
  BY <1>17 DEF StageRaises
<1>18. CASE TailEnds
  BY <1>18 DEF TailEnds
<1>19. CASE RunWakeCall
  BY <1>19 DEF RunWakeCall
<1>20. ASSUME NEW c \in Callers, Handler(c)
      PROVE  OrderInv'
  <2>1. CASE CheckStatus(c)
    BY <2>1, BusyCaller, QueueAssumption DEF CheckStatus, GoOn, Return
  <2>2. CASE SetFlags(c)
    BY <2>2, BusyCaller, QueueAssumption DEF SetFlags, GoOn
  <2>3. CASE Discard(c)
    <3>1. /\ NoRepeats(queue')
          /\ ToSet(queue') \subseteq ToSet(queue)
          /\ queue' = queue \/ InOrderOf(queue', queue)
          /\ UNCHANGED target
      BY <2>3, DiscardQueue DEF GoOn
    <3>2. UNCHANGED <<jobVars, position, runningId, paused, wakeVars, workerVars, pipeVars>>
      BY <2>3 DEF Discard
    <3>3. RisesOn(queue', position', registry')
      BY <3>1, <3>2, PartRises
    <3>4. NewInv'
      BY <3>1, <3>2
    <3> QED  BY <3>1, <3>3, <3>4
  <2>4. CASE SettleDiscarded(c)
    BY SMTT(30), <2>4, BusyCaller, QueueAssumption DEF SettleDiscarded, SettleCancelled, Return
  <2>5. CASE Terminate(c)
    BY <2>5, BusyCaller, QueueAssumption DEF Terminate, Return
  <2>6. CASE Requeue(c)
    BY <2>6, BusyCaller, QueueAssumption DEF Requeue, GoOn, Return
  <2>7. CASE ResetForRerun(c)
    BY <2>7, BusyCaller, QueueAssumption DEF ResetForRerun, GoOn
  <2>8. CASE EnqueueExtracted(c)
    <3>1. target[c] \in Jobs /\ Enqueue(target[c], registry)
          /\ UNCHANGED <<jobVars, runningId, wake, workerVars, pipeVars>> /\ Return(c)
      BY <2>8, BusyCaller DEF EnqueueExtracted
    <3>2. /\ NoRepeats(queue')
          /\ ToSet(queue') \subseteq ToSet(queue) \cup {target[c]}
          /\ RisesOn(queue', position', registry')
      BY <3>1, EnqueueQueue
    <3>3. NewInv'
      BY <3>1, <3>2, QueueAssumption DEF Return
    <3> QED  BY <3>2, <3>3
  <2>9. CASE RemoveJob(c)
    BY <2>9, BusyCaller, QueueAssumption DEF RemoveJob, Return, RisesOn
  <2> QED  BY <1>20, <2>1, <2>2, <2>3, <2>4, <2>5, <2>6, <2>7, <2>8, <2>9 DEF Handler
<1>21. ASSUME NEW j \in Jobs, CreateJob(j)
      PROVE  OrderInv'
  <2>1. /\ status[j] = "new" /\ Enqueue(j, registry \cup {j})
        /\ registry' = registry \cup {j}
        /\ status' = [status EXCEPT ![j] = "queued"]
        /\ UNCHANGED <<cancelReq, stopReq, trashed, runningId, wake, workerVars,
                        pipeVars, callVars>>
    BY <1>21 DEF CreateJob
  <2>2. /\ NoRepeats(queue')
        /\ ToSet(queue') = ToSet(queue) \cup {j}
        /\ RisesOn(queue', position', registry')
    BY <2>1, EnqueueQueue
  <2>3. NewInv'
    BY <2>1, <2>2
  <2> QED  BY <2>2, <2>3
<1>22. ASSUME NEW j \in Jobs, RestoreJob(j)
      PROVE  OrderInv'
  BY <1>22 DEF RestoreJob
<1>23. ASSUME NEW c \in Callers, NEW ask \in Asks, Ask(c, ask[2], ask[1])
      PROVE  OrderInv'
  BY <1>23 DEF Ask
<1>24. ASSUME NEW j \in Jobs, NEW after \in Jobs \cup {None}, Reorder(j, after)
      PROVE  OrderInv'
  <2>1. NoRepeats(queue') /\ ToSet(queue') = ToSet(queue)
    BY <1>24, ReorderQueue
  <2>2. /\ UNCHANGED <<jobVars, runningId, paused, wakeVars, workerVars, pipeVars, callVars>>
        /\ position' = Renumbered(queue', registry)
    BY <1>24 DEF Reorder
  <2>3. RisesOn(queue', position', registry')
    BY <1>24, <2>1, <2>2, ReorderType, RenumberedRises
  <2> QED  BY <2>1, <2>2, <2>3
<1>25. CASE StartQueue
  BY <1>25 DEF StartQueue
<1>26. CASE UNCHANGED vars
  BY <1>26
<1> QED  BY <1>1, <1>2, <1>3, <1>4, <1>5, <1>6, <1>7, <1>8, <1>9, <1>10, <1>11, <1>12, <1>13, <1>14, <1>15, <1>16, <1>17, <1>18, <1>19, <1>20, <1>21, <1>22, <1>23, <1>24, <1>25, <1>26
         DEF Next, Worker, Pipeline, Client

(* The queue that lifespan() fills with the resumed jobs is in order.      *)
LEMMA OrderInit == Init => OrderInv
<1> SUFFICES ASSUME Init PROVE OrderInv
  OBVIOUS
<1>1. PICK waiting \in SUBSET Jobs :
        /\ queue \in SetToSeqs(waiting)
        /\ registry = waiting
        /\ status = [j \in Jobs |-> IF j \in waiting THEN "queued" ELSE "new"]
        /\ position = [j \in Jobs |-> IF j \in waiting
                                      THEN (CHOOSE i \in DOMAIN queue : queue[i] = j) - 1
                                      ELSE 0]
  BY DEF Init
<1>2. queue \in Seq(Jobs) /\ NoRepeats(queue) /\ ToSet(queue) = waiting
  BY <1>1, QueueAssumption, FS_Subset, SetToSeqsQueue, SeqMonotonic
<1>3. NewInv
  <2>1. /\ trashed = {} /\ cancelReq = {} /\ held = None /\ runningId = None
        /\ target = [c \in Callers |-> None]
    BY DEF Init
  <2> QED  BY <1>1, <1>2, <2>1, QueueAssumption DEF NewInv
<1>4. ASSUME NEW i \in DOMAIN queue
      PROVE  position[queue[i]] = i - 1
  <2>1. queue[i] \in waiting
    BY <1>2 DEF ToSet
  <2>2. (CHOOSE k \in DOMAIN queue : queue[k] = queue[i]) = i
    BY <1>2 DEF NoRepeats
  <2> QED  BY <1>1, <2>1, <2>2
<1>5. RisesOn(queue, position, registry)
  <2> SUFFICES ASSUME NEW i \in DOMAIN queue, NEW k \in DOMAIN queue, i < k
               PROVE  position[queue[i]] < position[queue[k]]
    BY DEF RisesOn
  <2>1. DOMAIN queue = 1 .. Len(queue) /\ Len(queue) \in Nat
    BY <1>2, LenProperties
  <2> QED  BY <1>4, <2>1
<1> QED  BY <1>2, <1>3, <1>5 DEF OrderInv

(* The numbers a restart sorts by rise along the queue, through every pop,  *)
(* discard, move and append, for a queue of any length.                    *)
THEOREM OrderKept == SafeSpec => []PositionsFollowQueue
<1>1. OrderInv => PositionsFollowQueue
  BY DEF OrderInv, RisesOn, PositionsFollowQueue
<1> QED  BY <1>1, TypeInit, TypeStep, OrderInit, OrderStep, PTL DEF SafeSpec

-----------------------------------------------------------------------------
(* Who owns a job.                                                         *)

(* Where the consumer stands tells what it holds, what _running_id is and   *)
(* whether there is a pipeline thread.                                     *)
ConsumerInv ==
    /\ IF worker \in {"top", "clear", "wait"} THEN held = None ELSE held \in Jobs
    /\ runningId = IF worker \in {"claimed", "running", "finishing", "release"}
                   THEN held ELSE None
    /\ pipe = "none" <=> worker \notin {"running", "finishing"}
    /\ worker = "finishing" => pipe = "ok"

HasOwner(j) == j \in ToSet(queue) \/ InHand(j) \/ \E c \in Callers : SettledBy(c, j)

Running(j) == held = j /\ worker \in {"running", "finishing"}

(* The inductive form of OneOwner for one job: its three possible owners    *)
(* exclude one another, whoever settles it or stops its run was asked to,  *)
(* and a job on its way can be deleted by nobody.                          *)
Owned(j) ==
    /\ status[j] = "queued" <=> HasOwner(j)
    /\ ~(j \in ToSet(queue) /\ InHand(j))
    /\ \A c \in Callers : SettledBy(c, j) =>
          /\ j \in cancelReq /\ j \notin ToSet(queue) /\ ~InHand(j)
          /\ \A d \in Callers : SettledBy(d, j) => d = c
    /\ \A c \in Callers : at[c] = "discard" /\ target[c] = j /\ status[j] = "queued" =>
          j \in cancelReq
    /\ status[j] = "processing" <=> Running(j)
    /\ pipe = "cancelled" /\ held = j => j \in cancelReq
    /\ status[j] \in {"queued", "processing"} => j \in registry
    /\ \A c \in Callers : at[c] = "remove" /\ target[c] = j => status[j] \in Finished

OwnerInv == \A j \in Steady : Owned(j)

(* Nothing takes a file from a job that may yet need it.                   *)
FileInv ==
    \A j \in Steady \cap Uploads \cap registry :
        status[j] \in {"queued", "processing", "stopped"} => j \in files

(* Steady jobs are jobs.                                                   *)
LEMMA SteadyJobs == Steady \subseteq Jobs
BY DEF Steady

(* The handler of an extraction is about a job that is not Steady.         *)
LEMMA ExtractsOthers ==
    ASSUME TypeInv, NEW c \in Callers, at[c] \in {"requeue", "reset", "enqueue"}
    PROVE  target[c] \in Jobs \ Steady
BY BusyCaller DEF Fits, Steady

(* The consumer, its local job_id and the running slot stay in step.       *)
LEMMA ConsumerStep == TypeInv /\ ConsumerInv /\ [Next]_vars => ConsumerInv'
<1> SUFFICES ASSUME TypeInv, ConsumerInv, [Next]_vars PROVE ConsumerInv'
  OBVIOUS
<1> USE QueueAssumption DEF ConsumerInv, TypeInv, TypeOK
<1>1. CASE GoIdle
  BY <1>1 DEF GoIdle
<1>2. CASE ClearWake
  BY <1>2 DEF ClearWake
<1>3. CASE WakeUp
  BY <1>3 DEF WakeUp
<1>4. CASE PopNext
  BY <1>4, HeadTailProperties DEF PopNext
<1>5. CASE ForgetDeleted
  BY <1>5 DEF ForgetDeleted
<1>6. CASE FinaliseDropped
  BY <1>6 DEF FinaliseDropped
<1>7. CASE PassCheck
  BY <1>7 DEF PassCheck
<1>8. CASE SetRunning
  BY <1>8 DEF SetRunning
<1>9. CASE StartPipeline
  BY <1>9 DEF StartPipeline
<1>10. CASE DispatchFails
  BY <1>10 DEF DispatchFails
<1>11. CASE ReleaseRunning
  BY <1>11 DEF ReleaseRunning
<1>12. CASE RunnerSettles
  BY <1>12 DEF RunnerSettles
<1>13. CASE ClearFlags
  BY <1>13 DEF ClearFlags
<1>14. CASE MarkDone
  BY <1>14 DEF MarkDone
<1>15. CASE CheckCancel
  BY <1>15 DEF CheckCancel
<1>16. CASE ChildExits
  BY <1>16 DEF ChildExits
<1>17. CASE StageRaises
  BY <1>17 DEF StageRaises
<1>18. CASE TailEnds
  BY <1>18 DEF TailEnds
<1>19. CASE RunWakeCall
  BY <1>19 DEF RunWakeCall
<1>20. CASE UNCHANGED <<runningId, workerVars, pipe>>
  BY <1>20
<1>21. ASSUME NEW c \in Callers, Handler(c)
      PROVE  ConsumerInv'
  BY <1>21, <1>20 DEF Handler, CheckStatus, SetFlags, Discard, SettleDiscarded, Terminate, Requeue, ResetForRerun, EnqueueExtracted, RemoveJob
<1>22. ASSUME Client
      PROVE  ConsumerInv'
  BY <1>22, <1>20 DEF Client, CreateJob, RestoreJob, Ask, Reorder, StartQueue
<1> QED  BY <1>1, <1>2, <1>3, <1>4, <1>5, <1>6, <1>7, <1>8, <1>9, <1>10, <1>11, <1>12, <1>13, <1>14, <1>15, <1>16, <1>17, <1>18, <1>19, <1>20, <1>21, <1>22
         DEF Next, Worker, Pipeline

-----------------------------------------------------------------------------
(* No step gives a waiting steady job a second owner, or none.             *)
LEMMA OwnerStep ==
    TypeInv /\ ConsumerInv /\ OrderInv /\ OwnerInv /\ [Next]_vars => OwnerInv'
<1> SUFFICES ASSUME TypeInv, ConsumerInv, OrderInv, OwnerInv, [Next]_vars,
                    NEW j \in Steady
             PROVE  Owned(j)'
  BY DEF OwnerInv, Steady
<1>j. j \in Jobs /\ Owned(j) /\ (status[j] = "new" => ~HasOwner(j) /\ j # held)
  BY SteadyJobs DEF OwnerInv, OrderInv, NewInv, HasOwner, InHand, SettledBy
<1>o. \A k \in Steady : Owned(k)
  BY DEF OwnerInv
<1> USE QueueAssumption DEF TypeInv, TypeOK, ConsumerInv, Owned, HasOwner, Running,
        InHand, SettledBy
<1>1. CASE GoIdle
  BY <1>j, <1>1 DEF GoIdle
<1>2. CASE ClearWake
  BY <1>j, <1>2 DEF ClearWake
<1>3. CASE WakeUp
  BY <1>j, <1>3 DEF WakeUp
<1>4. CASE PopNext
  <2>1. /\ Head(queue) \in ToSet(queue)
        /\ ToSet(queue') = ToSet(queue) \ {Head(queue)}
    BY <1>4, TailQueue DEF PopNext, OrderInv
  <2> QED  BY <1>j, <1>4, <2>1 DEF PopNext
<1>5. CASE ForgetDeleted
  BY <1>j, <1>5 DEF ForgetDeleted
<1>6. CASE FinaliseDropped
  BY <1>j, <1>6 DEF FinaliseDropped, SettleCancelled, Finished
<1>7. CASE PassCheck
  BY <1>j, <1>7 DEF PassCheck
<1>8. CASE SetRunning
  BY <1>j, <1>8 DEF SetRunning
<1>9. CASE StartPipeline
  <2>1. CASE j = held
    <3>1. j \notin ToSet(queue) /\ \A c \in Callers : ~SettledBy(c, j)
      BY <1>j, <1>9, <2>1 DEF StartPipeline
    <3>2. status'[j] = "processing" /\ Running(j)'
      BY <1>9, <2>1, SteadyJobs DEF StartPipeline
    <3> QED  BY <1>j, <1>9, <2>1, <3>1, <3>2 DEF StartPipeline, Finished
  <2>2. CASE j # held
    BY <1>j, <1>9, <2>2 DEF StartPipeline
  <2> QED  BY <2>1, <2>2
<1>10. CASE DispatchFails
  BY <1>j, <1>10 DEF DispatchFails, Finished
<1>11. CASE ReleaseRunning
  BY <1>j, <1>11 DEF ReleaseRunning
<1>12. CASE RunnerSettles
  BY <1>j, <1>12 DEF RunnerSettles, SettleCancelled, Finished
<1>13. CASE ClearFlags
  BY <1>j, <1>13 DEF ClearFlags
<1>14. CASE MarkDone
  BY <1>j, <1>14 DEF MarkDone, Finished
<1>15. CASE CheckCancel
  BY <1>j, <1>15 DEF CheckCancel
<1>16. CASE ChildExits
  BY <1>j, <1>16 DEF ChildExits
<1>17. CASE StageRaises
  BY <1>j, <1>17 DEF StageRaises
<1>18. CASE TailEnds
  BY <1>j, <1>18 DEF TailEnds
<1>19. CASE RunWakeCall
  BY <1>j, <1>19 DEF RunWakeCall
<1>20. ASSUME NEW c \in Callers, Handler(c)
      PROVE  Owned(j)'
  <2>1. CASE CheckStatus(c)
    <3>1. /\ UNCHANGED <<jobVars, queueVars, wakeVars, workerVars, pipeVars>>
          /\ at'[c] \notin {"settle", "discard"}
          /\ at'[c] = "remove" => target'[c] = target[c] /\ status[target[c]] \in Finished
      BY <2>1, BusyCaller DEF CheckStatus, GoOn, Return, MayGoOn, NextPc, Requests
    <3>2. ASSUME NEW d \in Callers, d # c
          PROVE  at'[d] = at[d] /\ target'[d] = target[d]
      BY <2>1, <3>2 DEF CheckStatus, GoOn, Return
    <3>3. at[c] = "check"
      BY <2>1 DEF CheckStatus
    <3>4. ASSUME NEW d \in Callers
          PROVE  /\ SettledBy(d, j)' <=> SettledBy(d, j)
                 /\ at'[d] = "discard" => at[d] = "discard" /\ target'[d] = target[d]
                 /\ at'[d] = "remove" /\ target'[d] = j => status[j] \in Finished
      BY <1>j, <3>1, <3>2, <3>3
    <3> HIDE DEF SettledBy
    <3> QED  BY <1>j, <3>1, <3>4
  <2>2. CASE SetFlags(c)
    BY <1>j, <2>2, BusyCaller DEF SetFlags, GoOn
  <2>3. CASE Discard(c)
    <3>1. /\ ToSet(queue') = ToSet(queue) \ {target[c]}
          /\ \/ target[c] \in ToSet(queue) /\ GoOn(c, "settle")
             \/ target[c] \notin ToSet(queue) /\ GoOn(c, "terminate")
      BY <2>3, DiscardQueue DEF OrderInv
    <3>2. UNCHANGED <<jobVars, position, runningId, paused, wakeVars, workerVars, pipeVars>>
          /\ at[c] = "discard"
      BY <2>3 DEF Discard
    <3>3. ASSUME NEW d \in Callers
          PROVE  /\ target'[d] = target[d]
                 /\ d # c => at'[d] = at[d]
                 /\ at'[c] = IF target[c] \in ToSet(queue) THEN "settle" ELSE "terminate"
      BY <3>1 DEF GoOn
    <3>4. CASE j = target[c]
      <4>1. CASE j \in ToSet(queue)
        <5>1. /\ status[j] = "queued" /\ ~InHand(j) /\ j \in cancelReq
              /\ \A d \in Callers : ~SettledBy(d, j)
          BY <1>j, <3>2, <3>4, <4>1
        <5>2. SettledBy(c, j)' /\ \A d \in Callers : SettledBy(d, j)' => d = c
          BY <3>3, <3>4, <4>1, <5>1
        <5> QED  BY <1>j, <3>1, <3>2, <3>3, <3>4, <4>1, <5>1, <5>2 DEF Finished
      <4>2. CASE j \notin ToSet(queue)
        BY <1>j, <3>1, <3>2, <3>3, <3>4, <4>2
      <4> QED  BY <4>1, <4>2
    <3>5. CASE j # target[c]
      BY <1>j, <3>1, <3>2, <3>3, <3>5
    <3> QED  BY <3>4, <3>5
  <2>4. CASE SettleDiscarded(c)
    BY <1>j, <2>4, BusyCaller DEF SettleDiscarded, SettleCancelled, Return, Finished
  <2>5. CASE Terminate(c)
    BY <1>j, <2>5, BusyCaller DEF Terminate, Return
  <2>6. CASE Requeue(c)
    <3>1. target[c] \in Jobs \ Steady /\ at[c] = "requeue"
          /\ UNCHANGED <<registry, cancelReq, stopReq, trashed, files, queueVars, wakeVars,
                          workerVars, pipeVars>>
      BY <2>6, ExtractsOthers DEF Requeue
    <3>2. status'[j] = status[j]
      BY <1>j, <2>6, <3>1 DEF Requeue
    <3>3. at'[c] \in {"idle", "reset"}
      BY <2>6 DEF Requeue, GoOn, Return
    <3>4. ASSUME NEW d \in Callers, d # c
          PROVE  at'[d] = at[d] /\ target'[d] = target[d]
      BY <2>6, <3>4 DEF Requeue, GoOn, Return
    <3>5. ASSUME NEW d \in Callers
          PROVE  /\ SettledBy(d, j)' <=> SettledBy(d, j)
                 /\ at'[d] = "discard" => at[d] = "discard" /\ target'[d] = target[d]
                 /\ at'[d] = "remove" => at[d] = "remove" /\ target'[d] = target[d]
      BY <3>1, <3>3, <3>4
    <3> HIDE DEF SettledBy
    <3> QED  BY <1>j, <3>1, <3>2, <3>5
  <2>7. CASE ResetForRerun(c)
    BY <1>j, <2>7, ExtractsOthers DEF ResetForRerun, GoOn
  <2>8. CASE EnqueueExtracted(c)
    <3>1. /\ target[c] \in Jobs \ Steady /\ Enqueue(target[c], registry)
          /\ UNCHANGED <<jobVars, runningId, wake, workerVars, pipeVars>> /\ Return(c)
          /\ at[c] = "enqueue"
      BY <2>8, ExtractsOthers DEF EnqueueExtracted
    <3>2. j \in ToSet(queue') <=> j \in ToSet(queue)
      BY <3>1, EnqueueQueue DEF OrderInv
    <3> QED  BY <1>j, <3>1, <3>2 DEF Return
  <2>9. CASE RemoveJob(c)
    BY <1>j, <2>9, BusyCaller DEF RemoveJob, Return, Finished
  <2> QED  BY <1>20, <2>1, <2>2, <2>3, <2>4, <2>5, <2>6, <2>7, <2>8, <2>9 DEF Handler
<1>21. ASSUME NEW k \in Jobs, CreateJob(k)
      PROVE  Owned(j)'
  <2>1. /\ status[k] = "new" /\ Enqueue(k, registry \cup {k})
        /\ registry' = registry \cup {k}
        /\ status' = [status EXCEPT ![k] = "queued"]
        /\ UNCHANGED <<cancelReq, stopReq, trashed, runningId, wake, workerVars,
                        pipeVars, callVars>>
    BY <1>21 DEF CreateJob
  <2>2. k \notin ToSet(queue) /\ k # held /\ k # runningId /\ \A c \in Callers : target[c] # k
    BY <2>1 DEF OrderInv, NewInv
  <2>3. ToSet(queue') = ToSet(queue) \cup {k}
    BY <2>1, <2>2, EnqueueQueue DEF OrderInv
  <2> QED  BY <1>j, <2>1, <2>2, <2>3
<1>22. ASSUME NEW k \in Jobs, RestoreJob(k)
      PROVE  Owned(j)'
  BY <1>j, <1>22 DEF RestoreJob
<1>23. ASSUME NEW c \in Callers, NEW ask \in Asks, Ask(c, ask[2], ask[1])
      PROVE  Owned(j)'
  BY <1>j, <1>23 DEF Ask
<1>24. ASSUME NEW k \in Jobs, NEW after \in Jobs \cup {None}, Reorder(k, after)
      PROVE  Owned(j)'
  <2>1. ToSet(queue') = ToSet(queue)
    BY <1>24, ReorderQueue DEF OrderInv
  <2>2. UNCHANGED <<jobVars, runningId, paused, wakeVars, workerVars, pipeVars, callVars>>
    BY <1>24 DEF Reorder
  <2> QED  BY <1>j, <2>1, <2>2
<1>25. CASE StartQueue
  BY <1>j, <1>25 DEF StartQueue
<1>26. CASE UNCHANGED vars
  BY <1>j, <1>26
<1> QED  BY <1>1, <1>2, <1>3, <1>4, <1>5, <1>6, <1>7, <1>8, <1>9, <1>10, <1>11, <1>12, <1>13, <1>14, <1>15, <1>16, <1>17, <1>18, <1>19, <1>20, <1>21, <1>22, <1>23, <1>24, <1>25, <1>26
         DEF Next, Worker, Pipeline, Client

-----------------------------------------------------------------------------
(* At a fresh start the queue owns every waiting job.                      *)
LEMMA OwnerInit == Init => ConsumerInv /\ OwnerInv
<1> SUFFICES ASSUME Init PROVE ConsumerInv /\ OwnerInv
  OBVIOUS
<1>1. PICK waiting \in SUBSET Jobs :
        /\ queue \in SetToSeqs(waiting)
        /\ registry = waiting
        /\ status = [j \in Jobs |-> IF j \in waiting THEN "queued" ELSE "new"]
  BY DEF Init
<1>2. ToSet(queue) = waiting
  BY <1>1, QueueAssumption, FS_Subset, SetToSeqsQueue
<1>3. /\ runningId = None /\ worker = "wait" /\ held = None /\ pipe = "none"
      /\ at = [c \in Callers |-> "idle"]
      /\ target = [c \in Callers |-> None]
  BY DEF Init
<1>4. ConsumerInv
  BY <1>3 DEF ConsumerInv
<1>5. ASSUME NEW j \in Steady
      PROVE  Owned(j)
  BY <1>1, <1>2, <1>3, SteadyJobs, QueueAssumption
     DEF Owned, HasOwner, InHand, SettledBy, Running
<1> QED  BY <1>4, <1>5 DEF OwnerInv

(* The inductive invariant all the theorems below rest on.                 *)
QueueInv == TypeInv /\ ConsumerInv /\ OrderInv /\ OwnerInv

(* The inductive invariant holds of every reachable state.                 *)
LEMMA QueueInvHolds == SafeSpec => []QueueInv
<1>1. Init => QueueInv
  BY TypeInit, OrderInit, OwnerInit DEF QueueInv
<1>2. QueueInv /\ [Next]_vars => QueueInv'
  BY TypeStep, ConsumerStep, OrderStep, OwnerStep DEF QueueInv
<1> QED  BY <1>1, <1>2, PTL DEF SafeSpec

-----------------------------------------------------------------------------
(* A waiting job has exactly one owner, and no other job has any (#520):    *)
(* for any number of handlers racing over it.                              *)
THEOREM OneOwnerAlways == SafeSpec => []OneOwner
<1>1. QueueInv => OneOwner
  <2> SUFFICES ASSUME QueueInv, NEW j \in Steady
               PROVE  LET slots == {i \in DOMAIN queue : queue[i] = j}
                          hands == {w \in {"consumer"} : InHand(j)}
                          settlers == {c \in Callers : SettledBy(c, j)}
                          owners == Cardinality(slots) + Cardinality(hands) + Cardinality(settlers)
                      IN owners = IF status[j] = "queued" THEN 1 ELSE 0
    BY DEF OneOwner
  <2> DEFINE slots == {i \in DOMAIN queue : queue[i] = j}
             hands == {w \in {"consumer"} : InHand(j)}
             settlers == {c \in Callers : SettledBy(c, j)}
  <2>1. Owned(j) /\ NoRepeats(queue)
    BY DEF QueueInv, OwnerInv, OrderInv
  <2>2. IF j \in ToSet(queue) THEN \E i : slots = {i} ELSE slots = {}
    BY <2>1 DEF NoRepeats, ToSet
  <2>3. IF InHand(j) THEN hands = {"consumer"} ELSE hands = {}
    OBVIOUS
  <2>4. IF \E c \in Callers : SettledBy(c, j) THEN \E c : settlers = {c} ELSE settlers = {}
    BY <2>1 DEF Owned
  <2>5. /\ Cardinality(slots) = IF j \in ToSet(queue) THEN 1 ELSE 0
        /\ Cardinality(hands) = IF InHand(j) THEN 1 ELSE 0
        /\ Cardinality(settlers) = IF \E c \in Callers : SettledBy(c, j) THEN 1 ELSE 0
    <3> HIDE DEF slots, hands, settlers
    <3> QED  BY <2>2, <2>3, <2>4, FS_EmptySet, FS_Singleton
  <2> HIDE DEF slots, hands, settlers
  <2>6. Cardinality(slots) + Cardinality(hands) + Cardinality(settlers) =
            IF status[j] = "queued" THEN 1 ELSE 0
    BY <2>1, <2>5 DEF Owned, HasOwner
  <2> QED  BY <2>6 DEF slots, hands, settlers
<1> QED  BY <1>1, QueueInvHolds, PTL

-----------------------------------------------------------------------------
(* A step that gives one job one new status is a step of JobLifecycle, if   *)
(* the status is one it may get.                                           *)
LEMMA OneStatus ==
    ASSUME TypeInv, NEW k \in Jobs, NEW v,
           status' = [status EXCEPT ![k] = v], UNCHANGED cancelReq,
           k \in Steady =>
              \/ v = status[k]
              \/ status[k] = "new" /\ v = "queued"
              \/ /\ status[k] = "queued" /\ v = "processing"
                 /\ \A m \in Steady : status[m] # "processing"
              \/ status[k] \in {"queued", "processing"} /\ v = "error"
              \/ status[k] = "processing" /\ v = "done"
              \/ /\ status[k] \in {"queued", "processing"} /\ v \in {"cancelled", "stopped"}
                 /\ k \in cancelReq
    PROVE  [Lifecycle!Next]_(Lifecycle!vars)
<1> DEFINE phase == [j \in Steady |-> status[j]]
           phasep == [j \in Steady |-> status'[j]]
           asked == cancelReq \cap Steady
<1>1. status \in [Jobs -> Status] /\ Steady \subseteq Jobs
  BY DEF TypeInv, TypeOK, Steady
<1>2. CASE k \notin Steady \/ v = status[k]
  <2>1. phasep = phase
    BY <1>1, <1>2
  <2> QED  BY <2>1 DEF Lifecycle!vars
<1>3. CASE k \in Steady /\ v # status[k]
  <2>1. phasep = [phase EXCEPT ![k] = v] /\ phase[k] = status[k]
    BY <1>1, <1>3
  <2>2. CASE status[k] = "new" /\ v = "queued"
    <3>1. Lifecycle!Submit(k)
      BY <2>1, <2>2 DEF Lifecycle!Submit
    <3> QED  BY <1>3, <3>1 DEF Lifecycle!Next
  <2>3. CASE status[k] = "queued" /\ v = "processing" /\ \A m \in Steady : status[m] # "processing"
    <3>1. Lifecycle!Begin(k)
      BY <2>1, <2>3 DEF Lifecycle!Begin
    <3> QED  BY <1>3, <3>1 DEF Lifecycle!Next
  <2>4. CASE status[k] \in {"queued", "processing"} /\ v = "error"
    <3>1. Lifecycle!Fail(k)
      BY <2>1, <2>4 DEF Lifecycle!Fail
    <3> QED  BY <1>3, <3>1 DEF Lifecycle!Next
  <2>5. CASE status[k] = "processing" /\ v = "done"
    <3>1. Lifecycle!Complete(k)
      BY <2>1, <2>5 DEF Lifecycle!Complete
    <3> QED  BY <1>3, <3>1 DEF Lifecycle!Next
  <2>6. CASE /\ status[k] \in {"queued", "processing"} /\ v \in {"cancelled", "stopped"}
             /\ k \in cancelReq
    <3>1. Lifecycle!Halt(k)
      BY <1>3, <2>1, <2>6 DEF Lifecycle!Halt
    <3> QED  BY <1>3, <3>1 DEF Lifecycle!Next
  <2> QED  BY <1>3, <2>2, <2>3, <2>4, <2>5, <2>6
<1> QED  BY <1>2, <1>3

(* settle_cancelled() on a job that was asked to stop and has not ended.   *)
LEMMA SettleIsHalt ==
    ASSUME TypeInv, NEW k \in Jobs, SettleCancelled(k), UNCHANGED cancelReq,
           k \in Steady => k \in cancelReq /\ status[k] \in {"queued", "processing"}
    PROVE  [Lifecycle!Next]_(Lifecycle!vars)
<1>1. CASE status' = [status EXCEPT ![k] = "stopped"]
  BY <1>1, OneStatus
<1>2. CASE status' = [status EXCEPT ![k] = "cancelled"]
  BY <1>2, OneStatus
<1> QED  BY <1>1, <1>2 DEF SettleCancelled

(* Every step of the queue is a step of JobLifecycle, or a stutter of it.  *)
LEMMA LifecycleStep == QueueInv /\ [Next]_vars => [Lifecycle!Next]_(Lifecycle!vars)
<1> SUFFICES ASSUME QueueInv, [Next]_vars PROVE [Lifecycle!Next]_(Lifecycle!vars)
  OBVIOUS
<1>t. TypeInv /\ ConsumerInv /\ OwnerInv
  BY DEF QueueInv
<1>s. CASE UNCHANGED <<status, cancelReq>>
  BY <1>s DEF Lifecycle!vars
<1>o. ASSUME NEW k \in Steady
      PROVE  Owned(k)
  BY <1>t DEF OwnerInv
<1>1. CASE GoIdle
  BY <1>1, <1>s DEF GoIdle
<1>2. CASE ClearWake
  BY <1>2, <1>s DEF ClearWake
<1>3. CASE WakeUp
  BY <1>3, <1>s DEF WakeUp
<1>4. CASE PopNext
  BY <1>4, <1>s DEF PopNext
<1>5. CASE ForgetDeleted
  BY <1>5, <1>s DEF ForgetDeleted
<1>6. CASE FinaliseDropped
  <2>1. CASE held \in cancelReq /\ status[held] \notin Finished
    <3>1. held \in Jobs /\ SettleCancelled(held) /\ UNCHANGED cancelReq
      BY <1>6, <1>t, <2>1 DEF FinaliseDropped, ConsumerInv
    <3>2. held \in Steady => status[held] = "queued"
      BY <1>6, <1>o DEF FinaliseDropped, Owned, HasOwner, InHand
    <3> QED  BY <1>t, <2>1, <3>1, <3>2, SettleIsHalt
  <2>2. CASE ~(held \in cancelReq /\ status[held] \notin Finished)
    BY <1>6, <1>s, <2>2 DEF FinaliseDropped
  <2> QED  BY <2>1, <2>2
<1>7. CASE PassCheck
  BY <1>7, <1>s DEF PassCheck
<1>8. CASE SetRunning
  BY <1>8, <1>s DEF SetRunning
<1>9. CASE StartPipeline
  <2>1. held \in Jobs /\ status' = [status EXCEPT ![held] = "processing"] /\ UNCHANGED cancelReq
    BY <1>9, <1>t DEF StartPipeline, ConsumerInv
  <2>2. held \in Steady => status[held] = "queued"
    BY <1>9, <1>o DEF StartPipeline, Owned, HasOwner, InHand
  <2>3. \A m \in Steady : status[m] # "processing"
    BY <1>9, <1>o DEF StartPipeline, Owned, Running
  <2> QED  BY <1>t, <2>1, <2>2, <2>3, OneStatus
<1>10. CASE DispatchFails
  <2>1. held \in Jobs /\ status' = [status EXCEPT ![held] = "error"] /\ UNCHANGED cancelReq
    BY <1>10, <1>t DEF DispatchFails, ConsumerInv
  <2>2. held \in Steady => status[held] = "queued"
    BY <1>10, <1>o DEF DispatchFails, Owned, HasOwner, InHand
  <2> QED  BY <1>t, <2>1, <2>2, OneStatus
<1>11. CASE ReleaseRunning
  BY <1>11, <1>s DEF ReleaseRunning
<1>12. CASE RunnerSettles
  <2>1. held \in Jobs /\ UNCHANGED cancelReq
    BY <1>12, <1>t DEF RunnerSettles, ConsumerInv
  <2>2. held \in Steady => status[held] = "processing"
    BY <1>12, <1>o DEF RunnerSettles, Owned, Running
  <2>3. CASE pipe = "failed" /\ held \notin cancelReq
    <3>1. status' = [status EXCEPT ![held] = "error"]
      BY <1>12, <2>3 DEF RunnerSettles
    <3> QED  BY <1>t, <2>1, <2>2, <3>1, OneStatus
  <2>4. CASE ~(pipe = "failed" /\ held \notin cancelReq)
    <3>1. SettleCancelled(held)
      BY <1>12, <2>4 DEF RunnerSettles
    <3>2. held \in Steady => held \in cancelReq
      BY <1>12, <1>o, <2>4 DEF RunnerSettles, Owned
    <3> QED  BY <1>t, <2>1, <2>2, <3>1, <3>2, SettleIsHalt
  <2> QED  BY <2>3, <2>4
<1>13. CASE ClearFlags
  <2>1. UNCHANGED status /\ cancelReq' = cancelReq \ {held}
    BY <1>13 DEF ClearFlags
  <2>2. CASE held \in Steady
    <3>1. status[held] = "processing"
      BY <1>13, <1>o, <2>2 DEF ClearFlags, Owned, Running
    <3>2. Lifecycle!Overlook(held)
      BY <2>1, <2>2, <3>1 DEF Lifecycle!Overlook
    <3> QED  BY <2>2, <3>2 DEF Lifecycle!Next
  <2>3. CASE held \notin Steady
    BY <2>1, <2>3 DEF Lifecycle!vars
  <2> QED  BY <2>2, <2>3
<1>14. CASE MarkDone
  <2>1. held \in Jobs /\ status' = [status EXCEPT ![held] = "done"] /\ UNCHANGED cancelReq
    BY <1>14, <1>t DEF MarkDone, ConsumerInv
  <2>2. held \in Steady => status[held] = "processing"
    BY <1>14, <1>o DEF MarkDone, Owned, Running
  <2> QED  BY <1>t, <2>1, <2>2, OneStatus
<1>15. CASE CheckCancel
  BY <1>15, <1>s DEF CheckCancel
<1>16. CASE ChildExits
  BY <1>16, <1>s DEF ChildExits
<1>17. CASE StageRaises
  BY <1>17, <1>s DEF StageRaises
<1>18. CASE TailEnds
  BY <1>18, <1>s DEF TailEnds
<1>19. CASE RunWakeCall
  BY <1>19, <1>s DEF RunWakeCall
<1>20. ASSUME NEW c \in Callers, Handler(c)
      PROVE  [Lifecycle!Next]_(Lifecycle!vars)
  <2>1. CASE CheckStatus(c)
    BY <1>s, <2>1 DEF CheckStatus
  <2>2. CASE SetFlags(c)
    <3>1. UNCHANGED status /\ cancelReq' = cancelReq \cup {target[c]}
      BY <2>2 DEF SetFlags
    <3>2. CASE target[c] \in Steady
      <4>1. Lifecycle!AskToStop(target[c])
        BY <3>1, <3>2 DEF Lifecycle!AskToStop
      <4> QED  BY <3>2, <4>1 DEF Lifecycle!Next
    <3>3. CASE target[c] \notin Steady
      BY <3>1, <3>3 DEF Lifecycle!vars
    <3> QED  BY <3>2, <3>3
  <2>3. CASE Discard(c)
    BY <1>s, <2>3 DEF Discard
  <2>4. CASE SettleDiscarded(c)
    <3>1. target[c] \in Jobs /\ SettleCancelled(target[c]) /\ UNCHANGED cancelReq
      BY <1>t, <2>4, BusyCaller DEF SettleDiscarded
    <3>2. target[c] \in Steady => target[c] \in cancelReq /\ status[target[c]] = "queued"
      BY <1>o, <2>4 DEF SettleDiscarded, Owned, HasOwner, SettledBy
    <3> QED  BY <1>t, <3>1, <3>2, SettleIsHalt
  <2>5. CASE Terminate(c)
    BY <1>s, <2>5 DEF Terminate
  <2>6. CASE Requeue(c)
    <3>1. target[c] \in Jobs \ Steady /\ UNCHANGED cancelReq
      BY <1>t, <2>6, ExtractsOthers DEF Requeue
    <3>2. CASE status' = [status EXCEPT ![target[c]] = "queued"]
      BY <1>t, <3>1, <3>2, OneStatus
    <3> QED  BY <1>s, <2>6, <3>1, <3>2 DEF Requeue
  <2>7. CASE ResetForRerun(c)
    <3>1. /\ target[c] \in Jobs \ Steady
          /\ status' = [status EXCEPT ![target[c]] = "queued"]
          /\ cancelReq' = cancelReq \ {target[c]}
      BY <1>t, <2>7, ExtractsOthers DEF ResetForRerun
    <3>2. \A m \in Steady : status'[m] = status[m]
      BY <1>t, <3>1, SteadyJobs DEF TypeInv, TypeOK
    <3>3. cancelReq' \cap Steady = cancelReq \cap Steady
      BY <3>1
    <3> QED  BY <3>2, <3>3 DEF Lifecycle!vars
  <2>8. CASE EnqueueExtracted(c)
    BY <1>s, <2>8 DEF EnqueueExtracted
  <2>9. CASE RemoveJob(c)
    BY <1>s, <2>9 DEF RemoveJob
  <2> QED  BY <1>20, <2>1, <2>2, <2>3, <2>4, <2>5, <2>6, <2>7, <2>8, <2>9 DEF Handler
<1>21. ASSUME NEW j \in Jobs, CreateJob(j)
      PROVE  [Lifecycle!Next]_(Lifecycle!vars)
  <2>1. /\ status[j] = "new" /\ status' = [status EXCEPT ![j] = "queued"]
        /\ UNCHANGED cancelReq
    BY <1>21 DEF CreateJob
  <2> QED  BY <1>t, <2>1, OneStatus
<1>22. ASSUME NEW j \in Jobs, RestoreJob(j)
      PROVE  [Lifecycle!Next]_(Lifecycle!vars)
  BY <1>s, <1>22 DEF RestoreJob
<1>23. ASSUME NEW c \in Callers, NEW ask \in Asks, Ask(c, ask[2], ask[1])
      PROVE  [Lifecycle!Next]_(Lifecycle!vars)
  BY <1>s, <1>23 DEF Ask
<1>24. ASSUME NEW j \in Jobs, NEW after \in Jobs \cup {None}, Reorder(j, after)
      PROVE  [Lifecycle!Next]_(Lifecycle!vars)
  <2>1. UNCHANGED <<status, cancelReq>>
    BY <1>24 DEF Reorder
  <2> QED  BY <1>s, <2>1
<1>25. CASE StartQueue
  BY <1>s, <1>25 DEF StartQueue
<1>26. CASE UNCHANGED vars
  BY <1>s, <1>26
<1> QED  BY <1>s, <1>1, <1>2, <1>3, <1>4, <1>5, <1>6, <1>7, <1>8, <1>9, <1>10, <1>11, <1>12, <1>13, <1>14, <1>15, <1>16, <1>17, <1>18, <1>19, <1>20, <1>21, <1>22, <1>23, <1>24, <1>25, <1>26
         DEF Next, Worker, Pipeline, Client

(* The queue with all its threads and flags implements the life of an       *)
(* import: one job runs at a time, each ends once, and none is cancelled   *)
(* or stopped unasked.                                                     *)
THEOREM LifecycleImplemented == SafeSpec => ImplementsLifecycle
<1>1. Init => Lifecycle!Init
  <2> SUFFICES ASSUME Init PROVE Lifecycle!Init
    OBVIOUS
  <2>1. PICK waiting \in SUBSET Jobs :
          status = [j \in Jobs |-> IF j \in waiting THEN "queued" ELSE "new"]
    BY DEF Init
  <2>2. cancelReq = {}
    BY DEF Init
  <2> QED  BY <2>1, <2>2, SteadyJobs DEF Lifecycle!Init
<1> QED  BY <1>1, QueueInvHolds, LifecycleStep, PTL
         DEF SafeSpec, ImplementsLifecycle, Lifecycle!Spec

(* Once a job is done, failed, cancelled or stopped it stays so.           *)
THEOREM SettledStays == SafeSpec => SettledForGood
<1>1. ASSUME QueueInv, [Lifecycle!Next]_(Lifecycle!vars), NEW j \in Steady,
             status[j] \in Finished
      PROVE  status'[j] = status[j]
  BY <1>1 DEF Lifecycle!Next, Lifecycle!vars, Lifecycle!Submit, Lifecycle!Begin,
          Lifecycle!Fail, Lifecycle!Complete, Lifecycle!AskToStop, Lifecycle!Overlook,
          Lifecycle!Halt, Finished
<1>2. QueueInv /\ [Next]_vars =>
          [\A j \in Steady : status[j] \in Finished => status'[j] = status[j]]_vars
  BY <1>1, LifecycleStep
<1> QED  BY <1>2, QueueInvHolds, PTL DEF SafeSpec, SettledForGood

-----------------------------------------------------------------------------
HasFile(j) ==
    j \in registry /\ status[j] \in {"queued", "processing", "stopped"} => j \in files

(* No step removes the source of a job that is or will be stopped.         *)
LEMMA FileStep == QueueInv /\ FileInv /\ [Next]_vars => FileInv'
<1> SUFFICES ASSUME QueueInv, FileInv, [Next]_vars, NEW j \in Steady \cap Uploads
             PROVE  HasFile(j)'
  BY DEF FileInv, HasFile, Steady
<1>j. j \in Jobs /\ Owned(j) /\ HasFile(j)
  BY SteadyJobs DEF FileInv, HasFile, QueueInv, OwnerInv
<1>t. TypeInv /\ ConsumerInv /\ OrderInv
  BY DEF QueueInv
<1>s. CASE UNCHANGED <<registry, status, files>>
  BY <1>j, <1>s DEF HasFile
<1>1. CASE GoIdle
  BY <1>s, <1>1 DEF GoIdle
<1>2. CASE ClearWake
  BY <1>s, <1>2 DEF ClearWake
<1>3. CASE WakeUp
  BY <1>s, <1>3 DEF WakeUp
<1>4. CASE PopNext
  BY <1>s, <1>4 DEF PopNext
<1>5. CASE ForgetDeleted
  BY <1>s, <1>5 DEF ForgetDeleted
<1>6. CASE FinaliseDropped
  BY <1>j, <1>t, <1>6
     DEF FinaliseDropped, SettleCancelled, Owned, HasOwner, InHand, HasFile, TypeInv, TypeOK, ConsumerInv, Finished
<1>7. CASE PassCheck
  BY <1>s, <1>7 DEF PassCheck
<1>8. CASE SetRunning
  BY <1>s, <1>8 DEF SetRunning
<1>9. CASE StartPipeline
  BY <1>j, <1>t, <1>9
     DEF StartPipeline, Owned, HasOwner, InHand, HasFile, TypeInv, TypeOK, ConsumerInv, Finished
<1>10. CASE DispatchFails
  BY <1>j, <1>t, <1>10
     DEF DispatchFails, HasFile, TypeInv, TypeOK, ConsumerInv, Finished
<1>11. CASE ReleaseRunning
  BY <1>s, <1>11 DEF ReleaseRunning
<1>12. CASE RunnerSettles
  BY <1>j, <1>t, <1>12
     DEF RunnerSettles, SettleCancelled, Owned, Running, HasFile, TypeInv, TypeOK, ConsumerInv, Finished
<1>13. CASE ClearFlags
  BY <1>s, <1>13 DEF ClearFlags
<1>14. CASE MarkDone
  BY <1>j, <1>t, <1>14
     DEF MarkDone, HasFile, TypeInv, TypeOK, ConsumerInv, Finished
<1>15. CASE CheckCancel
  BY <1>s, <1>15 DEF CheckCancel
<1>16. CASE ChildExits
  BY <1>s, <1>16 DEF ChildExits
<1>17. CASE StageRaises
  BY <1>s, <1>17 DEF StageRaises
<1>18. CASE TailEnds
  BY <1>s, <1>18 DEF TailEnds
<1>19. CASE RunWakeCall
  BY <1>s, <1>19 DEF RunWakeCall
<1>20. ASSUME NEW c \in Callers, Handler(c)
      PROVE  HasFile(j)'
  <2>1. CASE CheckStatus(c)
    BY <1>s, <2>1 DEF CheckStatus
  <2>2. CASE SetFlags(c)
    BY <1>s, <2>2 DEF SetFlags
  <2>3. CASE Discard(c)
    BY <1>s, <2>3 DEF Discard
  <2>4. CASE SettleDiscarded(c)
    BY <1>j, <1>t, <2>4, BusyCaller
       DEF SettleDiscarded, SettleCancelled, SettledBy, HasFile, Owned, HasOwner, TypeInv, TypeOK
  <2>5. CASE Terminate(c)
    BY <1>s, <2>5 DEF Terminate
  <2>6. CASE Requeue(c)
    <3>1. status'[j] = status[j] /\ UNCHANGED <<registry, files>>
      BY <1>j, <1>t, <2>6, ExtractsOthers DEF Requeue, TypeInv, TypeOK
    <3> QED  BY <1>j, <3>1 DEF HasFile
  <2>7. CASE ResetForRerun(c)
    <3>1. status'[j] = status[j] /\ UNCHANGED <<registry, files>>
      BY <1>j, <1>t, <2>7, ExtractsOthers DEF ResetForRerun, TypeInv, TypeOK
    <3> QED  BY <1>j, <3>1 DEF HasFile
  <2>8. CASE EnqueueExtracted(c)
    BY <1>s, <2>8 DEF EnqueueExtracted
  <2>9. CASE RemoveJob(c)
    BY <1>j, <2>9 DEF RemoveJob, HasFile
  <2> QED  BY <1>20, <2>1, <2>2, <2>3, <2>4, <2>5, <2>6, <2>7, <2>8, <2>9 DEF Handler
<1>21. ASSUME NEW k \in Jobs, CreateJob(k)
      PROVE  HasFile(j)'
  BY <1>j, <1>t, <1>21 DEF CreateJob, HasFile, TypeInv, TypeOK
<1>22. ASSUME NEW k \in Jobs, RestoreJob(k)
      PROVE  HasFile(j)'
  BY <1>s, <1>22 DEF RestoreJob
<1>23. ASSUME NEW c \in Callers, NEW ask \in Asks, Ask(c, ask[2], ask[1])
      PROVE  HasFile(j)'
  BY <1>s, <1>23 DEF Ask
<1>24. ASSUME NEW k \in Jobs, NEW after \in Jobs \cup {None}, Reorder(k, after)
      PROVE  HasFile(j)'
  <2>1. UNCHANGED <<registry, status, files>>
    BY <1>24 DEF Reorder
  <2> QED  BY <1>s, <2>1
<1>25. CASE StartQueue
  BY <1>s, <1>25 DEF StartQueue
<1>26. CASE UNCHANGED vars
  BY <1>s, <1>26
<1> QED  BY <1>s, <1>1, <1>2, <1>3, <1>4, <1>5, <1>6, <1>7, <1>8, <1>9, <1>10, <1>11, <1>12, <1>13, <1>14, <1>15, <1>16, <1>17, <1>18, <1>19, <1>20, <1>21, <1>22, <1>23, <1>24, <1>25, <1>26
         DEF Next, Worker, Pipeline, Client

(* A job stopped from the Trash has its uploaded file, whichever of the     *)
(* handler, the consumer and the runner settled it (#748).                 *)
THEOREM StoppedKeepsFiles == SafeSpec => []StopKeepsFiles
<1>1. Init => FileInv
  <2> SUFFICES ASSUME Init, NEW j \in Uploads \cap registry PROVE j \in files
    BY DEF FileInv
  <2>1. files = registry \cap Uploads
    BY DEF Init
  <2> QED  BY <2>1
<1>2. FileInv => StopKeepsFiles
  BY DEF FileInv, StopKeepsFiles
<1> QED  BY <1>1, <1>2, QueueInvHolds, FileStep, PTL DEF SafeSpec

-----------------------------------------------------------------------------
Stops(j) == j \in registry \cap trashed => StopsIfUnfinished(j)

(* No step leaves a song of the Trash waiting or running unasked.          *)
LEMMA TrashStep == QueueInv /\ TrashStops /\ [Next]_vars => TrashStops'
<1> SUFFICES ASSUME QueueInv, TrashStops, [Next]_vars, NEW j \in Steady
             PROVE  Stops(j)'
  BY DEF TrashStops, Stops, Steady
<1>j. j \in Jobs /\ Owned(j) /\ Stops(j) /\ (status[j] = "new" => j \notin trashed)
  BY SteadyJobs DEF TrashStops, Stops, QueueInv, OwnerInv, OrderInv, NewInv
<1>t. TypeInv /\ ConsumerInv
  BY DEF QueueInv
<1> USE DEF Stops, StopsIfUnfinished, AskedToStop, TypeInv, TypeOK
<1>1. CASE GoIdle
  BY <1>j, <1>t, <1>1 DEF GoIdle, ConsumerInv
<1>2. CASE ClearWake
  BY <1>j, <1>t, <1>2 DEF ClearWake, ConsumerInv
<1>3. CASE WakeUp
  BY <1>j, <1>t, <1>3 DEF WakeUp, ConsumerInv
<1>4. CASE PopNext
  BY <1>j, <1>t, <1>4 DEF PopNext, ConsumerInv
<1>5. CASE ForgetDeleted
  BY <1>j, <1>t, <1>5 DEF ForgetDeleted, ConsumerInv
<1>6. CASE FinaliseDropped
  BY <1>j, <1>t, <1>6 DEF FinaliseDropped, ConsumerInv, SettleCancelled
<1>7. CASE PassCheck
  BY <1>j, <1>t, <1>7 DEF PassCheck, ConsumerInv
<1>8. CASE SetRunning
  BY <1>j, <1>t, <1>8 DEF SetRunning, ConsumerInv
<1>9. CASE StartPipeline
  BY <1>j, <1>t, <1>9 DEF StartPipeline, ConsumerInv, Owned, HasOwner, InHand
<1>10. CASE DispatchFails
  BY <1>j, <1>t, <1>10 DEF DispatchFails, ConsumerInv
<1>11. CASE ReleaseRunning
  BY <1>j, <1>t, <1>11 DEF ReleaseRunning, ConsumerInv
<1>12. CASE RunnerSettles
  BY <1>j, <1>t, <1>12 DEF RunnerSettles, ConsumerInv, SettleCancelled
<1>13. CASE ClearFlags
  BY <1>j, <1>t, <1>13 DEF ClearFlags, ConsumerInv
<1>14. CASE MarkDone
  BY <1>j, <1>t, <1>14 DEF MarkDone, ConsumerInv
<1>15. CASE CheckCancel
  BY <1>j, <1>t, <1>15 DEF CheckCancel, ConsumerInv
<1>16. CASE ChildExits
  BY <1>j, <1>t, <1>16 DEF ChildExits, ConsumerInv
<1>17. CASE StageRaises
  BY <1>j, <1>t, <1>17 DEF StageRaises, ConsumerInv
<1>18. CASE TailEnds
  BY <1>j, <1>t, <1>18 DEF TailEnds, ConsumerInv
<1>19. CASE RunWakeCall
  BY <1>j, <1>t, <1>19 DEF RunWakeCall, ConsumerInv
<1>20. ASSUME NEW c \in Callers, Handler(c)
      PROVE  Stops(j)'
  <2>1. CASE CheckStatus(c)
    BY <1>j, <1>t, <2>1, BusyCaller DEF CheckStatus, GoOn, Return, MayGoOn, NextPc, Finished
  <2>2. CASE SetFlags(c)
    BY <1>j, <1>t, <2>2, BusyCaller DEF SetFlags, GoOn
  <2>3. CASE Discard(c)
    BY <1>j, <1>t, <2>3, BusyCaller DEF Discard, GoOn
  <2>4. CASE SettleDiscarded(c)
    BY <1>j, <1>t, <2>4, BusyCaller DEF SettleDiscarded, SettleCancelled, Return
  <2>5. CASE Terminate(c)
    BY <1>j, <1>t, <2>5, BusyCaller DEF Terminate, Return
  <2>6. CASE Requeue(c)
    BY <1>j, <1>t, <2>6, ExtractsOthers DEF Requeue, GoOn, Return
  <2>7. CASE ResetForRerun(c)
    BY <1>j, <1>t, <2>7, ExtractsOthers DEF ResetForRerun, GoOn
  <2>8. CASE EnqueueExtracted(c)
    BY <1>j, <1>t, <2>8, BusyCaller DEF EnqueueExtracted, Return
  <2>9. CASE RemoveJob(c)
    BY <1>j, <1>t, <2>9, BusyCaller DEF RemoveJob, Return
  <2> QED  BY <1>20, <2>1, <2>2, <2>3, <2>4, <2>5, <2>6, <2>7, <2>8, <2>9 DEF Handler
<1>21. ASSUME NEW k \in Jobs, CreateJob(k)
      PROVE  Stops(j)'
  BY <1>j, <1>t, <1>21 DEF CreateJob
<1>22. ASSUME NEW k \in Jobs, RestoreJob(k)
      PROVE  Stops(j)'
  BY <1>j, <1>t, <1>22 DEF RestoreJob
<1>23. ASSUME NEW c \in Callers, NEW ask \in Asks, Ask(c, ask[2], ask[1])
      PROVE  Stops(j)'
  BY <1>j, <1>t, <1>23 DEF Ask
<1>24. ASSUME NEW k \in Jobs, NEW after \in Jobs \cup {None}, Reorder(k, after)
      PROVE  Stops(j)'
  <2>1. UNCHANGED <<jobVars, workerVars, callVars>>
    BY <1>24 DEF Reorder
  <2> QED  BY <1>j, <2>1
<1>25. CASE StartQueue
  BY <1>j, <1>25 DEF StartQueue
<1>26. CASE UNCHANGED vars
  BY <1>j, <1>26
<1> QED  BY <1>1, <1>2, <1>3, <1>4, <1>5, <1>6, <1>7, <1>8, <1>9, <1>10, <1>11, <1>12, <1>13, <1>14, <1>15, <1>16, <1>17, <1>18, <1>19, <1>20, <1>21, <1>22, <1>23, <1>24, <1>25, <1>26
         DEF Next, Worker, Pipeline, Client

(* A song in the Trash is not left waiting or running.                     *)
THEOREM TrashAlwaysStops == SafeSpec => []TrashStops
<1>1. Init => TrashStops
  <2> SUFFICES ASSUME Init PROVE TrashStops
    OBVIOUS
  <2>1. trashed = {}
    BY DEF Init
  <2> QED  BY <2>1 DEF TrashStops
<1> QED  BY <1>1, QueueInvHolds, TrashStep, PTL DEF SafeSpec
=============================================================================

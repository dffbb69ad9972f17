------------------------------- MODULE JobStream -------------------------------
(***************************************************************************)
(* A job's progress as its streams tell it (app/core/models.py,            *)
(* app/api/events.py): the pipeline thread writes the fields of the job one*)
(* by one and its version last, and each stream, in the event loop, reads  *)
(* the version, the fields one by one, and the version again.  With it the *)
(* connection slots all streams share.                                     *)
(*                                                                         *)
(* Left out: the fields but three, keep-alives, and what a client does     *)
(* with a frame (PageStudio).                                              *)
(***************************************************************************)
EXTENDS Naturals, FiniteSets, SequencesExt

CONSTANTS
    Streams,   \* connections that clients may open
    MaxSse,    \* _MAX_SSE_CONNECTIONS
    Texts,     \* what a field may hold
    JobRuns    \* the sequences of _set() calls a job may go through

VARIABLES
    told,      \* the job's fields and its version
    script,    \* the _set() calls of this run, each a sequence of <<field, value>>
    setCalls,  \* how many of them have begun
    writes,    \* what is left of the one under way
    streams,   \* where each stream stands
    sseActive  \* _sse_active

streamVars == <<told, script, setCalls, writes, streams, sseActive>>

(* In the order to_state() reads them.                                     *)
StateFields == <<"status", "stage", "error">>
FieldNames == {"status", "stage", "error"}

ASSUME StreamAssumption ==
    /\ IsFiniteSet(Streams) /\ MaxSse \in Nat
    /\ {"", "queued", "Queued"} \subseteq Texts
    /\ JobRuns \subseteq Seq(Seq(FieldNames \X Texts))

EndStatuses == {"done", "error", "cancelled", "stopped"}

NewFrame == [f \in FieldNames |-> ""]
QueuedFields == [NewFrame EXCEPT !["status"] = "queued", !["stage"] = "Queued"]
NoStream == [at |-> "off", version |-> 0, last |-> 0, read |-> 0, frame |-> NewFrame, sent |-> NewFrame]

StreamInit ==
    /\ script \in JobRuns /\ setCalls = 0 /\ writes = <<>>
    /\ told = [fields |-> QueuedFields, version |-> 1]
    /\ streams = [s \in Streams |-> NoStream]
    /\ sseActive = 0

----------------------------------------------------------------------------
(* _set(): the fields as they were given, then the version.                *)

(* A bug to catch: the version first, as a change that is announced.       *)
SetAnnouncing ==
    /\ writes = <<>> /\ setCalls < Len(script) /\ setCalls' = setCalls + 1
    /\ writes' = script[setCalls + 1]
    /\ told' = [told EXCEPT !.version = @ + 1]
    /\ UNCHANGED <<script, streams, sseActive>>

SetBegins ==
    /\ writes = <<>> /\ setCalls < Len(script) /\ setCalls' = setCalls + 1
    /\ writes' = Append(script[setCalls + 1], <<"version", "">>)
    /\ UNCHANGED <<told, script, streams, sseActive>>

SetWrites ==
    /\ writes # <<>> /\ writes' = Tail(writes)
    /\ told' = IF Head(writes)[1] = "version" THEN [told EXCEPT !.version = @ + 1]
              ELSE [told EXCEPT !.fields[Head(writes)[1]] = Head(writes)[2]]
    /\ UNCHANGED <<script, setCalls, streams, sseActive>>

----------------------------------------------------------------------------
(* A stream.  Its slot is claimed by the handler and given back when the   *)
(* body ends, or when one that never began is collected.                   *)

(* No await between the two reads of a version: one stream at a time.      *)
LoopIsFree == \A s \in Streams : streams[s].at # "reading"

ClaimSlot(s) ==
    /\ streams[s].at = "off" /\ LoopIsFree
    /\ \/ /\ sseActive < MaxSse
          /\ sseActive' = sseActive + 1
          /\ streams' = [streams EXCEPT ![s] = [NoStream EXCEPT !.at = "claimed"]]
       \/ /\ sseActive >= MaxSse
          /\ streams' = [streams EXCEPT ![s].at = "refused"] /\ UNCHANGED sseActive
    /\ UNCHANGED <<told, script, setCalls, writes>>

(* release(): once for each slot, whoever comes first.                     *)
ReleaseSlot(s) ==
    /\ streams' = [streams EXCEPT ![s].at = "closed"]
    /\ sseActive' = sseActive - 1

Collected(s) ==
    /\ streams[s].at = "claimed" /\ ReleaseSlot(s)
    /\ UNCHANGED <<told, script, setCalls, writes>>

(* The loop's turn: a version not sent yet is read; a job that has ended   *)
(* closes the stream.                                                      *)
SseTurn(s) ==
    /\ streams[s].at \in {"claimed", "turn"} /\ LoopIsFree
    /\ IF told.version # streams[s].last
       THEN /\ streams' = [streams EXCEPT ![s].at = "reading", ![s].version = told.version,
                                           ![s].read = 0, ![s].frame = NewFrame]
            /\ UNCHANGED sseActive
       ELSE told.fields["status"] \in EndStatuses /\ ReleaseSlot(s)
    /\ UNCHANGED <<told, script, setCalls, writes>>

ReadField(s) ==
    /\ streams[s].at = "reading" /\ streams[s].read < Len(StateFields)
    /\ LET f == StateFields[streams[s].read + 1]
       IN streams' = [streams EXCEPT ![s].read = @ + 1, ![s].frame[f] = told.fields[f]]
    /\ UNCHANGED <<told, script, setCalls, writes, sseActive>>

(* The same version still: the frame is sent; else it is read again.       *)
SendOrRetry(s) ==
    /\ streams[s].at = "reading" /\ streams[s].read = Len(StateFields)
    /\ LET mine == streams[s]
       IN streams' = [streams EXCEPT ![s] =
            IF told.version # mine.version THEN [mine EXCEPT !.at = "turn"]
            ELSE [mine EXCEPT !.sent = mine.frame, !.last = mine.version,
                              !.at = IF mine.frame["status"] \in EndStatuses THEN "ending" ELSE "turn"]]
    /\ UNCHANGED <<told, script, setCalls, writes, sseActive>>

(* The frame of an end was the last; the client leaves, or four hours are  *)
(* over, at any time.                                                      *)
StreamEnds(s) ==
    /\ streams[s].at \in {"turn", "ending"} /\ LoopIsFree /\ ReleaseSlot(s)
    /\ UNCHANGED <<told, script, setCalls, writes>>

StreamNext ==
    \/ SetBegins \/ SetWrites
    \/ \E s \in Streams : \/ ClaimSlot(s) \/ Collected(s) \/ SseTurn(s) \/ ReadField(s)
                          \/ SendOrRetry(s) \/ StreamEnds(s)

StreamSpec == StreamInit /\ [][StreamNext]_streamVars

----------------------------------------------------------------------------
(* The slots taken are those of the streams that are open, and a stream    *)
(* that has caught up shows the job as it is once no _set() is under way.  *)
HoldsSlot(s) == streams[s].at \in {"claimed", "turn", "reading", "ending"}
CaughtUp(s) == streams[s].at = "turn" /\ streams[s].last = told.version

StreamsAreTrue ==
    /\ sseActive = Cardinality({s \in Streams : HoldsSlot(s)}) /\ sseActive <= MaxSse
    /\ \A s \in Streams : CaughtUp(s) /\ writes = <<>> => streams[s].sent = told.fields

(* The client never sees the fields of before and after one _set() mixed.  *)
AfterCalls(n) ==
    FoldLeft(LAMBDA fields, w : [fields EXCEPT ![w[1]] = w[2]], QueuedFields,
             FlattenSeq(SubSeq(script, 1, n)))
FramesAreWhole ==
    \A s \in Streams : streams[s].sent = NewFrame \/ \E n \in 0..Len(script) : streams[s].sent = AfterCalls(n)
=============================================================================

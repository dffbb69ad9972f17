---------------------------- MODULE MCImportQueue ----------------------------
(* Instances of ImportQueue for TLC: an upload u1, links l1 and l2, and    *)
(* one or two threadpool threads.                                          *)
EXTENDS ImportQueue
CONSTANTS u1, l1, l2, c1, c2

(* Any two threadpool threads are interchangeable.                         *)
AnyCaller == Permutations(Callers)

(* Two handlers racing each other, the consumer and the runner over the    *)
(* same job: every way to stop either job.                                 *)
StopAsks == {"cancel", "trash"} \X {u1, l1}

(* An upload that is trashed, extracted again and deleted under the         *)
(* handlers' feet, beside a link nobody asks about.                         *)
ExtractAsks == {"trash", "delete", "extract"} \X {u1}

(* For the liveness properties: nothing is deleted.                        *)
LivenessAsks == StopAsks \cup {<<"extract", l1>>}
=============================================================================

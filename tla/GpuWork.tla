-------------------------------- MODULE GpuWork --------------------------------
(***************************************************************************)
(* The two users of the GPU next to each other: the separations of the     *)
(* import pipeline with the demucs process that they keep, and the lyric   *)
(* timings.  They share no variable: the pipeline lock of LyricRuns stands *)
(* for the import that may hold it.                                        *)
(***************************************************************************)
EXTENDS DemucsWorker, LyricRuns

GpuWorkSpec == SepSpec /\ LyricRunsSpec

(* The runs on the GPU: a lyric timing keeps its word, and a separation    *)
(* gets a clean process.                                                   *)
GpuWorkIsSound == RunsKeepTheirWord /\ WorkersAreClean
=============================================================================

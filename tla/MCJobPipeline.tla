--------------------------- MODULE MCJobPipeline ---------------------------
(***************************************************************************)
(* Instances of JobPipeline for TLC.  Jobs, workers and roots are model    *)
(* values; nothing in JobPipeline distinguishes two workers, two roots or  *)
(* two index jobs, so the safety runs may permute them.                    *)
(***************************************************************************)
EXTENDS JobPipeline, TLC

IndexSymmetry ==
  Permutations(Workers) \cup Permutations(Roots)
    \cup Permutations(Jobs \ CrawlJobs)
=============================================================================

--------------------------- MODULE MCCldyUploader ---------------------------
(* Model-checking definitions for CldyUploader. *)
EXTENDS CldyUploader, TLC

\* Sample and tar names are interchangeable: nothing orders or singles them out.
Symmetry == Permutations(Sample) \cup Permutations(Tar)
=============================================================================

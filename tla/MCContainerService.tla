------------------------- MODULE MCContainerService -------------------------
(* ContainerService on small sets of model values. *)
EXTENDS ContainerServiceProps, TLC

\* Containers with the same credentials, slots and jobs are interchangeable.
SlotsAndJobs == Permutations(Caller) \cup Permutations(JobId)
=============================================================================

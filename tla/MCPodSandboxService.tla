------------------------ MODULE MCPodSandboxService ------------------------
(* PodSandboxService on small sets of model values. *)
EXTENDS PodSandboxServiceProps, TLC

\* Slots, records and containers are interchangeable.
Interchangeable ==
  Permutations(Caller) \cup Permutations(Record) \cup Permutations(Container)
=============================================================================

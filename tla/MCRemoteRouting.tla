-------------------------- MODULE MCRemoteRouting --------------------------
(* RemoteRouting on small sets of model values. *)
EXTENDS RemoteRoutingProps
=============================================================================

-------------------------- MODULE MCScriptStaging --------------------------
(* ScriptStaging on small sets of model values. *)
EXTENDS ScriptStagingProps
=============================================================================

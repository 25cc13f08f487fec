---------------------------- MODULE MCEventBuffer ----------------------------
(* Model-checking instances of EventBuffer: workspaces and callers are model *)
(* values.                                                                 *)
EXTENDS EventBuffer
=============================================================================

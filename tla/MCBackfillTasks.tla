--------------------------- MODULE MCBackfillTasks ---------------------------
(* Model-checking instance of BackfillTasks: tasks and the workspace they    *)
(* share are model values.                                                 *)
EXTENDS BackfillTasks
=============================================================================

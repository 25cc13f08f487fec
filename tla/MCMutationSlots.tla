--------------------------- MODULE MCMutationSlots ---------------------------
(* Model-checking instances of MutationSlots: processors are model values. *)
EXTENDS MutationSlots
=============================================================================

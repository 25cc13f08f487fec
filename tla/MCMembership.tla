---------------------------- MODULE MCMembership ----------------------------
(* One workspace, its founder and another address, for which two accounts  *)
(* may come to be, with two requests.  The requests are interchangeable,   *)
(* and so are the accounts for the second address.                         *)
EXTENDS Membership

(* The founder's address, and the other. *)
FounderAddress == [u \in Users |-> IF u = Founder THEN "founder" ELSE "other"]

Interchangeable == Permutations(Requests) \cup Permutations(Users \ {Founder})
=============================================================================

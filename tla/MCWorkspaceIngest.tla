-------------------------- MODULE MCWorkspaceIngest --------------------------
(* Model-checking instance of WorkspaceIngest: requests, filters and widgets *)
(* are model values.                                                        *)
EXTENDS WorkspaceIngest

CONSTANTS e1, e2, p1, f1, x1

StatusOnly(s) == [Given("status") EXCEPT !.status = s]
Settings(s, order) ==
    [Given("settings") EXCEPT !.status = s, !.layout = [widgets |-> {}, order |-> order]]

(* A status alone, an order of a widget the layout does not define and an   *)
(* empty layout, each with a status.                                       *)
SomeUpdates ==
    {StatusOnly("active"), StatusOnly("inactive"),
     Settings("error", {x1}), Settings("initializing", {})}
=============================================================================

------------------------------- MODULE EventLog -------------------------------
(***************************************************************************)
(* What the ingestion buffer promises to the rest of the system, without   *)
(* buffers, timers or inserts: one log of events per workspace.  An event  *)
(* is accepted at the end of its log; the oldest events that have no fate  *)
(* yet are then stored or dropped, together, and that decision is final.   *)
(***************************************************************************)
EXTENDS Naturals, Sequences

CONSTANTS Workspaces, Events

VARIABLES log,    \* the accepted events of each workspace, in order
          fate    \* what became of the oldest of them

vars == <<log, fate>>

Fates == {"stored", "dropped"}

Init ==
    /\ log = [w \in Workspaces |-> <<>>]
    /\ fate = [w \in Workspaces |-> <<>>]

Accept(w) ==
    /\ \E e \in Events : log' = [log EXCEPT ![w] = Append(@, e)]
    /\ UNCHANGED fate

Settle(w, k, f) ==
    /\ Len(fate[w]) + k <= Len(log[w])
    /\ fate' = [fate EXCEPT ![w] = @ \o [i \in 1..k |-> f]]
    /\ UNCHANGED log

Next ==
    \E w \in Workspaces :
        \/ Accept(w)
        \/ \E k \in 1..(Len(log[w]) - Len(fate[w])), f \in Fates : Settle(w, k, f)

Spec == Init /\ [][Next]_vars
=============================================================================

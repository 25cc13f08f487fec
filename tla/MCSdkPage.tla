------------------------------ MODULE MCSdkPage ------------------------------
(* Model-checking instance of SdkPage: a tier of one tick, then one of two  *)
(* ticks, then no more heartbeats.                                          *)
EXTENDS SdkPage

TwoTiers == [t \in 0 .. MaxNow |-> IF t < 2 THEN 1 ELSE IF t < 4 THEN 2 ELSE 0]
=============================================================================

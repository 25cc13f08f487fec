----------------------------- MODULE MCSdkSender -----------------------------
(* Two interchangeable tabs and a queue shorter than the payloads built.   *)
EXTENDS SdkSender, TLC

TabSymmetry == Permutations(Tabs)
=============================================================================

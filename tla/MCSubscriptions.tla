-------------------------- MODULE MCSubscriptions --------------------------
(* Model-checking instances of Subscriptions: subscriptions, runners and    *)
(* requests are model values.                                              *)
EXTENDS Subscriptions
============================================================================

------------------------------ MODULE MCBusHub ------------------------------
(* Finite instances of BusHub for TLC. *)
EXTENDS BusHub
=============================================================================

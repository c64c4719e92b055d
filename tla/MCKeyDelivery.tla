---------------------------- MODULE MCKeyDelivery ---------------------------
(* Two keys and two waiting bytes, a ring with two usable slots, a timer look *)
(* every other step (the most that leaves the keyboard a turn), and handlers *)
(* that may be interrupted once.                                             *)
EXTENDS KeyDelivery
=============================================================================

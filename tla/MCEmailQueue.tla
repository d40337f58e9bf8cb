---------------------------- MODULE MCEmailQueue ----------------------------
(* EmailQueue on a small instance.                                          *)
EXTENDS EmailQueue
=============================================================================

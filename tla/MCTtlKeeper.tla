---------------------------- MODULE MCTtlKeeper ----------------------------
(* TtlKeeper instantiated for TLC.                                          *)
EXTENDS TtlKeeper, TLC
=============================================================================

-------------------------- MODULE MCIssuanceIndex --------------------------
(* IssuanceIndex on a small instance.                                       *)
EXTENDS IssuanceIndex
=============================================================================
